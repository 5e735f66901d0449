------------------------- MODULE AnomalyAnnotations -------------------------
(***************************************************************************)
(* The last step of a seed run: the annotations of the previous run in     *)
(* Grafana are replaced by its own, one HTTP call each (internal/grafana,  *)
(* cmd/analytics/seed.go).  A run goes                                     *)
(*                                                                         *)
(*   seeding -> list -> delete -> create -> ok,   or to failed on an error *)
(*                                                                         *)
(* and two runs may overlap.  A call that fails may have had its effect,   *)
(* may have none, or may still be on its way to Grafana.                   *)
(***************************************************************************)
EXTENDS Naturals, FiniteSets

CONSTANTS Runs,         \* seed runs
          NumAnomalies, \* anomalies in the profile
          Limit,        \* of one list call
          MaxFaults     \* bound: failing calls

ASSUME AnnotationsAssumption ==
    /\ NumAnomalies \in Nat \ {0} /\ Limit \in Nat /\ MaxFaults \in Nat

VARIABLES
    shown,     \* Grafana's annotations with the seed tag
    lastId,    \* Grafana's id counter
    late,      \* requests whose caller has given up and that are still to arrive
    stage,     \* of each run
    stale,     \* of each run: listed ids not deleted yet
    next,      \* of each run: the next anomaly to annotate
    listed,    \* history: what each run has listed
    disturbed, \* history: the runs that have not been alone since their list,
               \* or got only a part of it
    tangled,   \* history: some effect overlapped a run or came late, and no run
               \* that was alone has succeeded since
    faults

vars == <<shown, lastId, late, stage, stale, next, listed, disturbed, tangled, faults>>
history == <<listed, disturbed, tangled>>

Anomalies == 1..NumAnomalies
Ids       == {a.id : a \in shown}
Running   == {r \in Runs : stage[r] \in {"delete", "create"}}

Requests == [kind : {"delete"}, id : Nat] \cup [kind : {"create"}, run : Runs, anomaly : Anomalies]

TypeOK ==
    /\ shown \subseteq [id : 1..lastId, run : Runs, anomaly : Anomalies]
    /\ lastId \in Nat
    /\ late \subseteq Requests
    /\ stage \in [Runs -> {"seeding", "list", "delete", "create", "ok", "failed"}]
    /\ stale \in [Runs -> SUBSET (1..lastId)]
    /\ next \in [Runs -> 1..(NumAnomalies + 1)]
    /\ \A r \in Runs : stage[r] = "ok" => stale[r] = {} /\ next[r] = NumAnomalies + 1
    /\ \A r \in Runs : stale[r] \subseteq listed[r]
    /\ disturbed \subseteq Runs /\ tangled \in BOOLEAN

Init ==
    /\ shown = {} /\ lastId = 0 /\ late = {}
    /\ stage = [r \in Runs |-> "seeding"]
    /\ stale = [r \in Runs |-> {}]
    /\ next = [r \in Runs |-> 1]
    /\ listed = [r \in Runs |-> {}]
    /\ disturbed = {} /\ tangled = FALSE /\ faults = 0

Go(r, s) == stage' = [stage EXCEPT ![r] = s]

\* A call takes effect beside the runs in others; `won` when it ends a run
\* that was alone all the time.
Effect(others, won) ==
    /\ disturbed' = disturbed \cup others
    /\ tangled' = IF won THEN FALSE ELSE tangled \/ others # {}
    /\ UNCHANGED listed

-----------------------------------------------------------------------------
(* Grafana: ids are never used again, and an id that is not there is an    *)
(* error.                                                                  *)

Apply(req) ==
    IF req.kind = "create"
    THEN /\ lastId' = lastId + 1
         /\ shown' = shown \cup {[id |-> lastId', run |-> req.run, anomaly |-> req.anomaly]}
    ELSE /\ shown' = {a \in shown : a.id # req.id}
         /\ UNCHANGED lastId

Succeeds(req) == req.kind = "delete" => req.id \in Ids

-----------------------------------------------------------------------------
\* The seed marker is written; the annotations come after it.
MarkerWritten(r) ==
    /\ stage[r] = "seeding"
    /\ Go(r, "list")
    /\ UNCHANGED <<shown, lastId, late, stale, next, history, faults>>

\* What listByTag may return: everything, or as much as the limit allows.
Listed ==
    IF Cardinality(Ids) <= Limit THEN {Ids}
    ELSE {S \in SUBSET Ids : Cardinality(S) = Limit}

ListByTag(r) ==
    /\ stage[r] = "list"
    /\ \E ids \in Listed :
         stale' = [stale EXCEPT ![r] = ids] /\ listed' = [listed EXCEPT ![r] = ids]
    /\ Go(r, "delete")
    /\ disturbed' = disturbed \cup Running \cup
         (IF Running = {} /\ Cardinality(Ids) <= Limit THEN {} ELSE {r})
    /\ tangled' = (tangled \/ Running # {})
    /\ UNCHANGED <<shown, lastId, late, next, faults>>

\* The request a run sends next; while something is stale, a deletion.
Call(r) ==
    IF stage[r] = "delete"
    THEN {[kind |-> "delete", id |-> i] : i \in stale[r]}
    ELSE {[kind |-> "create", run |-> r, anomaly |-> next[r]]}

\* Variant: the new annotations are made first.
StageAfter_CreateFirst(olds, n) ==
    IF n <= NumAnomalies THEN "create" ELSE IF olds # {} THEN "delete" ELSE "ok"

\* Deletes first, then creates.
StageAfter(olds, n) ==
    IF olds # {} THEN "delete" ELSE IF n <= NumAnomalies THEN "create" ELSE "ok"

\* The loops of ReplaceAnomalyAnnotations go on by themselves when there is
\* nothing (more) to delete.
NothingStale(r) ==
    /\ stage[r] = "delete" /\ stale[r] = {}
    /\ Go(r, StageAfter({}, next[r]))
    /\ UNCHANGED <<shown, lastId, late, stale, next, history, faults>>

\* delete or create: the call succeeds.
Replace(r) ==
    /\ stage[r] \in {"delete", "create"}
    /\ \E req \in Call(r) :
         /\ Succeeds(req)
         /\ Apply(req)
         /\ stale' = [stale EXCEPT ![r] = IF req.kind = "delete" THEN @ \ {req.id} ELSE @]
         /\ next' = [next EXCEPT ![r] = IF req.kind = "create" THEN @ + 1 ELSE @]
    /\ Go(r, StageAfter(stale'[r], next'[r]))
    /\ Effect(Running \ {r}, stage'[r] = "ok" /\ r \notin disturbed)
    /\ UNCHANGED <<late, faults>>

\* Variant: an annotation that cannot be deleted is skipped.
NotFound_Skipped(r) ==
    /\ stage[r] = "delete"
    /\ \E req \in Call(r) :
         ~Succeeds(req) /\ stale' = [stale EXCEPT ![r] = @ \ {req.id}]
    /\ UNCHANGED <<shown, lastId, late, stage, next, history, faults>>

\* Grafana refuses to delete what another run has deleted.
NotFound(r) ==
    /\ stage[r] = "delete"
    /\ \E req \in Call(r) : ~Succeeds(req)
    /\ Go(r, "failed")
    /\ UNCHANGED <<shown, lastId, late, stale, next, history, faults>>

\* Variant: the error of a create is logged and the loop goes on.
CallFails_CreateSkipped(r) ==
    /\ stage[r] = "create" /\ faults < MaxFaults
    /\ faults' = faults + 1
    /\ next' = [next EXCEPT ![r] = @ + 1]
    /\ Go(r, StageAfter(stale[r], next'[r]))
    /\ UNCHANGED <<shown, lastId, late, stale, history>>

\* A call fails, with or without its effect, or times out on its way, or the
\* process is killed.  The rest is left undone; the seed still exits 0.
CallFails(r) ==
    /\ stage[r] \in {"list", "delete", "create"} /\ faults < MaxFaults
    /\ faults' = faults + 1
    /\ Go(r, "failed")
    /\ \/ UNCHANGED <<shown, lastId, late, history>>
       \/ /\ stage[r] # "list"
          /\ \E req \in Call(r) : Succeeds(req) /\ Apply(req)
          /\ Effect(Running \ {r}, FALSE)
          /\ UNCHANGED late
       \/ /\ stage[r] # "list"
          /\ \E req \in Call(r) : late' = late \cup {req}
          /\ UNCHANGED <<shown, lastId, history>>
    /\ UNCHANGED <<stale, next>>

\* A request that nobody waits for arrives.
ArrivesLate(req) ==
    /\ req \in late
    /\ late' = late \ {req}
    /\ IF Succeeds(req) THEN Apply(req) ELSE UNCHANGED <<shown, lastId>>
    /\ disturbed' = disturbed \cup Running /\ tangled' = TRUE /\ UNCHANGED listed
    /\ UNCHANGED <<stage, stale, next, faults>>

Next ==
    \/ \E r \in Runs : \/ MarkerWritten(r) \/ ListByTag(r) \/ NothingStale(r)
                       \/ Replace(r) \/ NotFound(r) \/ CallFails(r)
    \/ \E req \in late : ArrivesLate(req)

Spec == Init /\ [][Next]_vars

-----------------------------------------------------------------------------
(* Properties.                                                             *)

\* A run that reports success, and was alone since its list, leaves exactly
\* its own annotations, whatever earlier runs left half done or overlapping
\* (seed.go: "re-running replaces the previous run's annotations by tag
\* instead of accumulating them").
SuccessReplacesEverything ==
    [][\A r \in Runs \ disturbed' :
         stage[r] # "ok" /\ stage'[r] = "ok" =>
           /\ {<<a.run, a.anomaly>> : a \in shown'} = {<<r, k>> : k \in Anomalies}
           /\ Cardinality(shown') = NumAnomalies]_vars

\* The dashboard never shows annotations of two runs together and never one
\* twice, until runs overlap or a request arrives late, and again after the
\* next run that was alone: a failure in the middle loses annotations but does
\* not mix them (ReplaceAnomalyAnnotations deletes all before it creates one).
NeverMixed ==
    ~tangled => \A a, b \in shown : a.run = b.run /\ (a.anomaly = b.anomaly => a = b)

\* Of two overlapping runs that set out to replace the same annotation, at
\* most one reports success: the other finds it gone and stops (delete treats
\* every status but 200 as an error).
OneReplacer ==
    \A r, s \in Runs : r # s /\ stage[r] = "ok" /\ stage[s] = "ok" =>
       listed[r] \cap listed[s] = {}
=============================================================================
