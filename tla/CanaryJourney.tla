--------------------------- MODULE CanaryJourney ---------------------------
(***************************************************************************)
(* The canary (services/canary/src/journey.rs, main.rs): on every tick it  *)
(* creates an item, looks for it in the list, waits for analytics to show  *)
(* it, has a report made, and deletes the item.  Journey k's item is k.    *)
(*                                                                         *)
(* A request to the backend may fail before it took effect, after, or with *)
(* the effect still to come: a timeout at the canary does not stop what is *)
(* under way.  Analytics and reports may be absent, slow or wrong.         *)
(***************************************************************************)
EXTENDS Naturals

CONSTANTS MaxJourneys,  \* bound: journeys in a behaviour
          Deadline,     \* timeout of the polling steps, in polls
          MaxFaults     \* bound: failing backend requests and stops

ASSUME CanaryAssumption ==
    MaxJourneys \in Nat /\ Deadline \in Nat \ {0} /\ MaxFaults \in Nat

VARIABLES
    pc,        \* the step of the journey that runs, "idle" between journeys
    journey,   \* number of the current or last journey
    left,      \* what is left of the polling step's deadline
    first,     \* first_attempt of pipeline_lag_step
    verified,  \* verify_item answered Some(true)
    verdict,   \* Outcome of the journey, "none" while it runs or when stopped
    rows,      \* the canary's items in the backend's table
    late,      \* requests given up by the canary that are still under way
    seen,      \* items that analytics knows
    report,    \* status of the report job, "none" when there is none
    excused,   \* history: journeys that lost a backend request, or were stopped
    faults

vars == <<pc, journey, left, first, verified, verdict, rows, late, seen, report,
          excused, faults>>

Journeys == 1..MaxJourneys
Steps    == {"create", "verify", "pipeline", "submit", "report", "delete"}

TypeOK ==
    /\ pc \in Steps \cup {"idle"}
    /\ journey \in 0..MaxJourneys
    /\ left \in 0..Deadline
    /\ first \in BOOLEAN
    /\ verified \in BOOLEAN
    /\ verdict \in {"none", "success", "failure"}
    /\ rows \subseteq Journeys
    /\ late \subseteq {"create", "delete"} \X Journeys
    /\ seen \subseteq Journeys
    /\ report \in {"none", "PENDING", "SUCCEEDED", "FAILED"}
    /\ excused \subseteq Journeys
    /\ faults \in 0..MaxFaults

Init ==
    /\ pc = "idle" /\ journey = 0 /\ left = 0 /\ first = TRUE
    /\ verified = FALSE /\ verdict = "none"
    /\ rows = {} /\ late = {} /\ seen = {} /\ report = "none"
    /\ excused = {} /\ faults = 0

-----------------------------------------------------------------------------
(* Requests to the backend.                                                *)

Apply(op, k) == IF op = "create" THEN rows \cup {k} ELSE rows \ {k}

\* The request got a 2xx.
Answered(op) ==
    /\ rows' = Apply(op, journey)
    /\ UNCHANGED <<late, excused, faults>>

\* An error, or no answer within the timeout: without effect, with it, or
\* with it still to come.
Lost(op) ==
    /\ faults < MaxFaults
    /\ faults' = faults + 1
    /\ excused' = excused \cup {journey}
    /\ \/ UNCHANGED <<rows, late>>
       \/ rows' = Apply(op, journey) /\ UNCHANGED late
       \/ late' = late \cup {<<op, journey>>} /\ UNCHANGED rows

-----------------------------------------------------------------------------
(* journey::run, one step after the other.                                 *)

Tick ==
    /\ pc = "idle"
    /\ journey < MaxJourneys
    /\ journey' = journey + 1
    /\ pc' = "create"
    /\ verified' = FALSE
    /\ verdict' = "none"
    /\ report' = "none"
    /\ UNCHANGED <<left, first, rows, late, seen, excused, faults>>

\* Without an answer there is no id to go on with.
CreateItem ==
    /\ pc = "create"
    /\ \/ Answered("create") /\ pc' = "verify" /\ UNCHANGED verdict
       \/ Lost("create") /\ pc' = "idle" /\ verdict' = "failure"
    /\ UNCHANGED <<journey, left, first, verified, seen, report>>

\* Variant: an item that verify does not find is not looked after any more.
VerifyItem_Returns ==
    /\ pc = "verify"
    /\ verified' \in BOOLEAN /\ (verified' => journey \in rows)
    /\ IF verified' THEN pc' = "pipeline" /\ UNCHANGED verdict
                    ELSE pc' = "idle" /\ verdict' = "failure"
    /\ left' = Deadline
    /\ first' = TRUE
    /\ UNCHANGED <<journey, rows, late, seen, report, excused, faults>>

\* The list is read, or the request fails; the journey goes on either way.
VerifyItem ==
    /\ pc = "verify"
    /\ verified' \in BOOLEAN /\ (verified' => journey \in rows)
    /\ pc' = "pipeline"
    /\ left' = Deadline
    /\ first' = TRUE
    /\ UNCHANGED <<journey, verdict, rows, late, seen, report, excused, faults>>

OtherThanPoll == UNCHANGED <<journey, verified, verdict, rows, late, seen, report,
                             excused, faults>>

\* Variant: each poll gets the whole timeout again.
NextPoll_FreshDeadline == left' = Deadline

\* A poll and the sleep after it take some of what is left, or all of it.
NextPoll == left' \in {left - 1, 0}

\* One GET on analytics: 2xx ends the step, a connect error ends it on the
\* first attempt, anything else is polled through to the deadline.
PollAnalytics ==
    /\ pc = "pipeline"
    /\ \/ (left = 0 \/ journey \in seen \/ first) /\ pc' = "submit"
          /\ UNCHANGED <<left, first>>
       \/ left > 0 /\ NextPoll /\ first' = FALSE /\ UNCHANGED pc
    /\ OtherThanPoll

\* POST /reports: 202 and a Location, or the step is over.  The deadline runs
\* from before the POST, which takes some of it.
SubmitReport ==
    /\ pc = "submit"
    /\ \/ pc' = "report" /\ left' \in 0..Deadline /\ report' = "PENDING"
       \/ pc' = "delete" /\ UNCHANGED <<left, report>>
    /\ UNCHANGED <<journey, first, verified, verdict, rows, late, seen, excused,
                   faults>>

\* One GET on the job: a final status or the deadline ends the step.
PollReport ==
    /\ pc = "report"
    /\ \/ (left = 0 \/ report \in {"SUCCEEDED", "FAILED"}) /\ pc' = "delete"
          /\ UNCHANGED <<left, first>>
       \/ left > 0 /\ NextPoll /\ UNCHANGED <<pc, first>>
    /\ OtherThanPoll

\* The result of the delete is ignored: the verdict is verify's alone.
DeleteItem ==
    /\ pc = "delete"
    /\ Answered("delete") \/ Lost("delete")
    /\ verdict' = IF verified THEN "success" ELSE "failure"
    /\ pc' = "idle"
    /\ UNCHANGED <<journey, left, first, verified, seen, report>>

JourneyStep ==
    CreateItem \/ VerifyItem \/ PollAnalytics \/ SubmitReport \/ PollReport
    \/ DeleteItem

-----------------------------------------------------------------------------
(* What happens around the journey.                                        *)

\* SIGTERM: main returns while the journey's task waits on a request.
Stop ==
    /\ pc # "idle"
    /\ faults < MaxFaults
    /\ faults' = faults + 1
    /\ late' \in {late} \cup {late \cup {<<op, journey>>} : op \in {"create", "delete"} \cap {pc}}
    /\ excused' = excused \cup {journey}
    /\ pc' = "idle"
    /\ UNCHANGED <<journey, left, first, verified, verdict, rows, seen, report>>

\* A request that the canary gave up on arrives.
Arrive(r) ==
    /\ late' = late \ {r}
    /\ rows' = Apply(r[1], r[2])
    /\ UNCHANGED <<pc, journey, left, first, verified, verdict, seen, report,
                   excused, faults>>

\* The event of a row reaches analytics.
Ingest(k) ==
    /\ k \notin seen
    /\ seen' = seen \cup {k}
    /\ UNCHANGED <<pc, journey, left, first, verified, verdict, rows, late, report,
                   excused, faults>>

ReportEnds ==
    /\ report = "PENDING"
    /\ report' \in {"SUCCEEDED", "FAILED"}
    /\ UNCHANGED <<pc, journey, left, first, verified, verdict, rows, late, seen,
                   excused, faults>>

Next ==
    \/ Tick \/ JourneyStep \/ Stop \/ ReportEnds
    \/ \E r \in late : Arrive(r)
    \/ \E k \in rows : Ingest(k)

\* Every request has a timeout and every sleep ends: the task moves on.
Spec == Init /\ [][Next]_vars /\ WF_vars(JourneyStep)

-----------------------------------------------------------------------------
Over(k) == k \in Journeys /\ k <= journey /\ (k = journey => pc = "idle")

\* An item outlives its journey only when the canary lost a request to the
\* backend in that journey or was stopped during it: no answer of verify,
\* analytics or reports, and none that is missing, keeps the journey from its
\* delete (journey.rs run: "The item is deleted even when verify, the
\* pipeline-lag step, or the report step fails or is skipped").  The lost
\* request may be the delete itself, whose result is ignored, so that a
\* journey can leave its item and count as a success.
LeftoversHaveCause ==
    \A k \in Journeys :
      Over(k) /\ (k \in rows \/ <<"create", k>> \in late) => k \in excused

\* Every journey ends, whatever analytics and reports answer or fail to
\* answer, so that the next tick runs the next one (journey.rs
\* pipeline_lag_step and report_step: one deadline for all polls).
EveryJourneyEnds == pc # "idle" ~> pc = "idle"
=============================================================================
