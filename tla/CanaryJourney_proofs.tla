------------------------ MODULE CanaryJourney_proofs ------------------------
(***************************************************************************)
(* Proofs about CanaryJourney, for any number of journeys, any deadline    *)
(* and any number of failing requests: its types, and that what a journey  *)
(* leaves behind has a cause.                                              *)
(***************************************************************************)
EXTENDS CanaryJourney, TLAPS

\* Journeys count from 1: TypeOK alone is not inductive, because the item of
\* a journey 0 would not be one of a journey.
Counted == pc # "idle" => journey \in Journeys

\* A lost request leaves rows, late, excused and faults as they should be.
LEMMA LostKeepsTypes ==
  ASSUME TypeOK, Counted, pc # "idle", NEW op \in {"create", "delete"}, Lost(op)
  PROVE  /\ rows' \subseteq Journeys /\ late' \subseteq {"create", "delete"} \X Journeys
         /\ excused' \subseteq Journeys /\ faults' \in 0..MaxFaults
<1>1. journey \in Journeys /\ <<op, journey>> \in {"create", "delete"} \X Journeys
  BY DEF Counted
<1>2. rows' \subseteq Journeys
  BY <1>1 DEF Lost, Apply, TypeOK
<1>3. late' \subseteq {"create", "delete"} \X Journeys
  BY <1>1 DEF Lost, TypeOK
<1>4. excused' \subseteq Journeys
  BY <1>1 DEF Lost, TypeOK
<1>5. faults' \in 0..MaxFaults
  BY CanaryAssumption DEF Lost, TypeOK
<1> QED
  BY <1>2, <1>3, <1>4, <1>5

\* Every step keeps the types.
LEMMA TypesInductive ==
  ASSUME TypeOK, Counted, [Next]_vars
  PROVE  TypeOK'
<1> USE CanaryAssumption DEF TypeOK, Journeys, Steps
<1>1. CASE Tick
  <2>1. verified' \in BOOLEAN
    BY <1>1, Zenon DEF Tick
  <2> QED  BY <1>1, <2>1 DEF Tick
<1>2. CASE CreateItem
  <2>1. CASE Answered("create")
    BY <1>2, <2>1 DEF CreateItem, Answered, Apply, Counted
  <2>2. CASE Lost("create")
    <3>1. /\ rows' \subseteq Journeys /\ late' \subseteq {"create", "delete"} \X Journeys
          /\ excused' \subseteq Journeys /\ faults' \in 0..MaxFaults
      BY <1>2, <2>2, LostKeepsTypes DEF CreateItem
    <3> QED  BY <1>2, <2>2, <3>1 DEF CreateItem
  <2> QED  BY <1>2, <2>1, <2>2 DEF CreateItem
<1>3. CASE VerifyItem
  <2>1. verified' \in BOOLEAN /\ first' \in BOOLEAN
    BY <1>3, Zenon DEF VerifyItem
  <2> QED  BY <1>3, <2>1 DEF VerifyItem
<1>4. CASE PollAnalytics
  <2>1. first' \in BOOLEAN
    BY <1>4, Zenon DEF PollAnalytics
  <2> QED  BY <1>4, <2>1 DEF PollAnalytics, NextPoll, OtherThanPoll
<1>5. CASE SubmitReport
  BY <1>5 DEF SubmitReport
<1>6. CASE PollReport
  BY <1>6 DEF PollReport, NextPoll, OtherThanPoll
<1>7. CASE DeleteItem
  <2>1. CASE Answered("delete")
    BY <1>7, <2>1 DEF DeleteItem, Answered, Apply, Counted
  <2>2. CASE Lost("delete")
    <3>1. /\ rows' \subseteq Journeys /\ late' \subseteq {"create", "delete"} \X Journeys
          /\ excused' \subseteq Journeys /\ faults' \in 0..MaxFaults
      BY <1>7, <2>2, LostKeepsTypes DEF DeleteItem
    <3> QED  BY <1>7, <2>2, <3>1 DEF DeleteItem
  <2> QED  BY <1>7, <2>1, <2>2 DEF DeleteItem
<1>8. CASE Stop
  BY <1>8 DEF Stop, Counted
<1>9. ASSUME NEW r \in late, Arrive(r)
      PROVE  TypeOK'
  BY <1>9 DEF Arrive, Apply
<1>10. ASSUME NEW k \in rows, Ingest(k)
       PROVE  TypeOK'
  BY <1>10 DEF Ingest
<1>11. CASE ReportEnds
  BY <1>11 DEF ReportEnds
<1>12. CASE UNCHANGED vars
  BY <1>12 DEF vars
<1> QED
  BY <1>1, <1>2, <1>3, <1>4, <1>5, <1>6, <1>7, <1>8, <1>9, <1>10, <1>11, <1>12
     DEF Next, JourneyStep

\* Every step counts its journey.
LEMMA CountedInductive ==
  ASSUME TypeOK, Counted, [Next]_vars
  PROVE  Counted'
<1>1. CASE Tick
  BY <1>1, CanaryAssumption DEF Tick, TypeOK, Counted, Journeys
<1>2. CASE [Next /\ ~Tick]_vars
  <2>1. journey' = journey /\ (pc = "idle" => pc' = "idle")
    BY <1>2 DEF Next, vars, JourneyStep, CreateItem, VerifyItem, PollAnalytics, SubmitReport,
         PollReport, DeleteItem, Stop, Arrive, Ingest, ReportEnds, OtherThanPoll
  <2> QED  BY <2>1 DEF Counted, Journeys
<1> QED
  BY <1>1, <1>2

\* The types hold in every state, whatever number of journeys, polls and
\* failing requests.
THEOREM TypeCorrect == Spec => []TypeOK
<1>1. Init => TypeOK /\ Counted
  <2> SUFFICES ASSUME Init PROVE TypeOK /\ Counted
    OBVIOUS
  <2>1. first \in BOOLEAN /\ verified \in BOOLEAN
    BY Zenon DEF Init
  <2> QED  BY <2>1, CanaryAssumption DEF Init, TypeOK, Counted, Journeys, Steps
<1>2. TypeOK /\ Counted /\ [Next]_vars => (TypeOK /\ Counted)'
  BY TypesInductive, CountedInductive
<1> QED
  BY <1>1, <1>2, PTL DEF Spec

-----------------------------------------------------------------------------
(* What a journey leaves behind.                                           *)

\* A request the canary gave up on belongs to a journey that is excused: the
\* half of the inductive invariant that LeftoversHaveCause does not say,
\* since it speaks of creates and of journeys that are over only.
LateExcused == \A r \in late : r[2] \in excused

\* Every step keeps both halves.
LEMMA LeftoversInductive ==
  ASSUME TypeOK, Counted, LateExcused, LeftoversHaveCause, [Next]_vars
  PROVE  LateExcused' /\ LeftoversHaveCause'
<1> USE CanaryAssumption DEF TypeOK, LateExcused, LeftoversHaveCause, Over, Journeys
<1>1. CASE Tick
  BY <1>1 DEF Tick
<1>2. CASE CreateItem
  <2>1. CASE Answered("create") /\ pc' = "verify"
    BY <1>2, <2>1 DEF CreateItem, Answered, Apply
  <2>2. CASE Lost("create")
    BY <1>2, <2>2 DEF CreateItem, Lost, Apply
  <2> QED  BY <1>2, <2>1, <2>2 DEF CreateItem
<1>3. CASE VerifyItem \/ PollAnalytics \/ SubmitReport \/ PollReport \/ ReportEnds
  <2>1. pc # "idle" => pc' # "idle"
    BY <1>3 DEF VerifyItem, PollAnalytics, SubmitReport, PollReport, ReportEnds
  <2>2. UNCHANGED <<journey, rows, late, excused>> /\ (pc = "idle" => pc' = "idle")
    BY <1>3 DEF VerifyItem, PollAnalytics, SubmitReport, PollReport, ReportEnds, OtherThanPoll
  <2> QED  BY <2>1, <2>2
<1>4. CASE DeleteItem
  <2>1. CASE Answered("delete")
    BY <1>4, <2>1 DEF DeleteItem, Answered, Apply
  <2>2. CASE Lost("delete")
    BY <1>4, <2>2 DEF DeleteItem, Lost, Apply
  <2> QED  BY <1>4, <2>1, <2>2 DEF DeleteItem
<1>5. CASE Stop
  BY <1>5 DEF Stop
<1>6. ASSUME NEW r \in late, Arrive(r)
      PROVE  LateExcused' /\ LeftoversHaveCause'
  BY <1>6 DEF Arrive, Apply
<1>7. ASSUME NEW k \in rows, Ingest(k)
      PROVE  LateExcused' /\ LeftoversHaveCause'
  BY <1>7 DEF Ingest
<1>8. CASE UNCHANGED vars
  BY <1>8 DEF vars
<1> QED
  BY <1>1, <1>2, <1>3, <1>4, <1>5, <1>6, <1>7, <1>8 DEF Next, JourneyStep

\* An item outlives its journey only when the journey lost a request to the
\* backend or was stopped (journey.rs run deletes whatever the other steps
\* answer), for any number of journeys.
THEOREM LeftoversAreExplained == Spec => []LeftoversHaveCause
<1>1. Init => TypeOK /\ Counted /\ LateExcused /\ LeftoversHaveCause
  <2> SUFFICES ASSUME Init PROVE TypeOK /\ Counted /\ LateExcused /\ LeftoversHaveCause
    OBVIOUS
  <2>1. first \in BOOLEAN /\ verified \in BOOLEAN
    BY Zenon DEF Init
  <2>2. TypeOK /\ Counted
    BY <2>1, CanaryAssumption DEF Init, TypeOK, Counted, Journeys, Steps
  <2> QED  BY <2>2 DEF Init, LateExcused, LeftoversHaveCause
<1>2. TypeOK /\ Counted /\ LateExcused /\ LeftoversHaveCause /\ [Next]_vars
        => (TypeOK /\ Counted /\ LateExcused /\ LeftoversHaveCause)'
  BY TypesInductive, CountedInductive, LeftoversInductive
<1> QED
  BY <1>1, <1>2, PTL DEF Spec
=============================================================================
