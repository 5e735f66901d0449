-------------------------- MODULE ReportsUI_proofs --------------------------
(***************************************************************************)
(* Proofs about ReportsUI, for any number of submissions, list requests    *)
(* and failing requests: its types, that the page shows the status of the  *)
(* job it names, and that a superseded loop sets no timer.                 *)
(***************************************************************************)
EXTENDS ReportsUI, TLAPS

\* The page starts with the types.
LEMMA TypesInitially ==
  ASSUME Init
  PROVE  TypeOK
<1>1. ended \in BOOLEAN
  BY Zenon DEF Init
<1>2. status \in Lists /\ table \in Lists
  BY DEF Init, NoJobs, Lists
<1>3. /\ pill \in [job : 0..MaxJobs, status : Statuses \cup {"none"}]
      /\ poll \in [Jobs -> Statuses \cup {"none", "request", "timer", "gone", "error"}]
      /\ load \in [Loads -> Lists \cup {<<"free">>, <<"sent">>, <<"error">>}]
  BY UIAssumption DEF Init
<1> QED
  BY <1>1, <1>2, <1>3, UIAssumption DEF Init, TypeOK

\* Every step keeps the types.
LEMMA TypesInductive ==
  ASSUME TypeOK, [Next]_vars
  PROVE  TypeOK'
<1> DEFINE Answers == Lists \cup {<<"free">>, <<"sent">>, <<"error">>}
<1> USE UIAssumption DEF TypeOK
<1>1. StartLoad => load' \in [Loads -> Answers]
  BY DEF StartLoad
<1>2. CASE Refresh
  BY <1>1, <1>2 DEF Refresh, OtherThanTable, pageVars
<1>3. ASSUME NEW l \in Loads, ListAnswered(l)
      PROVE  TypeOK'
  BY <1>3 DEF ListAnswered, OtherThanTable, pageVars
<1>4. ASSUME NEW l \in Loads, RenderJobs(l)
      PROVE  TypeOK'
  BY <1>4 DEF RenderJobs, OtherThanTable, pageVars, NoJobs, Lists
<1>5. CASE Submit
  BY <1>5 DEF Submit, CanSubmit, Cleared, pageVars, tableVars
<1>6. CASE SubmitAnswered
  <2>1. ended' \in BOOLEAN
    BY <1>6, Zenon DEF SubmitAnswered
  <2>2. pill' \in [job : 0..MaxJobs, status : Statuses \cup {"none"}]
    BY <1>6 DEF SubmitAnswered, Jobs, Statuses
  <2>3. status' \in Lists
    BY <1>6 DEF SubmitAnswered, Statuses, Lists
  <2>4. load' \in [Loads -> Answers]
    BY <1>1, <1>6 DEF SubmitAnswered
  <2>5. poll' \in [Jobs -> Statuses \cup {"none", "request", "timer", "gone", "error"}]
    BY <1>6 DEF SubmitAnswered
  <2> QED
    BY <1>6, <2>1, <2>2, <2>3, <2>4, <2>5 DEF SubmitAnswered, Jobs
<1>7. CASE SubmitFails
  BY <1>7 DEF SubmitFails, pageVars, tableVars
<1>8. ASSUME NEW g \in Jobs, PollAnswered(g)
      PROVE  TypeOK'
  BY <1>8 DEF PollAnswered, pageVars, tableVars, Lists
<1>9. ASSUME NEW g \in Jobs, PollReceived(g)
      PROVE  TypeOK'
  <2>1. ended' \in BOOLEAN
    BY <1>9, Zenon DEF PollReceived, AgainOrStop
  <2>2. pill' \in [job : 0..MaxJobs, status : Statuses \cup {"none"}]
    BY <1>9 DEF PollReceived, Jobs
  <2>3. poll' \in [Jobs -> Statuses \cup {"none", "request", "timer", "gone", "error"}]
    BY <1>9 DEF PollReceived, AgainOrStop
  <2>4. load' \in [Loads -> Answers]
    BY <1>1, <1>9 DEF PollReceived
  <2>5. download' \in 0..MaxJobs /\ pollTimer' \in 0..MaxJobs
    BY <1>9 DEF PollReceived, AgainOrStop, Jobs
  <2>6. banner' \in {"none", "error", "stopped"}
    BY <1>9 DEF PollReceived, AgainOrStop
  <2> QED
    BY <1>9, <2>1, <2>2, <2>3, <2>4, <2>5, <2>6 DEF PollReceived
<1>10. ASSUME NEW g \in Jobs, TimerFires(g)
      PROVE  TypeOK'
  BY <1>10 DEF TimerFires, pageVars, tableVars
<1>11. ASSUME NEW g \in Jobs, JobStep(g)
      PROVE  TypeOK'
  BY <1>11 DEF JobStep, pageVars, tableVars, Lists, Statuses, Terminal
<1>12. CASE UNCHANGED vars
  BY <1>12 DEF vars
<1> QED
  BY <1>2, <1>3, <1>4, <1>5, <1>6, <1>7, <1>8, <1>9, <1>10, <1>11, <1>12 DEF Next, Polling

\* The types hold in every state.
THEOREM TypeCorrect == Spec => []TypeOK
<1>1. Init => TypeOK
  BY TypesInitially
<1>2. TypeOK /\ [Next]_vars => TypeOK'
  BY TypesInductive
<1> QED
  BY <1>1, <1>2, PTL DEF Spec

-----------------------------------------------------------------------------
(* What the page shows.                                                    *)

\* A download link means that the loop of the job on display has ended: the
\* part that makes PillOfShownJob inductive, since an answer still to come
\* could otherwise put another status beside the link.
LinkEndsLoop == download # 0 => poll[download] = "none"

\* Every step keeps what the page shows in line with the job it shows.
LEMMA PillInductive ==
  ASSUME TypeOK, PillOfShownJob, LinkEndsLoop, [Next]_vars
  PROVE  PillOfShownJob' /\ LinkEndsLoop'
<1> USE UIAssumption DEF TypeOK, PillOfShownJob, LinkEndsLoop
<1>1. download # 0 => download \in Jobs
  BY DEF Jobs
<1>2. CASE Refresh
  BY <1>2 DEF Refresh, OtherThanTable, pageVars
<1>3. ASSUME NEW l \in Loads, ListAnswered(l) \/ RenderJobs(l)
      PROVE  PillOfShownJob' /\ LinkEndsLoop'
  BY <1>3 DEF ListAnswered, RenderJobs, OtherThanTable, pageVars
<1>4. CASE Submit
  BY <1>1, <1>4 DEF Submit, Cleared, pageVars
<1>5. CASE SubmitAnswered
  BY <1>5 DEF SubmitAnswered
<1>6. CASE SubmitFails
  BY <1>6 DEF SubmitFails, pageVars
<1>7. ASSUME NEW g \in Jobs, PollAnswered(g) \/ TimerFires(g)
      PROVE  PillOfShownJob' /\ LinkEndsLoop'
  <2>1. UNCHANGED <<pill, download, pollGeneration>>
    BY <1>7 DEF PollAnswered, TimerFires, pageVars
  <2>2. \A j \in Jobs : poll[j] = "none" => poll'[j] = "none"
    BY <1>7 DEF PollAnswered, TimerFires
  <2> QED  BY <1>1, <2>1, <2>2
<1>8. ASSUME NEW g \in Jobs, PollReceived(g)
      PROVE  PillOfShownJob' /\ LinkEndsLoop'
  <2>1. poll[g] # "none" /\ UNCHANGED pollGeneration
    BY <1>8 DEF PollReceived
  <2>2. CASE Stale(g)
    <3>1. UNCHANGED <<pill, download>> /\ poll' = [poll EXCEPT ![g] = "none"]
      BY <1>8, <2>2 DEF PollReceived
    <3> QED  BY <1>1, <2>1, <3>1
  <2>3. CASE ~Stale(g)
    <3>1. g = pollGeneration /\ download = 0
      BY <2>1, <2>3 DEF Stale, Jobs
    <3>2. CASE poll[g] \in Statuses
      <4>1. /\ pill' = [job |-> g, status |-> poll[g]]
            /\ download' = IF poll[g] = "SUCCEEDED" THEN g ELSE download
            /\ poll[g] \in Terminal => poll' = [poll EXCEPT ![g] = "none"]
        BY <1>8, <2>3, <3>2 DEF PollReceived, Statuses, Terminal
      <4> QED  BY <2>1, <3>1, <4>1 DEF Terminal
    <3>3. CASE poll[g] \notin Statuses
      <4>1. UNCHANGED <<pill, download>>
        BY <1>8, <2>3, <3>3 DEF PollReceived
      <4> QED  BY <2>1, <3>1, <4>1
    <3> QED  BY <3>2, <3>3
  <2> QED  BY <2>2, <2>3
<1>9. ASSUME NEW g \in Jobs, JobStep(g)
      PROVE  PillOfShownJob' /\ LinkEndsLoop'
  BY <1>9 DEF JobStep, pageVars
<1>10. CASE UNCHANGED vars
  BY <1>10 DEF vars
<1> QED
  BY <1>2, <1>3, <1>4, <1>5, <1>6, <1>7, <1>8, <1>9, <1>10 DEF Next, Polling

\* Whatever answers of earlier jobs are still under way, the status and the
\* link on the page are those of the job on the page (app.js pollGeneration).
THEOREM PillShowsItsJob == Spec => []PillOfShownJob
<1>1. Init => TypeOK /\ PillOfShownJob /\ LinkEndsLoop
  <2>1. Init => PillOfShownJob /\ LinkEndsLoop
    BY DEF Init, PillOfShownJob, LinkEndsLoop
  <2> QED  BY <2>1, TypesInitially
<1>2. TypeOK /\ PillOfShownJob /\ LinkEndsLoop /\ [Next]_vars
        => (TypeOK /\ PillOfShownJob /\ LinkEndsLoop)'
  BY TypesInductive, PillInductive
<1> QED
  BY <1>1, <1>2, PTL DEF Spec

\* A loop whose job is not on display any more sets no timer.
THEOREM NoTimerOfOldLoops == Spec => NoRogueTimer
<1>1. ASSUME TypeOK, [Next]_vars
      PROVE  [\A g \in Jobs :
                g < pollGeneration /\ poll[g] # "timer" => poll'[g] # "timer"]_vars
  <2> SUFFICES ASSUME Next, NEW g \in Jobs, g < pollGeneration, poll[g] # "timer"
               PROVE  poll'[g] # "timer"
    BY <1>1
  <2> USE <1>1, UIAssumption DEF TypeOK
  <2>1. ASSUME NEW l \in Loads, ListAnswered(l) \/ RenderJobs(l)
        PROVE  poll'[g] # "timer"
    BY <2>1 DEF ListAnswered, RenderJobs, OtherThanTable
  <2>2. CASE Refresh \/ SubmitFails
    BY <2>2 DEF Refresh, SubmitFails, OtherThanTable
  <2>3. CASE Submit \/ SubmitAnswered
    BY <2>3 DEF Submit, SubmitAnswered, Cleared
  <2>4. ASSUME NEW h \in Jobs, PollAnswered(h)
        PROVE  poll'[g] # "timer"
    BY <2>4 DEF PollAnswered, Lists, Statuses, Terminal
  <2>5. ASSUME NEW h \in Jobs, PollReceived(h)
        PROVE  poll'[g] # "timer"
    <3>1. CASE Stale(h)
      BY <2>5, <3>1 DEF PollReceived
    <3>2. CASE ~Stale(h)
      <4>1. h # g
        BY <3>2 DEF Stale, Jobs
      <4> QED  BY <2>5, <3>2, <4>1 DEF PollReceived, AgainOrStop
    <3> QED  BY <3>1, <3>2
  <2>6. ASSUME NEW h \in Jobs, TimerFires(h) \/ JobStep(h)
        PROVE  poll'[g] # "timer"
    BY <2>6 DEF TimerFires, JobStep
  <2> QED
    BY <2>1, <2>2, <2>3, <2>4, <2>5, <2>6 DEF Next, Polling
<1> QED
  BY <1>1, TypeCorrect, PTL DEF Spec, NoRogueTimer
=============================================================================
