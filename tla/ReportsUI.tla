----------------------------- MODULE ReportsUI -----------------------------
(***************************************************************************)
(* The reports page (services/reports-ui/site/app.js): submit a job, poll  *)
(* it, show its status and its download link, and keep a table of recent   *)
(* jobs.  JavaScript runs one callback at a time; between two awaits the   *)
(* user resubmits, other answers come in and timers fire.                  *)
(*                                                                         *)
(* Each accepted submission starts job number pollGeneration and a chain   *)
(* of polls for it: request, answer, timer, request...                     *)
(***************************************************************************)
EXTENDS Naturals

CONSTANTS MaxJobs,    \* bound: accepted submissions
          Loads,      \* slots for list requests in flight
          MaxErrors   \* bound: failing requests

ASSUME UIAssumption == MaxJobs \in Nat /\ MaxErrors \in Nat

VARIABLES
    pollGeneration,  \* number of the job on display
    submitting,      \* POSTs in flight
    pill,            \* status on display, and (history) the job that had it
    download,        \* job of the link on display, 0 when hidden
    poll,            \* job -> where its chain of polls is, or the answer to it
    pollTimer,       \* job whose timer was set last, 0 for null
    status,          \* the service: job -> its status
    table,           \* recent jobs on display: job -> status, "none" if absent
    load,            \* slot -> a list request, or the answer to it
    banner,          \* "none", "error", or "stopped": the polling has ended
    ended,           \* history: the polling of the job on display has ended
                     \* before its final status was seen
    errors

vars == <<pollGeneration, submitting, pill, download, poll, pollTimer, status,
          table, load, banner, ended, errors>>

Jobs     == 1..MaxJobs
Terminal == {"SUCCEEDED", "FAILED"}
Statuses == {"RUNNING"} \cup Terminal   \* PENDING is RUNNING to the page
Lists    == [Jobs -> Statuses \cup {"none"}]

TypeOK ==
    /\ pollGeneration \in 0..MaxJobs
    /\ submitting \in 0..1
    /\ pill \in [job : 0..MaxJobs, status : Statuses \cup {"none"}]
    /\ download \in 0..MaxJobs
    /\ poll \in [Jobs -> Statuses \cup {"none", "request", "timer", "gone", "error"}]
    /\ pollTimer \in 0..MaxJobs
    /\ status \in Lists
    /\ table \in Lists
    /\ load \in [Loads -> Lists \cup {<<"free">>, <<"sent">>, <<"error">>}]
    /\ banner \in {"none", "error", "stopped"}
    /\ ended \in BOOLEAN
    /\ errors \in 0..MaxErrors

NoJobs == [j \in Jobs |-> "none"]

Init ==
    /\ pollGeneration = 0 /\ submitting = 0
    /\ pill = [job |-> 0, status |-> "none"] /\ download = 0
    /\ poll = [j \in Jobs |-> "none"] /\ pollTimer = 0
    /\ status = NoJobs /\ table = NoJobs
    /\ load = [l \in Loads |-> <<"free">>]
    /\ banner = "none" /\ ended = FALSE /\ errors = 0

tableVars == <<table, load>>
pageVars  == <<pill, download, pollGeneration>>

-----------------------------------------------------------------------------
(* The recent jobs table.                                                  *)

\* loadJobs() sends its request; with all slots taken the bound drops it.
StartLoad ==
    LET free == {l \in Loads : load[l] = <<"free">>}
    IN  IF free = {} THEN UNCHANGED load
        ELSE load' = [load EXCEPT ![CHOOSE l \in free : TRUE] = <<"sent">>]

OtherThanTable == UNCHANGED <<pageVars, submitting, poll, pollTimer, status, ended>>

\* setInterval, or a click on Refresh.
Refresh ==
    /\ \E l \in Loads : load[l] = <<"free">>
    /\ StartLoad
    /\ UNCHANGED <<table, banner, errors>>
    /\ OtherThanTable

ListAnswered(l) ==
    /\ load[l] = <<"sent">>
    /\ \/ load' = [load EXCEPT ![l] = status] /\ UNCHANGED errors
       \/ /\ errors < MaxErrors
          /\ errors' = errors + 1
          /\ load' = [load EXCEPT ![l] = <<"error">>]
    /\ UNCHANGED <<table, banner>>
    /\ OtherThanTable

\* Variant: a list that arrives leaves the banner as it is.
RenderJobs_KeepsBanner(l) ==
    /\ load[l] \notin {<<"free">>, <<"sent">>}
    /\ table' = IF load[l] = <<"error">> THEN NoJobs ELSE load[l]
    /\ banner' = IF load[l] = <<"error">> THEN "error" ELSE banner
    /\ load' = [load EXCEPT ![l] = <<"free">>]
    /\ UNCHANGED errors
    /\ OtherThanTable

\* renderJobs, or the empty table when the request failed.  Answers are shown
\* in the order in which they come, and hide whatever banner there is.
RenderJobs(l) ==
    /\ load[l] \notin {<<"free">>, <<"sent">>}
    /\ table' = IF load[l] = <<"error">> THEN NoJobs ELSE load[l]
    /\ banner' = IF load[l] = <<"error">> THEN "error" ELSE "none"
    /\ load' = [load EXCEPT ![l] = <<"free">>]
    /\ UNCHANGED errors
    /\ OtherThanTable

-----------------------------------------------------------------------------
(* submitReport(): up to its await, and what follows the answer.           *)

CanSubmit == submitting = 0

\* clearTimeout(pollTimer): only the timer that was set last is known.
Cleared == [j \in Jobs |-> IF j = pollTimer /\ poll[j] = "timer" THEN "none" ELSE poll[j]]

Submit ==
    /\ CanSubmit
    /\ pollGeneration < MaxJobs
    /\ submitting' = submitting + 1
    /\ poll' = Cleared
    /\ pollTimer' = 0
    /\ banner' = "none"
    /\ UNCHANGED <<pageVars, tableVars, status, ended, errors>>

SubmitAnswered ==
    LET g == pollGeneration + 1
    IN  /\ submitting > 0
        /\ g \in Jobs
        /\ submitting' = submitting - 1
        /\ status' = [status EXCEPT ![g] = "RUNNING"]
        /\ pollGeneration' = g
        /\ pill' = [job |-> g, status |-> "RUNNING"]
        /\ download' = 0
        /\ poll' = [poll EXCEPT ![g] = "request"]
        /\ StartLoad
        /\ ended' = FALSE
        /\ UNCHANGED <<pollTimer, table, banner, errors>>

\* The banner tells it; the job on display keeps a chain of polls only if a
\* poll was in flight at the click.
SubmitFails ==
    /\ submitting > 0
    /\ errors < MaxErrors
    /\ errors' = errors + 1
    /\ submitting' = submitting - 1
    /\ banner' = "error"
    /\ ended' = (ended \/ (pollGeneration \in Jobs /\ poll[pollGeneration] = "none"))
    /\ UNCHANGED <<pageVars, poll, pollTimer, tableVars, status>>

-----------------------------------------------------------------------------
(* pollJob().                                                              *)

\* The service answers, with the status of that moment or an error.
PollAnswered(g) ==
    /\ poll[g] = "request"
    /\ \/ poll' = [poll EXCEPT ![g] = status[g]] /\ UNCHANGED errors
       \/ /\ errors < MaxErrors
          /\ errors' = errors + 1
          /\ \E e \in {"error", "gone"} : poll' = [poll EXCEPT ![g] = e]
    /\ UNCHANGED <<pageVars, submitting, pollTimer, tableVars, status, banner, ended>>

\* Variant: after a failed request the banner promises a retry, and no timer
\* is set.
AgainOrStop_NoRetry(g) ==
    \/ /\ poll' = [poll EXCEPT ![g] = IF poll[g] = "error" THEN "none" ELSE "timer"]
       /\ pollTimer' = g
       /\ banner' = IF poll[g] = "error" THEN "error" ELSE banner
       /\ UNCHANGED ended
    \/ /\ poll' = [poll EXCEPT ![g] = "none"]
       /\ banner' = "stopped" /\ ended' = TRUE
       /\ UNCHANGED pollTimer

\* setTimeout, with a banner if the request failed, or, past the deadline, the
\* banner that says it is over.
AgainOrStop(g) ==
    \/ /\ poll' = [poll EXCEPT ![g] = "timer"]
       /\ pollTimer' = g
       /\ banner' = IF poll[g] = "error" THEN "error" ELSE banner
       /\ UNCHANGED ended
    \/ /\ poll' = [poll EXCEPT ![g] = "none"]
       /\ banner' = "stopped" /\ ended' = TRUE
       /\ UNCHANGED pollTimer

\* Variant: the check is missing where a request failed.
Stale_NotAfterError(g) == g # pollGeneration /\ poll[g] # "error"

\* Variant: nobody asks whether the job is still the one on display.
Stale_Unchecked(g) == FALSE

Stale(g) == g # pollGeneration

PollReceived(g) ==
    /\ poll[g] \notin {"none", "request", "timer"}
    /\ \/ /\ Stale(g)
          /\ poll' = [poll EXCEPT ![g] = "none"]
          /\ UNCHANGED <<pill, download, load, pollTimer, banner, ended>>
       \/ /\ ~Stale(g)
          /\ poll[g] \in Statuses
          /\ pill' = [job |-> g, status |-> poll[g]]
          /\ download' = IF poll[g] = "SUCCEEDED" THEN g ELSE download
          /\ IF poll[g] \in Terminal
             THEN /\ poll' = [poll EXCEPT ![g] = "none"]
                  /\ StartLoad
                  /\ UNCHANGED <<pollTimer, banner, ended>>
             ELSE AgainOrStop(g) /\ UNCHANGED load
       \/ /\ ~Stale(g)
          /\ poll[g] = "error"
          /\ AgainOrStop(g)
          /\ UNCHANGED <<pill, download, load>>
       \/ /\ ~Stale(g)
          /\ poll[g] = "gone"
          /\ poll' = [poll EXCEPT ![g] = "none"]
          /\ banner' = "stopped" /\ ended' = TRUE
          /\ UNCHANGED <<pill, download, load, pollTimer>>
    /\ UNCHANGED <<pollGeneration, submitting, status, table, errors>>

TimerFires(g) ==
    /\ poll[g] = "timer"
    /\ poll' = [poll EXCEPT ![g] = "request"]
    /\ UNCHANGED <<pageVars, submitting, pollTimer, tableVars, status, banner, ended,
                   errors>>

-----------------------------------------------------------------------------
\* The job engine gets to the end of a job.
JobStep(g) ==
    /\ status[g] = "RUNNING"
    /\ \E s \in Terminal : status' = [status EXCEPT ![g] = s]
    /\ UNCHANGED <<pageVars, submitting, poll, pollTimer, tableVars, banner, ended, errors>>

Polling(g) == PollAnswered(g) \/ PollReceived(g) \/ TimerFires(g)

Next ==
    \/ Refresh \/ Submit \/ SubmitAnswered \/ SubmitFails
    \/ \E l \in Loads : ListAnswered(l) \/ RenderJobs(l)
    \/ \E g \in Jobs : Polling(g) \/ JobStep(g)

\* Timers fire, requests end one way or the other, jobs end; the user is free.
Spec ==
    /\ Init /\ [][Next]_vars
    /\ WF_vars(Refresh)
    /\ WF_vars(SubmitAnswered \/ SubmitFails)
    /\ \A l \in Loads : WF_vars(ListAnswered(l)) /\ WF_vars(RenderJobs(l))
    /\ \A g \in Jobs : WF_vars(Polling(g)) /\ WF_vars(JobStep(g))

-----------------------------------------------------------------------------
\* The status and the download link on display are those of the job on
\* display, however the answers to polls of earlier jobs and the
\* resubmissions interleave (app.js pollGeneration: a surviving loop "can
\* never overwrite the current job's status").
PillOfShownJob ==
    /\ pill.job = pollGeneration
    /\ download \in {0, pollGeneration}
    /\ download # 0 => pill.status = "SUCCEEDED"

\* A loop whose job is no longer on display sets no timer any more; one that
\* was set before the new job was accepted fires once and ends (app.js: nor
\* "schedule a rogue timer").
NoRogueTimer ==
    [][\A g \in Jobs :
         g < pollGeneration /\ poll[g] # "timer" => poll'[g] # "timer"]_vars

Settled == pill.status \in Terminal \cup {"none"}

\* The job on display reaches its final status there ("Poll GET
\* /api/reports/{id} until SUCCEEDED | FAILED", services/reports-ui/README.md):
\* no failing request, stale answer or resubmission ends its loop, but for the
\* deadline and a 4xx (app.js pollJob), and for a submission that fails after
\* its click had cleared the timer (submitReport), which nothing sets again.
ShownJobSettles == []<>(Settled \/ ended)

\* "The UI recovers on its next poll once reports is back"
\* (services/reports-ui/README.md): however the list requests overtake each
\* other, old as an answer may be when it is shown and although a failing
\* request empties the table, the page ends up showing all jobs as they are,
\* also one that is no longer polled, and no banner (app.js
\* setInterval(loadJobs)).
PageRecovers == <>[](table = status /\ banner = "none")
=============================================================================
