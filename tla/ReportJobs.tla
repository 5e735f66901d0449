----------------------------- MODULE ReportJobs -----------------------------
(***************************************************************************)
(* The report job engine (services/reports, jobs/ReportService.kt): job    *)
(* admission under admissionLock, the fixed pool that runs runJob, the     *)
(* report_jobs rows and artifact files each step writes, shutdown with its *)
(* drain, crashes, and the sweep of orphaned rows at the next start.       *)
(*                                                                         *)
(* Every SQL statement is its own transaction and may fail without having  *)
(* been applied, or with: the commit happened and the answer was lost.     *)
(***************************************************************************)
EXTENDS Naturals, Sequences, FiniteSets

CONSTANTS Jobs,      \* job ids (random UUIDs, never reused)
          NoJob,     \* no job
          Workers,   \* threads of the fixed pool (reports.job-concurrency)
          MaxFaults  \* bound: crashes, SQL and I/O errors, out-of-memory errors

ASSUME ReportAssumption == NoJob \notin Jobs /\ MaxFaults \in Nat

VARIABLES
    status,    \* report_jobs.status, "NONE" before the row exists
    hasPath,   \* is report_jobs.artifact_path set
    file,      \* the artifact on the volume
    proc,      \* the process
    holder,    \* the submit() between insert and launch, holding the lock
    queue,     \* the executor's queue
    job,       \* worker -> the job it runs, or NoJob
    step,      \* worker -> where in runJob it is
    written,   \* worker -> writtenPath is not null
    accepted,  \* history: jobs this process answered 202 for
    dropped,   \* history: jobs this process gave up without a final status
    torn,      \* history: jobs whose success was committed but not reported
    swept,     \* history: jobs the sweep failed while this process had them
    faults     \* number of faults so far

rowVars  == <<status, hasPath, file>>
poolVars == <<holder, queue, job, step, written>>
histVars == <<accepted, dropped, torn, swept>>
vars     == <<status, hasPath, file, proc, holder, queue, job, step, written,
              accepted, dropped, torn, swept, faults>>

NonTerminal == {"PENDING", "RUNNING"}
Terminal    == {"SUCCEEDED", "FAILED"}
Steps       == {"idle", "start", "build", "write", "succeed", "cleanup", "fail"}

\* "starting": requests are served, ApplicationReadyEvent has not fired.
\* "stopping": destroy() has closed admission.  "draining": the executor is
\* shut down.  "interrupted": the drain timed out.
Procs == {"down", "starting", "ready", "stopping", "draining", "interrupted"}

TypeOK ==
    /\ status \in [Jobs -> {"NONE"} \cup NonTerminal \cup Terminal]
    /\ hasPath \in [Jobs -> BOOLEAN]
    /\ file \in [Jobs -> {"none", "partial", "whole"}]
    /\ proc \in Procs
    /\ holder \in Jobs \cup {NoJob}
    /\ queue \in Seq(Jobs)
    /\ job \in [Workers -> Jobs \cup {NoJob}]
    /\ step \in [Workers -> Steps]
    /\ written \in [Workers -> BOOLEAN]
    /\ accepted \subseteq Jobs
    /\ dropped \subseteq Jobs
    /\ torn \subseteq Jobs
    /\ swept \subseteq Jobs
    /\ faults \in 0..MaxFaults

Init ==
    /\ status = [j \in Jobs |-> "NONE"]
    /\ hasPath = [j \in Jobs |-> FALSE]
    /\ file = [j \in Jobs |-> "none"]
    /\ proc = "down"
    /\ holder = NoJob
    /\ queue = <<>>
    /\ job = [w \in Workers |-> NoJob]
    /\ step = [w \in Workers |-> "idle"]
    /\ written = [w \in Workers |-> FALSE]
    /\ accepted = {}
    /\ dropped = {}
    /\ torn = {}
    /\ swept = {}
    /\ faults = 0

Fault == faults < MaxFaults /\ faults' = faults + 1

\* A blocking call fails by itself, or because the drain timeout
\* interrupted its thread.
Disturbed == Fault \/ (proc = "interrupted" /\ UNCHANGED faults)

Queued(j)  == \E k \in DOMAIN queue : queue[k] = j
Running(j) == \E w \in Workers : job[w] = j
Owned(j)   == Queued(j) \/ Running(j) \/ holder = j

-----------------------------------------------------------------------------
(* submit(): the critical section under admissionLock.                     *)

\* acceptingJobs is still true, the row is inserted.
InsertPending(j) ==
    /\ proc \in {"starting", "ready"}
    /\ holder = NoJob
    /\ status[j] = "NONE"
    /\ status' = [status EXCEPT ![j] = "PENDING"]
    /\ holder' = j
    /\ UNCHANGED <<hasPath, file, proc, queue, job, step, written, histVars,
                   faults>>

\* The insert committed but submit() got an exception: a 500, no launch.
InsertPendingFails(j) ==
    /\ proc \in {"starting", "ready"}
    /\ holder = NoJob
    /\ status[j] = "NONE"
    /\ Fault
    /\ status' = [status EXCEPT ![j] = "PENDING"]
    /\ dropped' = dropped \cup {j}
    /\ UNCHANGED <<hasPath, file, proc, poolVars, accepted, torn, swept>>

\* scope.launch, then the lock is released and the client gets its 202.  An
\* executor that is shut down rejects the launch behind submit()'s back.
Launch ==
    /\ holder # NoJob
    /\ queue' = IF proc \in {"draining", "interrupted"} THEN queue
                                                        ELSE Append(queue, holder)
    /\ accepted' = accepted \cup {holder}
    /\ holder' = NoJob
    /\ UNCHANGED <<rowVars, proc, job, step, written, dropped, torn, swept,
                   faults>>

-----------------------------------------------------------------------------
(* runJob, one step per blocking call.                                     *)

\* A pool thread takes the next job.
Take(w) ==
    /\ job[w] = NoJob
    /\ queue # <<>>
    /\ job' = [job EXCEPT ![w] = Head(queue)]
    /\ step' = [step EXCEPT ![w] = "start"]
    /\ written' = [written EXCEPT ![w] = FALSE]
    /\ queue' = Tail(queue)
    /\ UNCHANGED <<rowVars, proc, holder, histVars, faults>>

At(w, s)   == step[w] = s
Goto(w, s) == step' = [step EXCEPT ![w] = s] /\ UNCHANGED <<job, written>>

\* The coroutine ends and its thread is free.
Finish(w) ==
    /\ job' = [job EXCEPT ![w] = NoJob]
    /\ step' = [step EXCEPT ![w] = "idle"]
    /\ written' = [written EXCEPT ![w] = FALSE]

MarkRunning(w) ==
    /\ At(w, "start")
    /\ status' = [status EXCEPT ![job[w]] = "RUNNING"]
    /\ Goto(w, "build")
    /\ UNCHANGED <<hasPath, file, proc, holder, queue, histVars, faults>>

MarkRunningFails(w) ==
    /\ At(w, "start")
    /\ Disturbed
    /\ status' \in {status, [status EXCEPT ![job[w]] = "RUNNING"]}
    /\ Goto(w, "cleanup")
    /\ UNCHANGED <<hasPath, file, proc, holder, queue, histVars>>

\* Items from the backend, stats from analytics or its degraded section,
\* and the rendering.
Build(w) ==
    /\ At(w, "build")
    /\ Goto(w, "write")
    /\ UNCHANGED <<rowVars, proc, holder, queue, histVars, faults>>

\* Only the backend, the renderer or an interrupt can fail it.
BuildFails(w) ==
    /\ At(w, "build")
    /\ Goto(w, "cleanup")
    /\ UNCHANGED <<rowVars, proc, holder, queue, histVars, faults>>

\* An Error (OutOfMemoryError while rendering) is not an Exception: neither
\* catch block runs, only finally.
BuildDies(w) ==
    /\ At(w, "build")
    /\ Fault
    /\ dropped' = dropped \cup {job[w]}
    /\ Finish(w)
    /\ UNCHANGED <<rowVars, proc, holder, queue, accepted, torn, swept>>

Write(w) ==
    /\ At(w, "write")
    /\ file' = [file EXCEPT ![job[w]] = "whole"]
    /\ written' = [written EXCEPT ![w] = TRUE]
    /\ step' = [step EXCEPT ![w] = "succeed"]
    /\ UNCHANGED <<status, hasPath, proc, holder, queue, job, histVars, faults>>

\* Variant: the I/O error is swallowed.
WriteFails_Swallowed(w) ==
    /\ At(w, "write")
    /\ Disturbed
    /\ file' \in {file, [file EXCEPT ![job[w]] = "partial"]}
    /\ Goto(w, "succeed")
    /\ UNCHANGED <<status, hasPath, proc, holder, queue, histVars>>

\* Files.write fails half way: writtenPath stays null.
WriteFails(w) ==
    /\ At(w, "write")
    /\ Disturbed
    /\ file' \in {file, [file EXCEPT ![job[w]] = "partial"]}
    /\ Goto(w, "cleanup")
    /\ UNCHANGED <<status, hasPath, proc, holder, queue, histVars>>

Succeeded(j) ==
    /\ status' = [status EXCEPT ![j] = "SUCCEEDED"]
    /\ hasPath' = [hasPath EXCEPT ![j] = TRUE]

MarkSucceeded(w) ==
    /\ At(w, "succeed")
    /\ Succeeded(job[w])
    /\ Finish(w)
    /\ UNCHANGED <<file, proc, holder, queue, histVars, faults>>

MarkSucceededFails(w) ==
    /\ At(w, "succeed")
    /\ Disturbed
    /\ \/ UNCHANGED <<status, hasPath, torn>>
       \/ Succeeded(job[w]) /\ torn' = torn \cup {job[w]}
    /\ Goto(w, "cleanup")
    /\ UNCHANGED <<file, proc, holder, queue, accepted, dropped, swept>>

\* deleteOrphanedArtifact: best effort, never throws.
Cleanup(w) ==
    /\ At(w, "cleanup")
    /\ file' = IF written[w] THEN [file EXCEPT ![job[w]] = "none"] ELSE file
    /\ Goto(w, "fail")
    /\ UNCHANGED <<status, hasPath, proc, holder, queue, histVars, faults>>

CleanupFails(w) ==
    /\ At(w, "cleanup")
    /\ written[w]
    /\ Fault
    /\ Goto(w, "fail")
    /\ UNCHANGED <<rowVars, proc, holder, queue, histVars>>

\* The row keeps the artifact_path it has.
MarkFailed(w) ==
    /\ At(w, "fail")
    /\ status' = [status EXCEPT ![job[w]] = "FAILED"]
    /\ Finish(w)
    /\ UNCHANGED <<hasPath, file, proc, holder, queue, histVars, faults>>

\* markFailed throws out of the catch block.
MarkFailedFails(w) ==
    /\ At(w, "fail")
    /\ Disturbed
    /\ status' \in {status, [status EXCEPT ![job[w]] = "FAILED"]}
    /\ dropped' = dropped \cup {job[w]}
    /\ Finish(w)
    /\ UNCHANGED <<hasPath, file, proc, holder, queue, accepted, torn, swept>>

-----------------------------------------------------------------------------
(* The life of the process.                                                *)

Boot ==
    /\ proc = "down"
    /\ proc' = "starting"
    /\ UNCHANGED <<rowVars, poolVars, histVars, faults>>

\* Variant: only RUNNING rows are swept.
ReconcileOrphanedJobs_RunningOnly ==
    /\ proc = "starting"
    /\ proc' = "ready"
    /\ status' = [j \in Jobs |-> IF status[j] = "RUNNING" THEN "FAILED"
                                                          ELSE status[j]]
    /\ swept' = swept \cup {j \in Jobs : status[j] = "RUNNING" /\ Owned(j)}
    /\ UNCHANGED <<hasPath, file, poolVars, accepted, dropped, torn, faults>>

\* Variant: every row is swept.
ReconcileOrphanedJobs_AllRows ==
    /\ proc = "starting"
    /\ proc' = "ready"
    /\ status' = [j \in Jobs |-> IF status[j] # "NONE" THEN "FAILED"
                                                        ELSE "NONE"]
    /\ swept' = swept \cup {j \in Jobs : status[j] \in NonTerminal /\ Owned(j)}
    /\ UNCHANGED <<hasPath, file, poolVars, accepted, dropped, torn, faults>>

\* ApplicationReadyEvent: one UPDATE over all rows.
ReconcileOrphanedJobs ==
    /\ proc = "starting"
    /\ proc' = "ready"
    /\ status' = [j \in Jobs |-> IF status[j] \in NonTerminal THEN "FAILED"
                                                              ELSE status[j]]
    /\ swept' = swept \cup {j \in Jobs : status[j] \in NonTerminal /\ Owned(j)}
    /\ UNCHANGED <<hasPath, file, poolVars, accepted, dropped, torn, faults>>

\* Variant: the flag is flipped without taking admissionLock.
StopAdmission_NoLock ==
    /\ proc \in {"starting", "ready"}
    /\ proc' = "stopping"
    /\ UNCHANGED <<rowVars, poolVars, histVars, faults>>

\* destroy(): acceptingJobs = false, under admissionLock.
StopAdmission ==
    /\ proc \in {"starting", "ready"}
    /\ holder = NoJob
    /\ proc' = "stopping"
    /\ UNCHANGED <<rowVars, poolVars, histVars, faults>>

\* executor.shutdown(): queued jobs still run.
ShutdownExecutor ==
    /\ proc = "stopping"
    /\ proc' = "draining"
    /\ UNCHANGED <<rowVars, poolVars, histVars, faults>>

Busy == queue # <<>> \/ \E w \in Workers : job[w] # NoJob

\* awaitTermination gives up: cancel, shutdownNow drops the queue and
\* interrupts the threads.
DrainTimeout ==
    /\ proc = "draining"
    /\ Busy
    /\ proc' = "interrupted"
    /\ queue' = <<>>
    /\ UNCHANGED <<rowVars, holder, job, step, written, histVars, faults>>

\* All in-memory state goes with the process; the threads are daemons.
Gone ==
    /\ proc' = "down"
    /\ holder' = NoJob
    /\ queue' = <<>>
    /\ job' = [w \in Workers |-> NoJob]
    /\ step' = [w \in Workers |-> "idle"]
    /\ written' = [w \in Workers |-> FALSE]
    /\ accepted' = {}
    /\ dropped' = {}
    /\ swept' = {}
    /\ UNCHANGED <<rowVars, torn>>

Exit ==
    /\ proc = "interrupted" \/ (proc = "draining" /\ ~Busy)
    /\ Gone
    /\ UNCHANGED faults

Crash ==
    /\ proc # "down"
    /\ Fault
    /\ Gone

-----------------------------------------------------------------------------
RunJob(w) ==
    \/ Take(w) \/ MarkRunning(w) \/ Build(w) \/ Write(w) \/ MarkSucceeded(w)
    \/ Cleanup(w) \/ MarkFailed(w)

RunJobFails(w) ==
    \/ MarkRunningFails(w) \/ BuildFails(w) \/ BuildDies(w) \/ WriteFails(w)
    \/ MarkSucceededFails(w) \/ CleanupFails(w) \/ MarkFailedFails(w)

Next ==
    \/ \E j \in Jobs : InsertPending(j) \/ InsertPendingFails(j)
    \/ Launch
    \/ \E w \in Workers : RunJob(w) \/ RunJobFails(w)
    \/ Boot \/ ReconcileOrphanedJobs
    \/ StopAdmission \/ ShutdownExecutor \/ DrainTimeout \/ Exit \/ Crash

Spec == Init /\ [][Next]_vars

\* The pool runs what it has, a stopped container is restarted, shutdown
\* proceeds, and not every start is stopped before it is complete (hence the
\* strong fairness).  Requests, failures, stop signals get no fairness.
FairSpec ==
    /\ Spec
    /\ WF_vars(Launch)
    /\ \A w \in Workers : WF_vars(RunJob(w))
    /\ WF_vars(Boot)
    /\ SF_vars(ReconcileOrphanedJobs)
    /\ WF_vars(ShutdownExecutor)
    /\ WF_vars(DrainTimeout)
    /\ WF_vars(Exit)

-----------------------------------------------------------------------------
(* Properties.                                                             *)

\* Until the drain times out, a job this process answered 202 for and whose
\* row is not final is queued or running, or was given up by runJob itself
\* (an Error, or a failing markFailed).  In particular no admission races
\* with shutdown into "an accepted PENDING row that never launches"
\* (ReportService.kt, admissionLock).
AcceptedJobsAreOwned ==
    proc # "interrupted" =>
      \A j \in accepted :
         status[j] \in NonTerminal => Queued(j) \/ Running(j) \/ j \in dropped

\* A SUCCEEDED row names an artifact that is completely on the volume; the
\* one exception is a success whose commit was reported as an error, after
\* which the failure branch deletes the file (ReportService.kt runJob).
SucceededHasArtifact ==
    \A j \in Jobs :
       status[j] = "SUCCEEDED" => hasPath[j] /\ (file[j] = "whole" \/ j \in torn)

\* A final status never changes, except for such a torn success and for a
\* job that the startup sweep failed while this very process was running it
\* (ReportJobRepository.kt: the updates do not look at the old status).
FinalStatusStays ==
    [][\A j \in Jobs :
         status[j] \in Terminal /\ status'[j] # status[j] => j \in torn \cup swept]_vars

\* No job is left PENDING or RUNNING for good by crashes, shutdowns or
\* failing steps, unless a process that stays up gave it up: "the guarantee
\* that no job is left dangling in a non-terminal state comes from startup
\* reconciliation" (services/reports/README.md).
NoJobDangles ==
    \A j \in Jobs : status[j] \in NonTerminal
                      ~> (status[j] \in Terminal \/ j \in dropped)

\* What the comment on reconcileOrphanedJobs says: "any such row at boot is
\* by definition orphaned".
SweepFailsOnlyOrphans ==
    [][ReconcileOrphanedJobs =>
         \A j \in Jobs : status[j] \in NonTerminal => ~Owned(j)]_vars
=============================================================================
