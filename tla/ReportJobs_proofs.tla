-------------------------- MODULE ReportJobs_proofs --------------------------
(***************************************************************************)
(* Proofs about ReportJobs, for every set of jobs, every pool size and any *)
(* number of faults.                                                       *)
(***************************************************************************)
EXTENDS ReportJobs, TLAPS

-----------------------------------------------------------------------------
(* Type correctness.                                                       *)

\* A thread has a job exactly when it is inside runJob.
IdleThreads == \A w \in Workers : step[w] = "idle" <=> job[w] = NoJob

\* Every step of the engine keeps the types; the threads' bookkeeping is
\* needed along, because a step of runJob writes the row of its job.
THEOREM TypesAndThreads == Spec => [](TypeOK /\ IdleThreads)
<1> USE ReportAssumption
<1>1. Init => TypeOK /\ IdleThreads
  BY DEF Init, TypeOK, IdleThreads, Procs, Steps
<1>2. TypeOK /\ IdleThreads /\ [Next]_vars => (TypeOK /\ IdleThreads)'
  <2> SUFFICES ASSUME TypeOK, IdleThreads, [Next]_vars
               PROVE  TypeOK' /\ IdleThreads'
    OBVIOUS
  <2> USE DEF TypeOK, IdleThreads, Procs, Steps, NonTerminal, Terminal, rowVars,
              poolVars, histVars
  <2>1. ASSUME NEW j \in Jobs, InsertPending(j)
        PROVE  TypeOK' /\ IdleThreads'
    BY <2>1 DEF InsertPending
  <2>2. ASSUME NEW j \in Jobs, InsertPendingFails(j)
        PROVE  TypeOK' /\ IdleThreads'
    BY <2>2 DEF InsertPendingFails, Fault
  <2>3. CASE Launch
    <3>1. holder \in Jobs /\ Append(queue, holder) \in Seq(Jobs)
      BY <2>3 DEF Launch
    <3> QED
      BY <2>3, <3>1 DEF Launch
  <2>4. ASSUME NEW w \in Workers, Take(w)
        PROVE  TypeOK' /\ IdleThreads'
    <3>1. Head(queue) \in Jobs /\ Tail(queue) \in Seq(Jobs)
      BY <2>4 DEF Take
    <3> QED
      BY <2>4, <3>1 DEF Take
  <2>5. ASSUME NEW w \in Workers, RunJob(w) \/ RunJobFails(w), ~Take(w)
        PROVE  TypeOK' /\ IdleThreads'
    <3>1. job[w] \in Jobs /\ step[w] # "idle"
      BY <2>5 DEF RunJob, RunJobFails, MarkRunning, MarkRunningFails, Build,
                  BuildFails, BuildDies, Write, WriteFails, MarkSucceeded,
                  MarkSucceededFails, Cleanup, CleanupFails, MarkFailed,
                  MarkFailedFails, At
    <3> USE <3>1 DEF At, Goto, Finish, Disturbed, Fault, Succeeded
    <3>2. CASE MarkRunning(w)        BY <3>2 DEF MarkRunning
    <3>3. CASE MarkRunningFails(w)   BY <3>3 DEF MarkRunningFails
    <3>4. CASE Build(w)              BY <3>4 DEF Build
    <3>5. CASE BuildFails(w)         BY <3>5 DEF BuildFails
    <3>6. CASE BuildDies(w)          BY <3>6 DEF BuildDies
    <3>7. CASE Write(w)              BY <3>7 DEF Write
    <3>8. CASE WriteFails(w)         BY <3>8 DEF WriteFails
    <3>9. CASE MarkSucceeded(w)      BY <3>9 DEF MarkSucceeded
    <3>10. CASE MarkSucceededFails(w)
      <4>1. CASE UNCHANGED <<status, hasPath, torn>>
        BY <3>10, <4>1 DEF MarkSucceededFails
      <4>2. CASE Succeeded(job[w]) /\ torn' = torn \cup {job[w]}
        BY <3>10, <4>2 DEF MarkSucceededFails
      <4> QED
        BY <3>10, <4>1, <4>2 DEF MarkSucceededFails
    <3>11. CASE Cleanup(w)           BY <3>11 DEF Cleanup
    <3>12. CASE CleanupFails(w)      BY <3>12 DEF CleanupFails
    <3>13. CASE MarkFailed(w)        BY <3>13 DEF MarkFailed
    <3>14. CASE MarkFailedFails(w)   BY <3>14 DEF MarkFailedFails
    <3> QED
      BY <2>5, <3>2, <3>3, <3>4, <3>5, <3>6, <3>7, <3>8, <3>9, <3>10, <3>11,
         <3>12, <3>13, <3>14 DEF RunJob, RunJobFails
  <2>6. CASE Boot
    BY <2>6 DEF Boot
  <2>7. CASE ReconcileOrphanedJobs
    BY <2>7 DEF ReconcileOrphanedJobs
  <2>8. CASE StopAdmission
    BY <2>8 DEF StopAdmission
  <2>9. CASE ShutdownExecutor
    BY <2>9 DEF ShutdownExecutor
  <2>10. CASE DrainTimeout
    BY <2>10 DEF DrainTimeout
  <2>11. CASE Exit
    BY <2>11 DEF Exit, Gone
  <2>12. CASE Crash
    BY <2>12 DEF Crash, Gone, Fault
  <2>13. CASE UNCHANGED vars
    BY <2>13 DEF vars
  <2> QED
    BY <2>1, <2>2, <2>3, <2>4, <2>5, <2>6, <2>7, <2>8, <2>9, <2>10, <2>11,
       <2>12, <2>13 DEF Next
<1> QED
  BY <1>1, <1>2, PTL DEF Spec

\* The types alone.
THEOREM TypeCorrect == Spec => []TypeOK
  BY TypesAndThreads, PTL

-----------------------------------------------------------------------------
(* Where a job is.                                                         *)

\* A job is in one place: once in the queue, or with one thread, or with the
\* submit() that holds the lock.
OnePlace ==
    /\ \A k, l \in 1..Len(queue) : queue[k] = queue[l] => k = l
    /\ \A v, w \in Workers : job[v] # NoJob /\ job[v] = job[w] => v = w
    /\ \A w \in Workers : \A k \in 1..Len(queue) : job[w] # queue[k]
    /\ holder # NoJob => ~Queued(holder) /\ ~Running(holder)

\* A step that moves no job keeps every place.
LEMMA PlacesKept ==
  ASSUME OnePlace, UNCHANGED <<queue, job, holder>>
  PROVE  /\ OnePlace'
         /\ \A j \in Jobs : /\ Queued(j)' <=> Queued(j)
                            /\ Running(j)' <=> Running(j)
                            /\ Owned(j)' <=> Owned(j)
  BY DEF OnePlace, Queued, Running, Owned

\* A thread that finishes gives up its job, and no other job moves.
LEMMA PlacesFinish ==
  ASSUME TypeOK, OnePlace, NEW w \in Workers, job[w] \in Jobs, Finish(w),
         UNCHANGED <<queue, holder>>
  PROVE  /\ OnePlace'
         /\ \A j \in Jobs : j = job[w] => ~Owned(j)'
         /\ \A j \in Jobs : /\ Queued(j)' <=> Queued(j)
                            /\ Running(j)' <=> Running(j) /\ j # job[w]
                            /\ Owned(j)' => Owned(j)
<1> USE ReportAssumption
<1>1. job' = [job EXCEPT ![w] = NoJob] /\ job \in [Workers -> Jobs \cup {NoJob}]
  BY DEF Finish, TypeOK
<1>2. ASSUME NEW j \in Jobs
      PROVE  /\ Queued(j)' <=> Queued(j)
             /\ Running(j)' <=> Running(j) /\ j # job[w]
  BY <1>1 DEF Queued, Running, OnePlace
<1>3. \A j \in Jobs : j = job[w] => ~Owned(j)'
  <2>1. ~Queued(job[w])
    BY DEF OnePlace, Queued, TypeOK
  <2>2. holder # job[w]
    BY DEF OnePlace, Running
  <2> QED
    BY <1>2, <2>1, <2>2 DEF Owned
<1>4. \A j \in Jobs : Owned(j)' => Owned(j)
  BY <1>2 DEF Owned
<1>5. OnePlace'
  <2>1. \A v \in Workers : job'[v] \in {job[v], NoJob}
    BY <1>1
  <2>2. holder # NoJob => ~Queued(holder)' /\ ~Running(holder)'
    BY <1>2 DEF OnePlace, TypeOK
  <2>3. \A k \in 1..Len(queue) : queue[k] # NoJob
    BY DEF TypeOK
  <2> QED
    BY <2>1, <2>2, <2>3 DEF OnePlace
<1> QED
  BY <1>2, <1>3, <1>4, <1>5

\* Taking the head of the queue moves that job from the queue to the thread.
LEMMA PlacesTake ==
  ASSUME TypeOK, OnePlace, NEW w \in Workers, Take(w)
  PROVE  /\ OnePlace'
         /\ \A j \in Jobs : /\ Owned(j)' <=> Owned(j)
                            /\ Queued(j) \/ Running(j) => Queued(j)' \/ Running(j)'
<1> USE ReportAssumption
<1> DEFINE h == Head(queue)
<1> DEFINE q == Tail(queue)
<1>1. /\ queue \in Seq(Jobs) /\ queue # <<>> /\ Len(queue) \in Nat \ {0}
      /\ h = queue[1] /\ h \in Jobs /\ h # NoJob
      /\ q \in Seq(Jobs) /\ Len(q) = Len(queue) - 1
      /\ \A k \in 1..Len(q) : q[k] = queue[k + 1]
  BY DEF Take, TypeOK
<1>2. /\ queue' = q /\ job' = [job EXCEPT ![w] = h] /\ job[w] = NoJob
      /\ job \in [Workers -> Jobs \cup {NoJob}]
      /\ holder' = holder
  BY DEF Take, TypeOK
<1> HIDE DEF h, q
<1>3. \A k \in 1..Len(q) : k + 1 \in 1..Len(queue) /\ k + 1 # 1
  BY <1>1
<1>4. 1 \in 1..Len(queue)
  BY <1>1
<1>5. ASSUME NEW j \in Jobs
      PROVE  /\ Queued(j) <=> Queued(j)' \/ j = h
             /\ Running(j)' <=> Running(j) \/ j = h
  <2>1. Running(j)' <=> Running(j) \/ j = h
    BY <1>2 DEF Running
  <2>2. Queued(j) <=> \E k \in 1..Len(queue) : queue[k] = j
    BY <1>1 DEF Queued
  <2>3. Queued(j)' <=> \E k \in 1..Len(q) : q[k] = j
    BY <1>1, <1>2 DEF Queued
  <2>4. ASSUME NEW k \in 1..Len(queue), queue[k] = j, j # h
        PROVE  \E l \in 1..Len(q) : q[l] = j
    <3>1. k - 1 \in 1..Len(q) /\ (k - 1) + 1 = k
      BY <1>1, <2>4
    <3> QED
      BY <1>1, <2>4, <3>1
  <2>5. ASSUME NEW k \in 1..Len(q), q[k] = j
        PROVE  \E l \in 1..Len(queue) : queue[l] = j
    BY <1>1, <1>3, <2>5
  <2> QED
    BY <1>1, <1>4, <2>1, <2>2, <2>3, <2>4, <2>5
<1>6. OnePlace'
  <2>1. \A k, l \in 1..Len(q) : q[k] = q[l] => k = l
    <3> SUFFICES ASSUME NEW k \in 1..Len(q), NEW l \in 1..Len(q), q[k] = q[l]
                 PROVE  k = l
      OBVIOUS
    <3>1. k + 1 = l + 1
      BY <1>1, <1>3 DEF OnePlace
    <3> QED
      BY <1>1, <3>1
  <2>2. \A k \in 1..Len(q) : q[k] # h
    BY <1>1, <1>3, <1>4 DEF OnePlace
  <2>3. \A u \in Workers : job[u] # h
    BY <1>1, <1>4 DEF OnePlace
  <2>4. \A u, v \in Workers : job'[u] # NoJob /\ job'[u] = job'[v] => u = v
    BY <1>2, <2>3 DEF OnePlace
  <2>5. \A u \in Workers : \A k \in 1..Len(q) : job'[u] # q[k]
    BY <1>1, <1>2, <1>3, <2>2 DEF OnePlace
  <2>6. ASSUME holder # NoJob
        PROVE  ~Queued(holder)' /\ ~Running(holder)'
    <3>1. holder \in Jobs /\ ~Queued(holder) /\ ~Running(holder)
      BY <2>6 DEF OnePlace, TypeOK
    <3>2. holder # h
      BY <1>5, <3>1
    <3> QED
      BY <1>2, <1>5, <3>1, <3>2
  <2> QED
    BY <1>2, <2>1, <2>4, <2>5, <2>6 DEF OnePlace
<1>7. \A j \in Jobs : Owned(j)' <=> Owned(j)
  BY <1>1, <1>2, <1>5 DEF Owned
<1> QED
  BY <1>5, <1>6, <1>7

\* While the executor accepts, a launch moves the lock holder's job to the
\* end of the queue.
LEMMA PlacesLaunch ==
  ASSUME TypeOK, OnePlace, holder # NoJob, queue' = Append(queue, holder),
         holder' = NoJob, job' = job
  PROVE  /\ OnePlace'
         /\ \A j \in Jobs : /\ Queued(j)' <=> Queued(j) \/ j = holder
                            /\ Running(j)' <=> Running(j)
                            /\ Owned(j)' <=> Owned(j)
<1> USE ReportAssumption
<1>1. /\ holder \in Jobs /\ queue \in Seq(Jobs) /\ Len(queue) \in Nat
      /\ Len(queue') = Len(queue) + 1
      /\ queue'[Len(queue) + 1] = holder
      /\ \A k \in 1..Len(queue) : queue'[k] = queue[k]
  BY DEF TypeOK
<1>2. \A k \in 1..Len(queue') : k \in 1..Len(queue) \/ k = Len(queue) + 1
  BY <1>1
<1>3. /\ Len(queue) + 1 \in 1..Len(queue')
      /\ \A k \in 1..Len(queue) : k \in 1..Len(queue')
  BY <1>1
<1>4. /\ \A j \in Jobs : Queued(j) <=> \E k \in 1..Len(queue) : queue[k] = j
      /\ \A j \in Jobs : Queued(j)' <=> \E k \in 1..Len(queue') : queue'[k] = j
  BY <1>1 DEF Queued
<1>5. ASSUME NEW j \in Jobs
      PROVE  /\ Queued(j)' <=> Queued(j) \/ j = holder
             /\ Running(j)' <=> Running(j)
             /\ Owned(j)' <=> Owned(j)
  <2>1. Queued(j)' <=> Queued(j) \/ j = holder
    BY <1>1, <1>2, <1>3, <1>4
  <2>2. Running(j)' <=> Running(j)
    BY DEF Running
  <2> QED
    BY <1>1, <2>1, <2>2 DEF Owned
<1>6. OnePlace'
  <2>1. \A k \in 1..Len(queue) : queue[k] # holder
    BY <1>1, <1>4 DEF OnePlace
  <2>2. \A w \in Workers : job[w] # holder
    BY DEF OnePlace, Running
  <2>3. \A k, l \in 1..Len(queue') : queue'[k] = queue'[l] => k = l
    BY <1>1, <1>2, <2>1 DEF OnePlace
  <2>4. \A w \in Workers : \A k \in 1..Len(queue') : job'[w] # queue'[k]
    BY <1>1, <1>2, <2>2 DEF OnePlace
  <2> QED
    BY <2>3, <2>4 DEF OnePlace
<1> QED
  BY <1>5, <1>6

-----------------------------------------------------------------------------
(* The life of a job.                                                      *)

\* A job someone holds or was promised has a row.
KnownJobs ==
    \A j \in Jobs : Owned(j) \/ j \in accepted => status[j] # "NONE"

\* submit() holds the lock only while admission is open: destroy() waits.
LockOpen == holder # NoJob => proc \in {"starting", "ready"}

\* A job that is final and still owned was torn, or swept while it ran; one
\* that succeeded was torn.
OwnedFinal ==
    \A j \in Jobs :
       /\ Owned(j) /\ status[j] \in Terminal => j \in torn \cup swept
       /\ Owned(j) /\ status[j] = "SUCCEEDED" => j \in torn

\* A thread about to mark success has its artifact on the volume.
AtSucceed == \A w \in Workers : step[w] = "succeed" => file[job[w]] = "whole"

\* The inductive invariant.
JobInv ==
    /\ OnePlace
    /\ KnownJobs
    /\ LockOpen
    /\ OwnedFinal
    /\ AtSucceed
    /\ SucceededHasArtifact
    /\ AcceptedJobsAreOwned

\* A step of runJob that stays in it: other jobs' rows and files are left
\* alone, this one stays with its thread.
LEMMA StayKeeps ==
  ASSUME TypeOK, IdleThreads, JobInv, NEW w \in Workers, job[w] \in Jobs,
         UNCHANGED <<queue, holder, job, proc, accepted, dropped, swept>>,
         torn \subseteq torn',
         \A j \in Jobs : j # job[w] => /\ status'[j] = status[j]
                                       /\ hasPath'[j] = hasPath[j]
                                       /\ file'[j] = file[j],
         \A v \in Workers : v # w => step'[v] = step[v],
         status'[job[w]] # "NONE",
         status'[job[w]] \in Terminal => \/ status'[job[w]] = status[job[w]]
                                         \/ job[w] \in torn',
         status'[job[w]] = "SUCCEEDED" => hasPath'[job[w]],
         step'[w] = "succeed" => file'[job[w]] = "whole"
  PROVE  JobInv'
<1> USE ReportAssumption DEF JobInv
<1>1. /\ OnePlace'
      /\ \A j \in Jobs : /\ Queued(j)' <=> Queued(j)
                         /\ Running(j)' <=> Running(j)
                         /\ Owned(j)' <=> Owned(j)
  BY PlacesKept
<1>2. Running(job[w]) /\ Owned(job[w])
  BY DEF Running, Owned
<1>3. KnownJobs' /\ LockOpen'
  BY <1>1, <1>2 DEF KnownJobs, LockOpen
<1>4. OwnedFinal'
  BY <1>1, <1>2 DEF OwnedFinal, Terminal
<1>5. AtSucceed'
  <2> SUFFICES ASSUME NEW v \in Workers, step'[v] = "succeed"
               PROVE  file'[job'[v]] = "whole"
    BY DEF AtSucceed
  <2>1. CASE v = w
    BY <2>1
  <2>2. CASE v # w
    <3>1. step[v] = "succeed" /\ job[v] \in Jobs
      BY <2>2 DEF TypeOK, IdleThreads
    <3>2. job[v] # job[w]
      BY <2>2, <3>1 DEF OnePlace
    <3> QED
      BY <3>1, <3>2 DEF AtSucceed
  <2> QED
    BY <2>1, <2>2
<1>6. SucceededHasArtifact'
  <2> SUFFICES ASSUME NEW j \in Jobs, status'[j] = "SUCCEEDED"
               PROVE  hasPath'[j] /\ (file'[j] = "whole" \/ j \in torn')
    BY DEF SucceededHasArtifact
  <2>1. CASE j = job[w]
    BY <1>2, <2>1 DEF OwnedFinal, Terminal
  <2>2. CASE j # job[w]
    BY <2>2 DEF SucceededHasArtifact
  <2> QED
    BY <2>1, <2>2
<1>7. AcceptedJobsAreOwned'
  <2> SUFFICES ASSUME proc' # "interrupted", NEW j \in accepted',
                      status'[j] \in NonTerminal
               PROVE  Queued(j)' \/ Running(j)' \/ j \in dropped'
    BY DEF AcceptedJobsAreOwned
  <2>1. j \in Jobs
    BY DEF TypeOK
  <2>2. CASE j = job[w]
    BY <1>1, <1>2, <2>1, <2>2
  <2>3. CASE j # job[w]
    BY <1>1, <2>1, <2>3 DEF AcceptedJobsAreOwned
  <2> QED
    BY <2>2, <2>3
<1> QED
  BY <1>1, <1>3, <1>4, <1>5, <1>6, <1>7

\* A step that ends runJob: the row is final, or the job is given up.
LEMMA FinishKeeps ==
  ASSUME TypeOK, IdleThreads, JobInv, NEW w \in Workers, job[w] \in Jobs,
         Finish(w), UNCHANGED <<queue, holder, proc, accepted, torn, swept, file>>,
         dropped \subseteq dropped',
         \A j \in Jobs : j # job[w] => /\ status'[j] = status[j]
                                       /\ hasPath'[j] = hasPath[j],
         status'[job[w]] # "NONE",
         status'[job[w]] \in NonTerminal => job[w] \in dropped',
         status'[job[w]] = "SUCCEEDED" =>
            /\ hasPath'[job[w]]
            /\ file[job[w]] = "whole" \/ job[w] \in torn
  PROVE  JobInv'
<1> USE ReportAssumption DEF JobInv
<1>1. /\ OnePlace'
      /\ \A j \in Jobs : j = job[w] => ~Owned(j)'
      /\ \A j \in Jobs : /\ Queued(j)' <=> Queued(j)
                         /\ Running(j)' <=> Running(j) /\ j # job[w]
                         /\ Owned(j)' => Owned(j)
  BY PlacesFinish
<1>2. KnownJobs' /\ LockOpen'
  BY <1>1 DEF KnownJobs, LockOpen
<1>3. OwnedFinal'
  BY <1>1 DEF OwnedFinal
<1>4. AtSucceed'
  <2> SUFFICES ASSUME NEW v \in Workers, step'[v] = "succeed"
               PROVE  file'[job'[v]] = "whole"
    BY DEF AtSucceed
  <2>1. v # w /\ step[v] = "succeed" /\ job'[v] = job[v]
    BY DEF Finish, TypeOK
  <2> QED
    BY <2>1 DEF AtSucceed
<1>5. SucceededHasArtifact'
  BY DEF SucceededHasArtifact
<1>6. AcceptedJobsAreOwned'
  <2> SUFFICES ASSUME proc' # "interrupted", NEW j \in accepted',
                      status'[j] \in NonTerminal
               PROVE  Queued(j)' \/ Running(j)' \/ j \in dropped'
    BY DEF AcceptedJobsAreOwned
  <2>1. j \in Jobs
    BY DEF TypeOK
  <2>2. CASE j = job[w]
    BY <2>2
  <2>3. CASE j # job[w]
    BY <1>1, <2>1, <2>3 DEF AcceptedJobsAreOwned
  <2> QED
    BY <2>2, <2>3
<1> QED
  BY <1>1, <1>2, <1>3, <1>4, <1>5, <1>6

\* Every step of runJob keeps the invariant.
LEMMA RunJobKeeps ==
  ASSUME TypeOK, IdleThreads, JobInv, NEW w \in Workers,
         RunJob(w) \/ RunJobFails(w), ~Take(w)
  PROVE  JobInv'
<1> USE ReportAssumption
<1>1. job[w] \in Jobs /\ step[w] # "idle"
  BY DEF RunJob, RunJobFails, MarkRunning, MarkRunningFails, Build, BuildFails,
         BuildDies, Write, WriteFails, MarkSucceeded, MarkSucceededFails,
         Cleanup, CleanupFails, MarkFailed, MarkFailedFails, At, TypeOK,
         IdleThreads
<1>2. status[job[w]] # "NONE" /\ Owned(job[w])
  BY <1>1 DEF JobInv, KnownJobs, Owned, Running
<1>3. /\ status[job[w]] = "SUCCEEDED" => hasPath[job[w]]
      /\ status[job[w]] = "SUCCEEDED" =>
           file[job[w]] = "whole" \/ job[w] \in torn
      /\ step[w] = "succeed" => file[job[w]] = "whole"
  BY <1>1 DEF JobInv, SucceededHasArtifact, AtSucceed
<1>4. /\ status \in [Jobs -> {"NONE"} \cup NonTerminal \cup Terminal]
      /\ hasPath \in [Jobs -> BOOLEAN]
      /\ file \in [Jobs -> {"none", "partial", "whole"}]
      /\ step \in [Workers -> Steps]
  BY DEF TypeOK
<1> USE <1>1, <1>2, <1>3, <1>4 DEF At, Goto, rowVars, histVars, Terminal, NonTerminal
<1>5. CASE MarkRunning(w)       BY <1>5, StayKeeps DEF MarkRunning
<1>6. CASE MarkRunningFails(w)  BY <1>6, StayKeeps DEF MarkRunningFails
<1>7. CASE Build(w)             BY <1>7, StayKeeps DEF Build
<1>8. CASE BuildFails(w)        BY <1>8, StayKeeps DEF BuildFails
<1>9. CASE BuildDies(w)         BY <1>9, FinishKeeps DEF BuildDies
<1>10. CASE Write(w)            BY <1>10, StayKeeps DEF Write
<1>11. CASE WriteFails(w)       BY <1>11, StayKeeps DEF WriteFails
<1>12. CASE MarkSucceeded(w)    BY <1>12, FinishKeeps DEF MarkSucceeded, Succeeded
<1>13. CASE MarkSucceededFails(w)
  <2>1. CASE UNCHANGED <<status, hasPath, torn>>
    BY <1>13, <2>1, StayKeeps DEF MarkSucceededFails
  <2>2. CASE Succeeded(job[w]) /\ torn' = torn \cup {job[w]}
    BY <1>13, <2>2, StayKeeps DEF MarkSucceededFails, Succeeded
  <2> QED
    BY <1>13, <2>1, <2>2 DEF MarkSucceededFails
<1>14. CASE Cleanup(w)          BY <1>14, StayKeeps DEF Cleanup
<1>15. CASE CleanupFails(w)     BY <1>15, StayKeeps DEF CleanupFails
<1>16. CASE MarkFailed(w)       BY <1>16, FinishKeeps DEF MarkFailed
<1>17. CASE MarkFailedFails(w)  BY <1>17, FinishKeeps DEF MarkFailedFails
<1> QED
  BY <1>5, <1>6, <1>7, <1>8, <1>9, <1>10, <1>11, <1>12, <1>13, <1>14, <1>15,
     <1>16, <1>17 DEF RunJob, RunJobFails

\* Admission and the process's own steps keep it too.
THEOREM JobInvariant == Spec => []JobInv
<1> USE ReportAssumption
<1>1. Init => JobInv
  <2> SUFFICES ASSUME Init
               PROVE  JobInv
    OBVIOUS
  <2>1. \A j \in Jobs : ~Owned(j)
    BY DEF Init, Owned, Queued, Running
  <2> QED
    BY <2>1 DEF Init, JobInv, OnePlace, KnownJobs, LockOpen, OwnedFinal,
                AtSucceed, SucceededHasArtifact, AcceptedJobsAreOwned
<1>2. TypeOK /\ IdleThreads /\ JobInv /\ [Next]_vars => JobInv'
  <2> SUFFICES ASSUME TypeOK, IdleThreads, JobInv, [Next]_vars
               PROVE  JobInv'
    OBVIOUS
  <2> USE DEF JobInv, rowVars, poolVars, histVars
  <2>1. ASSUME NEW j \in Jobs, InsertPending(j)
        PROVE  JobInv'
    <3>1. ~Owned(j) /\ j \notin accepted
      BY <2>1 DEF InsertPending, KnownJobs
    <3>2. /\ UNCHANGED <<queue, job>> /\ holder = NoJob /\ holder' = j
          /\ status' = [status EXCEPT ![j] = "PENDING"]
          /\ UNCHANGED <<file, hasPath, proc, step, histVars>>
          /\ status \in [Jobs -> {"NONE"} \cup NonTerminal \cup Terminal]
          /\ proc \in {"starting", "ready"}
      BY <2>1 DEF InsertPending, TypeOK
    <3>3. \A i \in Jobs : /\ Queued(i)' <=> Queued(i)
                          /\ Running(i)' <=> Running(i)
                          /\ Owned(i)' <=> Owned(i) \/ i = j
      BY <3>2 DEF Queued, Running, Owned
    <3>4. OnePlace'
      <4>1. ~Queued(j)' /\ ~Running(j)'
        BY <3>1, <3>3 DEF Owned
      <4> QED
        BY <3>2, <4>1 DEF OnePlace
    <3>5. KnownJobs' /\ LockOpen' /\ OwnedFinal'
      BY <3>2, <3>3 DEF KnownJobs, LockOpen, OwnedFinal, Terminal
    <3>6. AtSucceed' /\ SucceededHasArtifact'
      BY <3>2 DEF AtSucceed, SucceededHasArtifact
    <3>7. AcceptedJobsAreOwned'
      BY <3>1, <3>2, <3>3 DEF AcceptedJobsAreOwned, TypeOK
    <3> QED
      BY <3>4, <3>5, <3>6, <3>7
  <2>2. ASSUME NEW j \in Jobs, InsertPendingFails(j)
        PROVE  JobInv'
    <3>1. ~Owned(j) /\ j \notin accepted
      BY <2>2 DEF InsertPendingFails, KnownJobs
    <3>2. /\ UNCHANGED <<queue, job, holder, file, hasPath, proc, step,
                         accepted, torn, swept>>
          /\ status' = [status EXCEPT ![j] = "PENDING"]
          /\ status \in [Jobs -> {"NONE"} \cup NonTerminal \cup Terminal]
          /\ dropped \subseteq dropped'
      BY <2>2 DEF InsertPendingFails, TypeOK
    <3>3. /\ OnePlace'
          /\ \A i \in Jobs : /\ Queued(i)' <=> Queued(i)
                             /\ Running(i)' <=> Running(i)
                             /\ Owned(i)' <=> Owned(i)
      BY <3>2, PlacesKept
    <3>4. KnownJobs' /\ LockOpen' /\ OwnedFinal'
      BY <3>2, <3>3 DEF KnownJobs, LockOpen, OwnedFinal, Terminal
    <3>5. AtSucceed' /\ SucceededHasArtifact'
      BY <3>2 DEF AtSucceed, SucceededHasArtifact
    <3>6. AcceptedJobsAreOwned'
      BY <3>1, <3>2, <3>3 DEF AcceptedJobsAreOwned, TypeOK
    <3> QED
      BY <3>3, <3>4, <3>5, <3>6
  <2>3. CASE Launch
    <3>1. /\ holder # NoJob /\ holder \in Jobs /\ holder' = NoJob
          /\ queue' = Append(queue, holder)
          /\ accepted' = accepted \cup {holder}
          /\ UNCHANGED <<job, step, status, hasPath, file, proc, dropped, torn,
                         swept>>
      BY <2>3 DEF Launch, LockOpen, TypeOK
    <3>2. /\ OnePlace'
          /\ \A i \in Jobs : /\ Queued(i)' <=> Queued(i) \/ i = holder
                             /\ Running(i)' <=> Running(i)
                             /\ Owned(i)' <=> Owned(i)
      BY <3>1, PlacesLaunch
    <3>3. KnownJobs' /\ LockOpen' /\ OwnedFinal'
      BY <3>1, <3>2 DEF KnownJobs, LockOpen, OwnedFinal, Owned
    <3>4. AtSucceed' /\ SucceededHasArtifact'
      BY <3>1 DEF AtSucceed, SucceededHasArtifact
    <3>5. AcceptedJobsAreOwned'
      BY <3>1, <3>2 DEF AcceptedJobsAreOwned, TypeOK
    <3> QED
      BY <3>2, <3>3, <3>4, <3>5
  <2>4. ASSUME NEW w \in Workers, Take(w)
        PROVE  JobInv'
    <3>1. /\ UNCHANGED <<status, hasPath, file, proc, holder, accepted, dropped,
                         torn, swept>>
          /\ \A v \in Workers : step'[v] = "succeed" =>
                                  step[v] = "succeed" /\ job'[v] = job[v]
      BY <2>4 DEF Take, TypeOK
    <3>2. /\ OnePlace'
          /\ \A i \in Jobs : /\ Owned(i)' <=> Owned(i)
                             /\ Queued(i) \/ Running(i) => Queued(i)' \/ Running(i)'
      BY <2>4, PlacesTake
    <3>3. KnownJobs' /\ LockOpen' /\ OwnedFinal'
      BY <3>1, <3>2 DEF KnownJobs, LockOpen, OwnedFinal
    <3>4. AtSucceed' /\ SucceededHasArtifact'
      BY <3>1 DEF AtSucceed, SucceededHasArtifact
    <3>5. AcceptedJobsAreOwned'
      BY <3>1, <3>2 DEF AcceptedJobsAreOwned, TypeOK
    <3> QED
      BY <3>2, <3>3, <3>4, <3>5
  <2>5. ASSUME NEW w \in Workers, RunJob(w) \/ RunJobFails(w), ~Take(w)
        PROVE  JobInv'
    BY <2>5, RunJobKeeps
  <2>6. ASSUME UNCHANGED <<queue, job, holder, step, status, hasPath, file,
                           accepted, dropped, torn, swept>>,
               holder # NoJob => proc' \in {"starting", "ready"},
               proc = "interrupted" => proc' = "interrupted"
        PROVE  JobInv'
    <3>1. /\ OnePlace'
          /\ \A j \in Jobs : /\ Queued(j)' <=> Queued(j)
                             /\ Running(j)' <=> Running(j)
                             /\ Owned(j)' <=> Owned(j)
      BY <2>6, PlacesKept
    <3>2. KnownJobs' /\ LockOpen' /\ OwnedFinal'
      BY <2>6, <3>1 DEF KnownJobs, LockOpen, OwnedFinal
    <3>3. AtSucceed' /\ SucceededHasArtifact'
      BY <2>6 DEF AtSucceed, SucceededHasArtifact
    <3>4. AcceptedJobsAreOwned'
      BY <2>6, <3>1 DEF AcceptedJobsAreOwned, TypeOK
    <3> QED
      BY <3>1, <3>2, <3>3, <3>4
  <2>7. CASE Boot
    BY <2>6, <2>7 DEF Boot, LockOpen
  <2>8. CASE ReconcileOrphanedJobs
    <3>1. /\ UNCHANGED <<queue, job, holder, step, hasPath, file, accepted,
                         dropped, torn>>
          /\ proc = "starting" /\ proc' = "ready"
          /\ swept' = swept \cup {j \in Jobs : status[j] \in NonTerminal /\ Owned(j)}
          /\ \A j \in Jobs :
               status'[j] = IF status[j] \in NonTerminal THEN "FAILED" ELSE status[j]
      BY <2>8 DEF ReconcileOrphanedJobs
    <3>2. /\ OnePlace'
          /\ \A j \in Jobs : /\ Queued(j)' <=> Queued(j)
                             /\ Running(j)' <=> Running(j)
                             /\ Owned(j)' <=> Owned(j)
      BY <3>1, PlacesKept
    <3>3. KnownJobs' /\ LockOpen'
      BY <3>1, <3>2 DEF KnownJobs, LockOpen
    <3>4. OwnedFinal'
      BY <3>1, <3>2 DEF OwnedFinal, Terminal
    <3>5. AtSucceed' /\ SucceededHasArtifact'
      BY <3>1 DEF AtSucceed, SucceededHasArtifact
    <3>6. AcceptedJobsAreOwned'
      BY <3>1, <3>2 DEF AcceptedJobsAreOwned, TypeOK, NonTerminal
    <3> QED
      BY <3>2, <3>3, <3>4, <3>5, <3>6
  <2>9. CASE StopAdmission
    BY <2>6, <2>9 DEF StopAdmission
  <2>10. CASE ShutdownExecutor
    BY <2>6, <2>10 DEF ShutdownExecutor, LockOpen
  <2>11. CASE DrainTimeout
    <3>1. /\ queue' = <<>> /\ holder = NoJob /\ holder' = NoJob
          /\ proc' = "interrupted"
          /\ UNCHANGED <<job, step, status, hasPath, file, accepted, dropped,
                         torn, swept>>
      BY <2>11 DEF DrainTimeout, LockOpen
    <3>2. \A j \in Jobs : Owned(j)' => Owned(j)
      BY <3>1 DEF Owned, Queued, Running
    <3>3. OnePlace' /\ LockOpen' /\ AcceptedJobsAreOwned'
      BY <3>1 DEF OnePlace, LockOpen, AcceptedJobsAreOwned
    <3>4. KnownJobs' /\ OwnedFinal'
      BY <3>1, <3>2 DEF KnownJobs, OwnedFinal
    <3>5. AtSucceed' /\ SucceededHasArtifact'
      BY <3>1 DEF AtSucceed, SucceededHasArtifact
    <3> QED
      BY <3>3, <3>4, <3>5
  <2>12. CASE Gone
    <3>1. /\ queue' = <<>> /\ holder' = NoJob /\ accepted' = {}
          /\ \A w \in Workers : job'[w] = NoJob /\ step'[w] = "idle"
          /\ UNCHANGED <<status, hasPath, file, torn>>
      BY <2>12 DEF Gone
    <3>2. \A j \in Jobs : ~Owned(j)'
      BY <3>1 DEF Owned, Queued, Running
    <3>3. OnePlace' /\ LockOpen' /\ AcceptedJobsAreOwned'
      BY <3>1 DEF OnePlace, LockOpen, AcceptedJobsAreOwned
    <3>4. KnownJobs' /\ OwnedFinal'
      BY <3>1, <3>2 DEF KnownJobs, OwnedFinal
    <3>5. AtSucceed' /\ SucceededHasArtifact'
      BY <3>1 DEF AtSucceed, SucceededHasArtifact
    <3> QED
      BY <3>3, <3>4, <3>5
  <2>13. CASE UNCHANGED vars
    BY <2>6, <2>13 DEF vars, LockOpen
  <2> QED
    BY <2>1, <2>2, <2>3, <2>4, <2>5, <2>7, <2>8, <2>9, <2>10, <2>11, <2>12,
       <2>13 DEF Next, Exit, Crash
<1> QED
  BY <1>1, <1>2, TypesAndThreads, PTL DEF Spec

\* The admission lock does its work: no shutdown races with submit() into an
\* accepted row that nobody will run (ReportService.kt, admissionLock).
THEOREM AcceptedJobsOwned == Spec => []AcceptedJobsAreOwned
<1>1. JobInv => AcceptedJobsAreOwned
  BY DEF JobInv
<1> QED
  BY <1>1, JobInvariant, PTL

\* A SUCCEEDED row has its artifact, torn commits apart (ReportService.kt,
\* runJob writes the file before the row).
THEOREM SuccessHasArtifact == Spec => []SucceededHasArtifact
<1>1. JobInv => SucceededHasArtifact
  BY DEF JobInv
<1> QED
  BY <1>1, JobInvariant, PTL

\* A final status is final, torn and swept jobs apart, although the UPDATEs
\* of ReportJobRepository.kt do not look at the old status.
THEOREM FinalStatusIsFinal == Spec => FinalStatusStays
<1> DEFINE Keep == \A j \in Jobs : status[j] \in Terminal /\ status'[j] # status[j]
                                     => j \in torn \cup swept
<1>1. TypeOK /\ IdleThreads /\ JobInv /\ [Next]_vars => [Keep]_vars
  <2> SUFFICES ASSUME TypeOK, IdleThreads, JobInv, Next, NEW j \in Jobs,
                      status[j] \in Terminal, status'[j] # status[j]
               PROVE  j \in torn \cup swept
    OBVIOUS
  <2> USE DEF rowVars, poolVars, histVars, TypeOK, NonTerminal, Terminal
  <2>1. CASE Launch \/ Boot \/ StopAdmission \/ ShutdownExecutor \/ DrainTimeout
             \/ Exit \/ Crash
    BY <2>1 DEF Launch, Boot, StopAdmission, ShutdownExecutor, DrainTimeout,
                Exit, Crash, Gone
  <2>2. CASE ReconcileOrphanedJobs
    BY <2>2 DEF ReconcileOrphanedJobs
  <2>3. ASSUME NEW i \in Jobs, InsertPending(i) \/ InsertPendingFails(i)
        PROVE  j \in torn \cup swept
    BY <2>3 DEF InsertPending, InsertPendingFails
  <2>4. ASSUME NEW w \in Workers, RunJob(w) \/ RunJobFails(w)
        PROVE  j \in torn \cup swept
    <3>1. j = job[w]
      BY <2>4 DEF RunJob, RunJobFails, Take, MarkRunning, MarkRunningFails,
                  Build, BuildFails, BuildDies, Write, WriteFails,
                  MarkSucceeded, MarkSucceededFails, Succeeded, Cleanup,
                  CleanupFails, MarkFailed, MarkFailedFails
    <3>2. Owned(j)
      BY <3>1 DEF Owned, Running
    <3> QED
      BY <3>2 DEF JobInv, OwnedFinal
  <2> QED
    BY <2>1, <2>2, <2>3, <2>4 DEF Next
<1>2. Spec => [][Keep]_vars
  BY <1>1, TypesAndThreads, JobInvariant, PTL DEF Spec
<1> QED
  BY <1>2 DEF FinalStatusStays
=============================================================================
