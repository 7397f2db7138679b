--------------------------- MODULE PipelinesProofs ---------------------------
(***************************************************************************)
(* What holds for every number of pipelines, runs and schedulers: types,   *)
(* what a deleted pipeline leaves behind, whose a job is, where a run has  *)
(* got to and how many jobs it gets.  For a single scheduler: the          *)
(* invariant that makes results faithful, the contract of a run and the    *)
(* jobs in the cluster.                                                    *)
(***************************************************************************)
EXTENDS Pipelines, FiniteSetTheorems, TLAPS

USE DEF NoRun, NoJob, pipelineVars, runVars, clusterVars, faultVars

-----------------------------------------------------------------------------
(* Type correctness *)

\* A scheduler that is given a well-formed record keeps the types.
LEMMA DoType ==
    ASSUME TypeOK, NEW w \in Schedulers, NEW work \in Works, Do(w, work)
    PROVE  worker' \in [Schedulers -> Works]
BY DEF TypeOK, Do

\* An idle scheduler has a well-formed record.
LEMMA NoWorkType == NoWork \in Works
BY DEF NoWork, Works, Steps, Statuses

\* Going back to a loop forgets the run and keeps the queue.
LEMMA BackType ==
    ASSUME TypeOK, NEW w \in Schedulers, NEW step \in Steps, NEW Q \in SUBSET Runs
    PROVE  [NoWork EXCEPT !.step = step, !.queue = Q] \in Works
BY DEF NoWork, Works, Statuses

\* Creating, deleting and the world around the runs preserve the types.
LEMMA ManageTyping ==
    ASSUME TypeOK, NEW p \in Pipelines, Manage(p)
    PROVE  TypeOK'
<1> USE DEF TypeOK
<1>1. ASSUME NEW from, NEW to \in Progress, Become(p, from, to)
      PROVE  progress' \in [Pipelines -> Progress]
  BY <1>1 DEF Become
<1>2. Fault => faults' \in Nat
  BY DEF Fault
<1>3. CASE AddTechUser(p) \/ AddTechUserFails(p) \/ RejectNightly(p)
  BY <1>1, <1>2, <1>3 DEF AddTechUser, AddTechUserFails, RejectNightly, Fault, Progress, Creating
<1>4. CASE CreateCronjob(p) \/ StorePipeline(p)
  BY <1>1, <1>4 DEF CreateCronjob, StorePipeline, Progress, Creating
<1>5. CASE CreatePipelineFails(p) \/ DeletePipelineFails(p)
  BY <1>2, <1>5 DEF CreatePipelineFails, DeletePipelineFails, Fault, Progress
<1>6. CASE RemoveTechUser(p) \/ DeleteCronjob(p)
  BY <1>1, <1>6 DEF RemoveTechUser, DeleteCronjob, Progress, Deleting
<1>7. CASE RemoveTechUserFails(p)
  <2>1. progress' \in [Pipelines -> Progress] /\ forced' \in SUBSET Pipelines
    BY <1>1, <1>7 DEF RemoveTechUserFails, Progress, Deleting
  <2> QED BY <1>2, <1>7, <2>1 DEF RemoveTechUserFails, Fault
<1>8. CASE DeletePipelineRow(p)
  BY <1>1, <1>8 DEF DeletePipelineRow, Progress, Statuses
<1> QED BY <1>3, <1>4, <1>5, <1>6, <1>7, <1>8 DEF Manage

\* Every step of a scheduler preserves the types.
LEMMA ScheduleTyping ==
    ASSUME TypeOK, NEW w \in Schedulers, Schedule(w)
    PROVE  TypeOK'
<1> USE DEF TypeOK
<1>1. worker[w] \in Works
  OBVIOUS
<1>2. Fault => faults' \in Nat
  BY DEF Fault
<1>3. AbortTick(w) => worker' \in [Schedulers -> Works]
  BY NoWorkType, DoType DEF AbortTick
<1>4. ASSUME NEW step \in Steps, BackTo(w, step)
      PROVE  worker' \in [Schedulers -> Works]
  <2>1. worker[w].queue \in SUBSET Runs
    BY <1>1 DEF Works
  <2> QED BY <1>4, <2>1, BackType, DoType DEF BackTo
<1>5. ASSUME NEW from, NEW to \in Steps, Visit(w, from, to)
      PROVE  TypeOK'
  <2>1. PICK r \in worker[w].queue :
           Do(w, [worker[w] EXCEPT !.step = to, !.queue = @ \ {r}, !.run = r,
                                   !.seen = status[r], !.job = reference[r]])
    BY <1>5 DEF Visit
  <2>2. r \in Runs
    BY <1>1 DEF Works
  <2>3. [worker[w] EXCEPT !.step = to, !.queue = @ \ {r}, !.run = r,
                          !.seen = status[r], !.job = reference[r]] \in Works
    BY <1>1, <2>2 DEF Works
  <2> QED BY <1>5, <2>1, <2>3, DoType DEF Visit
<1>6. CASE Tick(w)
  <2>1. {r \in Runs : status[r] = "pending"} \in SUBSET Runs
    OBVIOUS
  <2> QED BY <1>6, <2>1, BackType, DoType DEF Tick, Steps
<1>7. CASE PickPending(w) \/ PickActive(w)
  BY <1>5, <1>7 DEF PickPending, PickActive, Steps
<1>8. CASE VisitDeleted(w) \/ StoreFails(w)
  BY <1>2, <1>3, <1>8 DEF VisitDeleted, StoreFails, Fault
<1>9. ASSUME NEW j \in Jobs, NEW r \in Runs, NewJob(j, r)
      PROVE  /\ job' \in [Jobs -> [run: Runs \cup {NoRun}, state: JobStates]]
             /\ present' \in SUBSET Jobs
  BY <1>9 DEF NewJob, JobStates
<1>10. ASSUME NEW next \in Statuses, NEW j \in Jobs \cup {NoJob}, Scheduled(w, next, j)
       PROVE  worker' \in [Schedulers -> Works]
  <2>1. [worker[w] EXCEPT !.step = "storeJob", !.next = next, !.job = j] \in Works
    BY <1>1 DEF Works, Steps
  <2> QED BY <1>10, <2>1, DoType DEF Scheduled
<1>11. ASSUME NEW next \in Statuses, Polled(w, next)
       PROVE  worker' \in [Schedulers -> Works]
  <2>1. [worker[w] EXCEPT !.step = IF next \in Final THEN "finish" ELSE "storeStatus",
                          !.next = next] \in Works
    BY <1>1 DEF Works, Steps
  <2> QED BY <1>11, <2>1, DoType DEF Polled
<1>12. Finished(w) => worker' \in [Schedulers -> Works]
  <2>1. [worker[w] EXCEPT !.step = "storeStatus"] \in Works
    BY <1>1 DEF Works, Steps
  <2> QED BY <2>1, DoType DEF Finished
<1>13. "scheduled" \in Statuses /\ "unknown" \in Statuses
  BY DEF Statuses, Active, Final
<1>14. WriteStatus(w) => status' \in [Runs -> Statuses]
  BY <1>1 DEF WriteStatus, Works
<1>15. CASE CreateJob(w) \/ RejectJob(w) \/ CreateJobFails(w)
  <2>1. Target(w) \in Runs \cup {NoRun}
    BY <1>1 DEF Target, Works
  <2>2. ASSUME NEW j \in Jobs, NewJob(j, Target(w))
        PROVE  /\ job' \in [Jobs -> [run: Runs \cup {NoRun}, state: JobStates]]
               /\ present' \in SUBSET Jobs
    BY <2>1, <2>2 DEF NewJob, JobStates
  <2>3. CASE CreateJob(w)
    BY <1>10, <1>13, <2>2, <2>3 DEF CreateJob
  <2>4. CASE RejectJob(w)
    BY <1>10, <1>13, <2>4 DEF RejectJob
  <2>5. CASE CreateJobFails(w)
    BY <1>2, <1>10, <1>13, <2>2, <2>5 DEF CreateJobFails, Fault
  <2> QED BY <1>15, <2>3, <2>4, <2>5
<1>16. CASE StoreJob(w)
  <2>1. reference' \in [Runs -> Jobs \cup {NoJob}]
    BY <1>1, <1>16 DEF StoreJob, Works
  <2> QED BY <1>4, <1>14, <1>16, <2>1 DEF StoreJob, Steps
<1>17. CASE ScheduleDone(w)
  <2>1. {r \in Runs : status[r] \in Active} \in SUBSET Runs
    OBVIOUS
  <2> QED BY <1>17, <2>1, BackType, DoType DEF ScheduleDone, Refresh, Steps
<1>18. CASE Poll(w) \/ PollFails(w)
  <2>1. PolledStatus(w) \in Statuses
    BY <1>1 DEF PolledStatus, InternalStatus, Works, JobStates, Statuses, Active, Final
  <2>2. worker[w].seen \in Statuses
    BY <1>1 DEF Works
  <2> QED BY <1>2, <1>11, <1>13, <1>18, <2>1, <2>2 DEF Poll, PollFails, Fault
<1>19. CASE FinishJob(w) \/ FinishJobFails(w)
  BY <1>2, <1>12, <1>19 DEF FinishJob, FinishJobFails, Fault
<1>20. CASE StoreStatus(w)
  BY <1>4, <1>14, <1>20 DEF StoreStatus, Steps
<1>21. CASE StoreDeleted(w)
  BY <1>3, <1>4, <1>21 DEF StoreDeleted, Steps
<1>22. CASE RefreshDone(w)
  BY <1>22, NoWorkType, DoType DEF RefreshDone
<1> QED
  BY <1>6, <1>7, <1>8, <1>15, <1>16, <1>17, <1>18, <1>19, <1>20, <1>21, <1>22 DEF Schedule

\* Every variable keeps its type: the columns of a run, the cluster and what the
\* schedulers hold, through every step of requests, schedulers, jobs and crashes.
THEOREM TypeCorrect == Spec => []TypeOK
<1>1. Init => TypeOK
  <2> SUFFICES ASSUME Init PROVE TypeOK
    OBVIOUS
  <2>1. worker \in [Schedulers -> Works]
    BY NoWorkType DEF Init
  <2> QED BY <2>1 DEF Init, TypeOK, Progress, Statuses, JobStates
<1>2. TypeOK /\ [Next]_vars => TypeOK'
  <2> SUFFICES ASSUME TypeOK, [Next]_vars PROVE TypeOK'
    OBVIOUS
  <2>1. ASSUME NEW r \in Runs, TriggerRun(r) \/ TimeoutPasses(r)
        PROVE  TypeOK'
    BY <2>1 DEF TriggerRun, TimeoutPasses, TypeOK, Statuses
  <2>2. ASSUME NEW j \in Jobs, NEW s \in JobStates, JobProceeds(j, s)
        PROVE  TypeOK'
    BY <2>2 DEF JobProceeds, TypeOK
  <2>3. ASSUME NEW j \in Jobs, JobExpires(j)
        PROVE  TypeOK'
    BY <2>3 DEF JobExpires, TypeOK
  <2>4. ASSUME NEW w \in Schedulers, Crash(w)
        PROVE  TypeOK'
    <3>1. worker' \in [Schedulers -> Works]
      BY <2>4, NoWorkType, DoType DEF Crash
    <3>2. progress' \in [Pipelines -> Progress]
      BY <2>4 DEF Crash, TypeOK, Progress
    <3> QED BY <2>4, <3>1, <3>2 DEF Crash, TypeOK
  <2>5. CASE UNCHANGED vars
    BY <2>5 DEF vars, TypeOK
  <2> QED BY <2>1, <2>2, <2>3, <2>4, <2>5, ManageTyping, ScheduleTyping DEF Next
<1> QED BY <1>1, <1>2, PTL DEF Spec

-----------------------------------------------------------------------------
(* The invariant of a single scheduler *)

\* A job only goes on: it leaves waiting and active, and keeps how it ended.
JobsForward ==
    \A j \in Jobs :
        \/ job'[j] = job[j]
        \/ job[j].state = "unused"
        \/ job[j].state \in {"waiting", "active"} /\ job'[j].state \notin {"unused", "waiting"}

\* Agrees in the next state, for a status and a job of this one.
AgreesNext(s, j) ==
    /\ s \in Active \cup {"success", "failure"} => j \in Jobs
    /\ s = "running" => job'[j].state \notin {"unused", "waiting"}
    /\ s = "success" => job'[j].state = "succeeded"
    /\ s = "failure" => job'[j].state = "failed"

\* What a status says about a job stays true of it.
LEMMA AgreesStable ==
    ASSUME JobsForward, NEW s, NEW j, Agrees(s, j)
    PROVE  AgreesNext(s, j)
BY DEF JobsForward, Agrees, AgreesNext, Active

\* The steps in which runs are created or deleted, or change only in the cluster,
\* and schedulers stop or go on undisturbed.
LEMMA Undisturbed ==
    ASSUME TypeOK, PipelinesInv, JobsForward,
           \A w \in Schedulers : worker'[w] = worker[w] \/ worker'[w] = NoWork,
           \A r \in Runs :
              \/ status'[r] = status[r] /\ reference'[r] = reference[r]
              \/ status'[r] = "deleted"
              \/ status[r] = "absent" /\ status'[r] \in {"absent", "pending"}
    PROVE  PipelinesInv'
<1> USE DEF PipelinesInv
<1>1. ReferenceInv'
  <2> SUFFICES ASSUME NEW r \in Runs PROVE Agrees(status[r], reference[r])'
    BY DEF ReferenceInv
  <2>1. CASE status'[r] = status[r] /\ reference'[r] = reference[r]
    BY <2>1, AgreesStable DEF ReferenceInv, Agrees, AgreesNext
  <2>2. CASE status'[r] \in {"deleted", "absent", "pending"}
    BY <2>2 DEF Agrees, Active
  <2> QED BY <2>1, <2>2
<1>2. ASSUME NEW w \in Schedulers
      PROVE  /\ worker'[w].step # "idle" => worker'[w] = worker[w]
             /\ worker'[w].step = "idle" /\ worker'[w] # worker[w] => worker'[w] = NoWork
             /\ worker[w] \in Works
  BY DEF NoWork, TypeOK
<1>3. QueueInv'
  <2> SUFFICES ASSUME NEW w \in Schedulers
      PROVE  /\ worker'[w].run \notin worker'[w].queue
             /\ worker'[w].step \in {"schedule", "create", "storeJob"} =>
                   \A r \in worker'[w].queue : status'[r] \in {"pending", "deleted"}
             /\ worker'[w].step \in {"refresh", "poll", "finish", "storeStatus"} =>
                   \A r \in worker'[w].queue : status'[r] \in Active \cup {"deleted"}
    BY DEF QueueInv, Target, Active
  <2>1. CASE worker'[w] = worker[w]
    BY <1>2, <2>1 DEF QueueInv, Target, Active, Works
  <2>2. CASE worker'[w] = NoWork
    BY <2>2 DEF NoWork
  <2> QED BY <2>1, <2>2
<1>4. ScheduleInv'
  <2> SUFFICES ASSUME NEW w \in Schedulers, worker'[w].step \in {"create", "storeJob"}
      PROVE  /\ worker'[w].run \in Runs
             /\ worker'[w].seen = "pending"
             /\ status'[worker'[w].run] \in {"pending", "deleted"}
             /\ worker'[w].step = "storeJob" =>
                   \/ worker'[w].next = "scheduled" /\ worker'[w].job \in Jobs
                   \/ worker'[w].next = "unknown"
    BY DEF ScheduleInv, Target
  <2> QED BY <1>2 DEF ScheduleInv, Target
<1>5. RefreshInv'
  <2> SUFFICES ASSUME NEW w \in Schedulers, worker'[w].step \in {"poll", "finish", "storeStatus"}
      PROVE  /\ worker'[w].run \in Runs
             /\ worker'[w].seen \in Active
             /\ status'[worker'[w].run] \in {worker'[w].seen, "deleted"}
             /\ status'[worker'[w].run] # "deleted" => reference'[worker'[w].run] = worker'[w].job
             /\ Agrees(worker[w].seen, worker[w].job)'
             /\ worker'[w].step \in {"finish", "storeStatus"} =>
                   /\ worker'[w].next \in Active \cup Final
                   /\ worker'[w].seen = "running" => worker'[w].next # "scheduled"
                   /\ Agrees(worker[w].next, worker[w].job)'
    BY DEF RefreshInv, Target, Active, Final
  <2>1. worker'[w] = worker[w]
    BY <1>2
  <2>2. /\ Agrees(worker[w].seen, worker[w].job)'
        /\ worker[w].step \in {"finish", "storeStatus"} => Agrees(worker[w].next, worker[w].job)'
    BY <2>1, AgreesStable DEF RefreshInv, Agrees, AgreesNext
  <2>3. /\ worker[w].run \in Runs /\ worker[w].seen \in Active
        /\ status[worker[w].run] \in {worker[w].seen, "deleted"}
        /\ status[worker[w].run] # "deleted" => reference[worker[w].run] = worker[w].job
    BY <2>1 DEF RefreshInv, Target
  <2>4. status[worker[w].run] # "absent"
    BY <2>3 DEF Active
  <2> QED BY <2>1, <2>2, <2>3, <2>4 DEF RefreshInv
<1> QED BY <1>1, <1>3, <1>4, <1>5

\* If no row changes, the rows still agree with their jobs.
LEMMA RowsKept ==
    ASSUME ReferenceInv, JobsForward, UNCHANGED <<status, reference>>
    PROVE  ReferenceInv'
BY AgreesStable DEF ReferenceInv, Agrees, AgreesNext

\* With a single scheduler, its new record decides about the invariant.
LEMMA Focus ==
    ASSUME OneScheduler, TypeOK, NEW w \in Schedulers, NEW work, Do(w, work),
           ReferenceInv',
           work.run \notin work.queue,
           work.step \in {"schedule", "create", "storeJob"} =>
              \A r \in work.queue : status'[r] \in {"pending", "deleted"},
           work.step \in {"refresh", "poll", "finish", "storeStatus"} =>
              \A r \in work.queue : status'[r] \in Active \cup {"deleted"},
           work.step \in {"create", "storeJob"} =>
              /\ work.run \in Runs /\ work.seen = "pending"
              /\ status'[work.run] \in {"pending", "deleted"},
           work.step = "storeJob" =>
              \/ work.next = "scheduled" /\ work.job \in Jobs
              \/ work.next = "unknown",
           work.step \in {"poll", "finish", "storeStatus"} =>
              /\ work.run \in Runs /\ work.seen \in Active
              /\ status'[work.run] \in {work.seen, "deleted"}
              /\ status'[work.run] # "deleted" => reference'[work.run] = work.job
              /\ AgreesNext(work.seen, work.job),
           work.step \in {"finish", "storeStatus"} =>
              /\ work.next \in Active \cup Final
              /\ work.seen = "running" => work.next # "scheduled"
              /\ AgreesNext(work.next, work.job)
    PROVE  PipelinesInv'
<1>1. worker'[w] = work
  BY DEF Do, TypeOK
<1>2. \A v \in Schedulers : v = w
  BY DEF OneScheduler
<1>3. QueueInv'
  <2> SUFFICES ASSUME NEW v \in Schedulers
      PROVE  /\ worker'[v].run \notin worker'[v].queue
             /\ worker'[v].step \in {"schedule", "create", "storeJob"} =>
                   \A r \in worker'[v].queue : status'[r] \in {"pending", "deleted"}
             /\ worker'[v].step \in {"refresh", "poll", "finish", "storeStatus"} =>
                   \A r \in worker'[v].queue : status'[r] \in Active \cup {"deleted"}
    BY DEF QueueInv, Target, Active
  <2> QED BY <1>1, <1>2
<1>4. ScheduleInv'
  <2> SUFFICES ASSUME NEW v \in Schedulers, worker'[v].step \in {"create", "storeJob"}
      PROVE  /\ worker'[v].run \in Runs
             /\ worker'[v].seen = "pending"
             /\ status'[worker'[v].run] \in {"pending", "deleted"}
             /\ worker'[v].step = "storeJob" =>
                   \/ worker'[v].next = "scheduled" /\ worker'[v].job \in Jobs
                   \/ worker'[v].next = "unknown"
    BY DEF ScheduleInv, Target
  <2> QED BY <1>1, <1>2
<1>5. RefreshInv'
  <2> SUFFICES ASSUME NEW v \in Schedulers, worker'[v].step \in {"poll", "finish", "storeStatus"}
      PROVE  /\ worker'[v].run \in Runs
             /\ worker'[v].seen \in Active
             /\ status'[worker'[v].run] \in {worker'[v].seen, "deleted"}
             /\ status'[worker'[v].run] # "deleted" => reference'[worker'[v].run] = worker'[v].job
             /\ Agrees(worker[v].seen, worker[v].job)'
             /\ worker'[v].step \in {"finish", "storeStatus"} =>
                   /\ worker'[v].next \in Active \cup Final
                   /\ worker'[v].seen = "running" => worker'[v].next # "scheduled"
                   /\ Agrees(worker[v].next, worker[v].job)'
    BY DEF RefreshInv, Target, Active, Final
  <2> QED BY <1>1, <1>2 DEF Agrees, AgreesNext
<1> QED BY <1>3, <1>4, <1>5 DEF PipelinesInv

\* Collecting, visiting and scheduling pending runs.
LEMMA SchedulingPreserves ==
    ASSUME OneScheduler, TypeOK, PipelinesInv, NEW w \in Schedulers,
           \/ Tick(w) \/ PickPending(w) \/ CreateJob(w) \/ RejectJob(w)
           \/ CreateJobFails(w) \/ StoreJob(w) \/ ScheduleDone(w)
    PROVE  PipelinesInv'
<1> DEFINE k == worker[w]
<1>1. k \in Works /\ \A r \in Runs : r # NoRun
  BY PipelinesAssumption DEF TypeOK
<1>2. ASSUME UNCHANGED job PROVE JobsForward
  BY <1>2 DEF JobsForward
<1>3. CASE Tick(w)
  <2>1. ReferenceInv'
    BY <1>2, <1>3, RowsKept DEF Tick, PipelinesInv
  <2> QED BY <1>1, <1>3, <2>1, Focus DEF Tick, NoWork
<1>4. CASE PickPending(w)
  <2> DEFINE work(r) == [k EXCEPT !.step = "create", !.queue = @ \ {r}, !.run = r,
                                  !.seen = status[r], !.job = reference[r]]
  <2>1. PICK r \in k.queue : status[r] # "deleted" /\ Do(w, work(r))
    BY <1>4 DEF PickPending, Visit
  <2>2. /\ work(r).step = "create" /\ work(r).queue = k.queue \ {r} /\ work(r).run = r
        /\ work(r).seen = status[r]
    BY <1>1 DEF Works
  <2>3. r \in Runs /\ status[r] = "pending" /\ \A q \in k.queue : status[q] \in {"pending", "deleted"}
    BY <1>1, <1>4, <2>1 DEF PipelinesInv, QueueInv, PickPending, Visit, Works
  <2>4. ReferenceInv' /\ UNCHANGED status
    BY <1>2, <1>4, RowsKept DEF PickPending, Visit, PipelinesInv
  <2> HIDE DEF work
  <2> QED BY <2>1, <2>2, <2>3, <2>4, Focus
<1>5. ASSUME k.step = "create", UNCHANGED <<status, reference>>, JobsForward,
             NEW next, NEW j, Scheduled(w, next, j),
             \/ next = "scheduled" /\ j \in Jobs
             \/ next = "unknown"
      PROVE  PipelinesInv'
  <2> DEFINE work == [k EXCEPT !.step = "storeJob", !.next = next, !.job = j]
  <2>1. /\ work.step = "storeJob" /\ work.queue = k.queue /\ work.run = k.run
        /\ work.seen = k.seen /\ work.next = next /\ work.job = j
    BY <1>1 DEF Works
  <2>2. /\ k.run \in Runs /\ k.seen = "pending" /\ status[k.run] \in {"pending", "deleted"}
        /\ k.run \notin k.queue /\ \A q \in k.queue : status[q] \in {"pending", "deleted"}
    BY <1>5 DEF PipelinesInv, QueueInv, ScheduleInv, Target
  <2>3. ReferenceInv'
    BY <1>5, RowsKept DEF PipelinesInv
  <2>4. Do(w, work)
    BY <1>5 DEF Scheduled
  <2> HIDE DEF work
  <2> QED BY <1>5, <2>1, <2>2, <2>3, <2>4, Focus
<1>6. ASSUME NEW j \in Jobs, NEW r, NewJob(j, r) PROVE JobsForward
  BY <1>6 DEF NewJob, JobsForward, TypeOK
<1>7. CASE CreateJob(w)
  BY <1>5, <1>6, <1>7 DEF CreateJob
<1>8. CASE RejectJob(w) \/ CreateJobFails(w)
  BY <1>2, <1>5, <1>6, <1>8 DEF RejectJob, CreateJobFails
<1>9. CASE StoreJob(w)
  <2> DEFINE work == [NoWork EXCEPT !.step = "schedule", !.queue = k.queue]
  <2>1. work.step = "schedule" /\ work.queue = k.queue /\ work.run = NoRun /\ Do(w, work)
    BY <1>9 DEF StoreJob, BackTo, NoWork
  <2>2. /\ k.run \in Runs /\ k.seen = "pending" /\ status[k.run] = "pending"
        /\ \/ k.next = "scheduled" /\ k.job \in Jobs
           \/ k.next = "unknown"
        /\ k.run \notin k.queue /\ \A q \in k.queue : status[q] \in {"pending", "deleted"}
        /\ k.queue \subseteq Runs
    BY <1>1, <1>9 DEF StoreJob, PipelinesInv, QueueInv, ScheduleInv, Target, Works
  <2>3. status' = [status EXCEPT ![k.run] = k.next]
    BY <1>9, <2>2 DEF StoreJob, WriteStatus, Changed, Target
  <2>4. /\ \A r \in Runs \ {k.run} : reference'[r] = reference[r]
        /\ k.next = "scheduled" => reference'[k.run] = k.job
    BY <1>9, <2>2, PipelinesAssumption DEF StoreJob, Target, TypeOK
  <2>5. ReferenceInv'
    <3> SUFFICES ASSUME NEW r \in Runs PROVE Agrees(status[r], reference[r])'
      BY DEF ReferenceInv
    <3>1. UNCHANGED job
      BY <1>9 DEF StoreJob
    <3>2. CASE r = k.run
      BY <2>2, <2>3, <2>4, <3>2 DEF Agrees, Active, TypeOK
    <3>3. CASE r # k.run
      BY <2>3, <2>4, <3>1, <3>3 DEF Agrees, PipelinesInv, ReferenceInv, TypeOK
    <3> QED BY <3>2, <3>3
  <2>6. \A q \in k.queue : status'[q] \in {"pending", "deleted"}
    BY <2>2, <2>3 DEF TypeOK
  <2> HIDE DEF work
  <2> QED BY <1>1, <2>1, <2>2, <2>5, <2>6, Focus
<1>10. CASE ScheduleDone(w)
  <2>1. ReferenceInv'
    BY <1>2, <1>10, RowsKept DEF ScheduleDone, Refresh, PipelinesInv
  <2> QED BY <1>1, <1>10, <2>1, Focus DEF ScheduleDone, Refresh, NoWork
<1> QED BY <1>3, <1>4, <1>7, <1>8, <1>9, <1>10

\* Visiting, polling and finishing active runs.
LEMMA RefreshingPreserves ==
    ASSUME OneScheduler, TypeOK, PipelinesInv, NEW w \in Schedulers,
           \/ PickActive(w) \/ Poll(w) \/ PollFails(w)
           \/ FinishJob(w) \/ FinishJobFails(w) \/ StoreStatus(w)
    PROVE  PipelinesInv'
<1> DEFINE k == worker[w]
<1>1. k \in Works /\ \A r \in Runs : r # NoRun
  BY PipelinesAssumption DEF TypeOK
<1>2. UNCHANGED job /\ JobsForward
  BY DEF JobsForward, PickActive, Visit, Poll, PollFails, FinishJob, FinishJobFails, StoreStatus
<1>3. UNCHANGED <<status, reference>> => ReferenceInv'
  BY <1>2, RowsKept DEF PipelinesInv
<1>4. ASSUME NEW s, NEW j, Agrees(s, j)
      PROVE  AgreesNext(s, j)
  BY <1>2, <1>4, AgreesStable
<1>5. k.step \in {"poll", "finish", "storeStatus"} =>
         /\ k.run \in Runs /\ k.seen \in Active
         /\ status[k.run] \in {k.seen, "deleted"}
         /\ status[k.run] # "deleted" => reference[k.run] = k.job
         /\ Agrees(k.seen, k.job)
         /\ k.run \notin k.queue
         /\ \A q \in k.queue : status[q] \in Active \cup {"deleted"}
  BY DEF PipelinesInv, RefreshInv, QueueInv, Target
<1>6. CASE PickActive(w)
  <2> DEFINE work(r) == [k EXCEPT !.step = "poll", !.queue = @ \ {r}, !.run = r,
                                  !.seen = status[r], !.job = reference[r]]
  <2>1. PICK r \in k.queue : status[r] # "deleted" /\ Do(w, work(r))
    BY <1>6 DEF PickActive, Visit
  <2>2. /\ work(r).step = "poll" /\ work(r).queue = k.queue \ {r} /\ work(r).run = r
        /\ work(r).seen = status[r] /\ work(r).job = reference[r]
    BY <1>1 DEF Works
  <2>3. r \in Runs /\ status[r] \in Active /\ \A q \in k.queue : status[q] \in Active \cup {"deleted"}
    BY <1>1, <1>6, <2>1 DEF PipelinesInv, QueueInv, PickActive, Visit, Works
  <2>4. UNCHANGED <<status, reference>>
    BY <1>6 DEF PickActive, Visit
  <2>5. Agrees(status[r], reference[r])
    BY <2>3 DEF PipelinesInv, ReferenceInv
  <2>6. AgreesNext(work(r).seen, work(r).job)
    BY <1>4, <2>2, <2>5
  <2> HIDE DEF work
  <2> QED BY <1>3, <2>1, <2>2, <2>3, <2>4, <2>6, Focus
<1>7. ASSUME k.step = "poll", UNCHANGED <<status, reference>>,
             NEW next \in Active \cup Final, Polled(w, next), Agrees(next, k.job),
             k.seen = "running" => next # "scheduled"
      PROVE  PipelinesInv'
  <2> DEFINE work == [k EXCEPT !.step = IF next \in Final THEN "finish" ELSE "storeStatus",
                               !.next = next]
  <2>1. /\ work.step \in {"finish", "storeStatus"} /\ work.queue = k.queue /\ work.run = k.run
        /\ work.seen = k.seen /\ work.next = next /\ work.job = k.job
    BY <1>1 DEF Works
  <2>2. Do(w, work)
    BY <1>7 DEF Polled
  <2>3. AgreesNext(k.seen, k.job) /\ AgreesNext(next, k.job)
    BY <1>4, <1>5, <1>7
  <2> HIDE DEF work
  <2> QED BY <1>3, <1>5, <1>7, <2>1, <2>2, <2>3, Focus
<1>8. CASE Poll(w)
  <2> DEFINE next == PolledStatus(w)
  <2>1. /\ next \in Active \cup Final
        /\ Agrees(next, k.job)
        /\ k.seen = "running" => next # "scheduled"
    <3>1. k.step = "poll"
      BY <1>8 DEF Poll
    <3>2. CASE next \in {"timeout", "unknown"}
      BY <3>2 DEF Active, Final, Agrees
    <3>3. CASE next \notin {"timeout", "unknown"}
      <4>1. k.job \in present /\ next = InternalStatus(job[k.job].state)
        BY <3>3 DEF PolledStatus
      <4>2. k.job \in Jobs
        BY <4>1 DEF TypeOK
      <4>3. \/ next = "scheduled" /\ job[k.job].state = "waiting"
            \/ next = "running" /\ job[k.job].state = "active"
            \/ next = "success" /\ job[k.job].state = "succeeded"
            \/ next = "failure" /\ job[k.job].state = "failed"
        BY <3>3, <4>1 DEF InternalStatus
      <4> HIDE DEF next
      <4> QED BY <1>5, <3>1, <4>2, <4>3 DEF Agrees, Active, Final
    <3> QED BY <3>2, <3>3
  <2> QED BY <1>7, <1>8, <2>1 DEF Poll
<1>9. CASE PollFails(w)
  <2>1. k.step = "poll" /\ UNCHANGED <<status, reference>>
    BY <1>9 DEF PollFails
  <2>2. CASE Polled(w, "unknown")
    BY <1>7, <2>1, <2>2 DEF Agrees, Active, Final
  <2>3. CASE Polled(w, k.seen)
    BY <1>5, <1>7, <2>1, <2>3
  <2> QED BY <1>9, <2>2, <2>3 DEF PollFails
<1>10. CASE FinishJob(w) \/ FinishJobFails(w)
  <2> DEFINE work == [k EXCEPT !.step = "storeStatus"]
  <2>1. /\ work.step = "storeStatus" /\ work.queue = k.queue /\ work.run = k.run
        /\ work.seen = k.seen /\ work.next = k.next /\ work.job = k.job
    BY <1>1 DEF Works
  <2>2. Do(w, work) /\ UNCHANGED <<status, reference>> /\ k.step = "finish"
    BY <1>10 DEF FinishJob, FinishJobFails, Finished
  <2>3. /\ k.next \in Active \cup Final /\ Agrees(k.next, k.job)
        /\ k.seen = "running" => k.next # "scheduled"
    BY <2>2 DEF PipelinesInv, RefreshInv
  <2>4. AgreesNext(k.seen, k.job) /\ AgreesNext(k.next, k.job)
    BY <1>4, <1>5, <2>2, <2>3
  <2> HIDE DEF work
  <2> QED BY <1>3, <1>5, <2>1, <2>2, <2>3, <2>4, Focus
<1>11. CASE StoreStatus(w)
  <2> DEFINE work == [NoWork EXCEPT !.step = "refresh", !.queue = k.queue]
  <2>1. work.step = "refresh" /\ work.queue = k.queue /\ work.run = NoRun /\ Do(w, work)
    BY <1>11 DEF StoreStatus, BackTo, NoWork
  <2>2. /\ k.step = "storeStatus" /\ status[k.run] = k.seen /\ reference[k.run] = k.job
        /\ k.next \in Active \cup Final /\ Agrees(k.next, k.job)
    BY <1>5, <1>11 DEF StoreStatus, PipelinesInv, RefreshInv, Target
  <2>3. status' = [status EXCEPT ![k.run] = k.next] /\ reference' = reference
    BY <1>5, <1>11, <2>2 DEF StoreStatus, WriteStatus, Changed, Target, TypeOK
  <2>4. ReferenceInv'
    <3> SUFFICES ASSUME NEW r \in Runs PROVE Agrees(status[r], reference[r])'
      BY DEF ReferenceInv
    <3>1. CASE r = k.run
      BY <1>2, <1>5, <2>2, <2>3, <3>1 DEF Agrees, TypeOK
    <3>2. CASE r # k.run
      BY <1>2, <2>3, <3>2 DEF Agrees, PipelinesInv, ReferenceInv, TypeOK
    <3> QED BY <3>1, <3>2
  <2>5. k.queue \subseteq Runs /\ \A q \in k.queue : status'[q] \in Active \cup {"deleted"}
    BY <1>1, <1>5, <2>2, <2>3 DEF Works, TypeOK
  <2> HIDE DEF work
  <2> QED BY <1>1, <2>1, <2>4, <2>5, Focus
<1> QED BY <1>6, <1>8, <1>9, <1>10, <1>11

\* The steps of Undisturbed: requests for pipelines, the cluster, crashes, and
\* the ways in which a tick ends.
LEMMA OthersPreserve ==
    ASSUME OneScheduler, TypeOK, PipelinesInv,
           \/ \E p \in Pipelines : Manage(p)
           \/ \E r \in Runs : TriggerRun(r) \/ TimeoutPasses(r)
           \/ \E j \in Jobs : (\E s \in JobStates : JobProceeds(j, s)) \/ JobExpires(j)
           \/ \E w \in Schedulers : VisitDeleted(w) \/ StoreFails(w) \/ RefreshDone(w) \/ Crash(w)
           \/ \E w \in Schedulers : StoreDeleted(w) /\ AbortTick(w)
           \/ UNCHANGED vars
    PROVE  PipelinesInv'
<1> USE DEF JobsForward
<1>1. CASE \E p \in Pipelines : Manage(p)
  <2>1. PICK p \in Pipelines : Manage(p)
    BY <1>1
  <2>2. UNCHANGED <<worker, job>>
    BY <2>1 DEF Manage, AddTechUser, AddTechUserFails, RejectNightly, CreateCronjob, StorePipeline,
       CreatePipelineFails, RemoveTechUser, RemoveTechUserFails, DeleteCronjob,
       DeletePipelineRow, DeletePipelineFails
  <2>3. DeletePipelineRow(p) \/ UNCHANGED <<status, reference>>
    BY <2>1 DEF Manage, AddTechUser, AddTechUserFails, RejectNightly, CreateCronjob, StorePipeline,
       CreatePipelineFails, RemoveTechUser, RemoveTechUserFails, DeleteCronjob, DeletePipelineFails
  <2>4. \A r \in Runs :
           \/ status'[r] = status[r] /\ reference'[r] = reference[r]
           \/ status'[r] = "deleted"
           \/ status[r] = "absent" /\ status'[r] \in {"absent", "pending"}
    BY <2>3 DEF DeletePipelineRow
  <2> QED BY <2>2, <2>4, Undisturbed
<1>2. CASE \E r \in Runs : TriggerRun(r) \/ TimeoutPasses(r)
  BY <1>2, Undisturbed DEF TriggerRun, TimeoutPasses, TypeOK
<1>3. CASE \E j \in Jobs : (\E s \in JobStates : JobProceeds(j, s)) \/ JobExpires(j)
  <2>1. JobsForward
    BY <1>3 DEF JobProceeds, JobExpires, TypeOK
  <2> QED BY <1>3, <2>1, Undisturbed DEF JobProceeds, JobExpires
<1>4. CASE \E w \in Schedulers : VisitDeleted(w) \/ StoreFails(w) \/ RefreshDone(w) \/ Crash(w)
  BY <1>4, Undisturbed DEF VisitDeleted, StoreFails, RefreshDone, Crash, AbortTick, Do, TypeOK
<1>5. CASE \E w \in Schedulers : StoreDeleted(w) /\ AbortTick(w)
  BY <1>5, Undisturbed DEF StoreDeleted, AbortTick, Do, TypeOK
<1>6. CASE UNCHANGED vars
  BY <1>6, Undisturbed DEF vars
<1> QED BY <1>1, <1>2, <1>3, <1>4, <1>5, <1>6

\* A poll that has changed nothing goes on with the next run.
LEMMA NothingStored ==
    ASSUME OneScheduler, TypeOK, PipelinesInv, NEW w \in Schedulers,
           StoreDeleted(w), worker[w].step = "storeStatus", BackTo(w, "refresh")
    PROVE  PipelinesInv'
<1> DEFINE work == [NoWork EXCEPT !.step = "refresh", !.queue = worker[w].queue]
<1>1. work.step = "refresh" /\ work.queue = worker[w].queue /\ work.run = NoRun /\ Do(w, work)
  BY DEF BackTo, NoWork
<1>2. UNCHANGED <<status, reference, job>> /\ worker[w].queue \subseteq Runs
  BY DEF StoreDeleted, TypeOK, Works
<1>3. ReferenceInv' /\ NoRun \notin Runs
  BY <1>2, RowsKept, PipelinesAssumption DEF PipelinesInv, JobsForward
<1>4. \A q \in worker[w].queue : status'[q] \in Active \cup {"deleted"}
  BY <1>2 DEF PipelinesInv, QueueInv
<1> HIDE DEF work
<1> QED BY <1>1, <1>2, <1>3, <1>4, Focus

\* With one scheduler, rows agree with their jobs, and the scheduler's queue and
\* work are as it loaded them or deleted, through every step.
THEOREM PipelinesInvariant == OneScheduler /\ Spec => []PipelinesInv
<1> SUFFICES ASSUME OneScheduler PROVE Spec => []PipelinesInv
  OBVIOUS
<1>1. Init => PipelinesInv
  <2> SUFFICES ASSUME Init PROVE PipelinesInv
    OBVIOUS
  <2> QED BY DEF Init, PipelinesInv, ReferenceInv, Agrees, Active, QueueInv, ScheduleInv,
             RefreshInv, Target, NoWork
<1>2. TypeOK /\ PipelinesInv /\ [Next]_vars => PipelinesInv'
  <2> SUFFICES ASSUME TypeOK, PipelinesInv, [Next]_vars PROVE PipelinesInv'
    OBVIOUS
  <2>1. ASSUME NEW w \in Schedulers, StoreDeleted(w)
        PROVE  AbortTick(w) \/ (worker[w].step = "storeStatus" /\ BackTo(w, "refresh"))
    BY <2>1 DEF StoreDeleted
  <2> QED BY <2>1, SchedulingPreserves, RefreshingPreserves, OthersPreserve, NothingStored
          DEF Next, Schedule
<1>3. Spec => []TypeOK
  BY TypeCorrect
<1> QED BY <1>1, <1>2, <1>3, PTL DEF Spec

\* With one scheduler, a run that is shown as a success or a failure refers to a
\* job that ended this way, whatever is deleted, fails, crashes or times out.
THEOREM ResultsAreFaithful == OneScheduler /\ Spec => []FaithfulResult
<1>1. PipelinesInv => FaithfulResult
  BY DEF PipelinesInv, ReferenceInv, Agrees, FaithfulResult
<1> QED BY <1>1, PipelinesInvariant, PTL

-----------------------------------------------------------------------------
(* The contract of a run *)

\* What the pipelines' steps do to the status of the runs.
LEMMA StatusSteps ==
    ASSUME TypeOK, PipelinesInv, [Next]_vars
    PROVE  [Contract!ContractNext]_status
<1> USE DEF Contract!ContractNext, Contract!Move
<1>1. ASSUME NEW r \in Runs, TriggerRun(r) \/ TimeoutPasses(r)
      PROVE  [Contract!ContractNext]_status
  BY <1>1 DEF TriggerRun, TimeoutPasses, Contract!Trigger
<1>2. ASSUME NEW p \in Pipelines, Manage(p)
      PROVE  [Contract!ContractNext]_status
  <2> DEFINE R == {r \in Runs : PipelineOf[r] = p /\ status[r] # "absent"}
  <2>1. CASE DeletePipelineRow(p)
    <3>1. status' = [r \in Runs |-> IF r \in R THEN "deleted" ELSE status[r]]
      BY <2>1 DEF DeletePipelineRow
    <3>2. R \in SUBSET Runs /\ \A r \in R : status[r] # "absent"
      OBVIOUS
    <3> HIDE DEF R
    <3> QED BY <3>1, <3>2 DEF Contract!Delete
  <2>2. CASE ~ DeletePipelineRow(p)
    BY <1>2, <2>2
       DEF Manage, AddTechUser, AddTechUserFails, RejectNightly, CreateCronjob, StorePipeline,
           CreatePipelineFails, RemoveTechUser, RemoveTechUserFails, DeleteCronjob,
           DeletePipelineFails
  <2> QED BY <2>1, <2>2
<1>3. ASSUME NEW w \in Schedulers, StoreJob(w)
      PROVE  [Contract!ContractNext]_status
  <2>1. /\ Target(w) \in Runs /\ status[Target(w)] = "pending" /\ worker[w].seen = "pending"
        /\ worker[w].next \in {"scheduled", "unknown"}
    BY <1>3 DEF StoreJob, PipelinesInv, ScheduleInv
  <2>2. status' = [status EXCEPT ![Target(w)] = worker[w].next]
    BY <1>3, <2>1 DEF StoreJob, WriteStatus, Changed
  <2> QED BY <2>1, <2>2 DEF Contract!Schedule, Contract!GiveUp
<1>4. ASSUME NEW w \in Schedulers, StoreStatus(w)
      PROVE  [Contract!ContractNext]_status
  <2>1. /\ Target(w) \in Runs /\ status[Target(w)] = worker[w].seen /\ worker[w].seen \in Active
        /\ worker[w].next \in Active \cup Final
        /\ worker[w].seen = "running" => worker[w].next # "scheduled"
    BY <1>4 DEF StoreStatus, PipelinesInv, RefreshInv
  <2>2. CASE worker[w].next = worker[w].seen
    BY <1>4, <2>2 DEF StoreStatus, WriteStatus, Changed
  <2>3. CASE worker[w].next # worker[w].seen
    <3>1. status' = [status EXCEPT ![Target(w)] = worker[w].next]
      BY <1>4, <2>3 DEF StoreStatus, WriteStatus, Changed
    <3>2. CASE worker[w].next \in Active
      BY <2>1, <2>3, <3>1, <3>2 DEF Active, Contract!Start
    <3>3. CASE worker[w].next \in Final
      BY <2>1, <3>1, <3>3 DEF Active, Final, Contract!Final, Contract!Finish
    <3> QED BY <2>1, <3>2, <3>3
  <2> QED BY <2>2, <2>3
<1>5. ASSUME NEW w \in Schedulers, Schedule(w) \/ Crash(w), ~ StoreJob(w), ~ StoreStatus(w)
      PROVE  UNCHANGED status
  BY <1>5 DEF Schedule, Tick, PickPending, Visit, VisitDeleted, CreateJob, RejectJob,
     CreateJobFails, ScheduleDone, Refresh, PickActive, Poll, PollFails, FinishJob,
     FinishJobFails, StoreDeleted, StoreFails, RefreshDone, Crash
<1>6. ASSUME NEW j \in Jobs, (\E s \in JobStates : JobProceeds(j, s)) \/ JobExpires(j)
      PROVE  UNCHANGED status
  BY <1>6 DEF JobProceeds, JobExpires
<1>7. CASE UNCHANGED vars
  BY <1>7 DEF vars
<1> QED BY <1>1, <1>2, <1>3, <1>4, <1>5, <1>6, <1>7 DEF Next

\* With one scheduler, the status of every run follows its contract: it moves
\* forward, and a final status changes only when the run is deleted.
THEOREM PipelinesImplementContract == OneScheduler /\ Spec => ImplementsRunContract
<1>1. Init => Contract!ContractInit
  BY DEF Init, Contract!ContractInit
<1>2. TypeOK /\ PipelinesInv /\ [Next]_vars => [Contract!ContractNext]_status
  BY StatusSteps
<1> QED
  BY <1>1, <1>2, TypeCorrect, PipelinesInvariant, PTL
     DEF Spec, ImplementsRunContract, Contract!ContractSpec

-----------------------------------------------------------------------------
(* Deleted pipelines *)

\* What a deletion has taken care of so far stays so, also when it is tried again.
CleanInv ==
    \A p \in Pipelines :
        /\ p \in cronjobs => p \in Nightly /\ progress[p] \notin {"cronjobRemoved", "deleted"}
        /\ progress[p] \in Deleting \cup {"deleted"} /\ p \in techUsers => p \in forced

\* Creating and deleting a pipeline keeps what each stage has taken care of.
LEMMA ManageCleans ==
    ASSUME TypeOK, CleanInv, NEW p \in Pipelines, Manage(p)
    PROVE  CleanInv'
<1> USE DEF TypeOK, CleanInv, Become, Deleting
<1>1. CASE AddTechUser(p) \/ AddTechUserFails(p) \/ RejectNightly(p)
  BY <1>1 DEF AddTechUser, AddTechUserFails, RejectNightly
<1>2. CASE CreateCronjob(p) \/ StorePipeline(p)
  BY <1>2 DEF CreateCronjob, StorePipeline
<1>3. CASE CreatePipelineFails(p) \/ DeletePipelineFails(p)
  BY <1>3 DEF CreatePipelineFails, DeletePipelineFails
<1>4. CASE RemoveTechUser(p) \/ RemoveTechUserFails(p)
  BY <1>4 DEF RemoveTechUser, RemoveTechUserFails
<1>5. CASE DeleteCronjob(p) \/ DeletePipelineRow(p)
  BY <1>5 DEF DeleteCronjob, DeletePipelineRow
<1> QED BY <1>1, <1>2, <1>3, <1>4, <1>5 DEF Manage

\* A deleted pipeline has no cron job, and no technical user unless its deletion was
\* forced (core.delete_pipeline), whatever failed or crashed in earlier attempts.
THEOREM DeletedPipelinesAreClean == Spec => []DeletedPipelineClean
<1>1. Init => CleanInv
  BY DEF Init, CleanInv, Deleting
<1>2. TypeOK /\ CleanInv /\ [Next]_vars => CleanInv'
  <2> SUFFICES ASSUME TypeOK, CleanInv, [Next]_vars PROVE CleanInv'
    OBVIOUS
  <2>1. ASSUME UNCHANGED pipelineVars PROVE CleanInv'
    BY <2>1 DEF CleanInv
  <2>2. ASSUME NEW w \in Schedulers, Crash(w) PROVE CleanInv'
    BY <2>2 DEF Crash, CleanInv, TypeOK, Deleting, Creating
  <2>3. ASSUME NEW w \in Schedulers, Schedule(w) PROVE UNCHANGED pipelineVars
    BY <2>3 DEF Schedule, Tick, PickPending, Visit, VisitDeleted, CreateJob, RejectJob, CreateJobFails,
       StoreJob, ScheduleDone, Refresh, PickActive, Poll, PollFails, FinishJob, FinishJobFails,
       StoreStatus, StoreDeleted, StoreFails, RefreshDone
  <2>4. ASSUME NEW r \in Runs, TriggerRun(r) \/ TimeoutPasses(r) PROVE UNCHANGED pipelineVars
    BY <2>4 DEF TriggerRun, TimeoutPasses
  <2>5. ASSUME NEW j \in Jobs, (\E s \in JobStates : JobProceeds(j, s)) \/ JobExpires(j)
        PROVE  UNCHANGED pipelineVars
    BY <2>5 DEF JobProceeds, JobExpires
  <2>6. CASE UNCHANGED vars
    BY <2>1, <2>6 DEF vars
  <2> QED BY <2>1, <2>2, <2>3, <2>4, <2>5, <2>6, ManageCleans DEF Next
<1>3. CleanInv => DeletedPipelineClean
  BY DEF CleanInv, DeletedPipelineClean
<1> QED BY <1>1, <1>2, <1>3, TypeCorrect, PTL DEF Spec

-----------------------------------------------------------------------------
(* Jobs are watched *)

\* The scheduler is about to store that job j runs its run.
AboutToStore(w, j) ==
    worker[w].step = "storeJob" /\ worker[w].next = "scheduled"
       /\ worker[w].run = job[j].run /\ worker[w].job = j

Watched(j) ==
    \/ status[job[j].run] = "deleted"
    \/ status[job[j].run] \in Active /\ reference[job[j].run] = j
    \/ \E w \in Schedulers : AboutToStore(w, j)

\* The job of a run that has ended is gone before the end is stored.
WatchedInv ==
    /\ \A j \in present : job[j].run \in Runs
    /\ faults = 0 /\ crashes = 0 =>
          /\ \A j \in present : Watched(j)
          /\ \A w \in Schedulers :
                worker[w].step = "storeStatus" /\ worker[w].next \in Final => worker[w].job \notin present

\* Steps that create no job.
LEMMA StillWatched ==
    ASSUME TypeOK, WatchedInv,
           \A j \in Jobs : job'[j].run = job[j].run,
           present' \subseteq present,
           faults' = 0 /\ crashes' = 0 =>
              /\ faults = 0 /\ crashes = 0
              /\ \A j \in present, w \in Schedulers : AboutToStore(w, j) =>
                    \/ worker'[w] = worker[w]
                    \/ status'[job[j].run] = "deleted"
                    \/ status'[job[j].run] \in Active /\ reference'[job[j].run] = j
              /\ \A w \in Schedulers :
                    worker'[w].step = "storeStatus" /\ worker'[w].next \in Final =>
                       worker'[w] = worker[w] \/ worker'[w].job \notin present'
              /\ \A r \in Runs :
                    \/ status'[r] = status[r] /\ reference'[r] = reference[r]
                    \/ status'[r] = "deleted"
                    \/ status[r] \notin Active \cup {"deleted"}
                    \/ status[r] \in Active /\ reference[r] \notin present'
    PROVE  WatchedInv'
<1>1. \A j \in present' : j \in present /\ job'[j].run = job[j].run /\ job[j].run \in Runs
  BY DEF WatchedInv, TypeOK
<1>2. ASSUME faults' = 0, crashes' = 0, NEW j \in present' PROVE Watched(j)'
  <2> DEFINE r == job[j].run
  <2>1. Watched(j) /\ j \in present /\ r \in Runs /\ job'[j].run = r
    BY <1>1, <1>2 DEF WatchedInv
  <2>2. CASE status[r] = "deleted"
    <3>1. status'[r] = "deleted"
      BY <1>2, <2>1, <2>2 DEF Active
    <3> QED BY <2>1, <3>1 DEF Watched
  <2>3. CASE status[r] \in Active /\ reference[r] = j
    <3>1. status'[r] = "deleted" \/ (status'[r] \in Active /\ reference'[r] = j)
      BY <1>2, <2>1, <2>3
    <3> QED BY <2>1, <3>1 DEF Watched, Active
  <2>4. ASSUME NEW w \in Schedulers, AboutToStore(w, j) PROVE Watched(j)'
    <3>1. CASE worker'[w] = worker[w]
      BY <2>1, <2>4, <3>1 DEF Watched, AboutToStore
    <3>2. CASE worker'[w] # worker[w]
      <4>1. status'[r] = "deleted" \/ (status'[r] \in Active /\ reference'[r] = j)
        BY <1>2, <2>1, <2>4, <3>2
      <4> QED BY <2>1, <4>1 DEF Watched, Active
    <3> QED BY <3>1, <3>2
  <2> QED BY <2>1, <2>2, <2>3, <2>4 DEF Watched
<1>3. ASSUME faults' = 0, crashes' = 0, NEW w \in Schedulers,
             worker'[w].step = "storeStatus", worker'[w].next \in Final
      PROVE  worker'[w].job \notin present'
  BY <1>3 DEF WatchedInv
<1> QED BY <1>1, <1>2, <1>3 DEF WatchedInv, Final

\* A failing call counts.
LEMMA FaultCounts ==
    ASSUME TypeOK, Fault
    PROVE  faults' # 0
BY DEF TypeOK, Fault

\* Only the scheduler that moves has a new record.
LEMMA OthersRest ==
    ASSUME TypeOK, NEW w \in Schedulers, NEW work, Do(w, work)
    PROVE  /\ worker'[w] = work
           /\ \A v \in Schedulers \ {w} : worker'[v] = worker[v]
BY DEF TypeOK, Do

\* Steps of the scheduler that leave the cluster and the rows alone.
LEMMA SchedulerWatches ==
    ASSUME TypeOK, WatchedInv, NEW w \in Schedulers, NEW work, Do(w, work),
           UNCHANGED <<status, reference, job, present, crashes>>,
           faults' = faults \/ Fault,
           faults' # 0 \/ worker[w].step # "storeJob" \/ status[worker[w].run] = "deleted",
           faults' # 0 \/ work.step # "storeStatus" \/ work.next \notin Final
    PROVE  WatchedInv'
<1>1. /\ worker'[w] = work
      /\ \A v \in Schedulers \ {w} : worker'[v] = worker[v]
  BY OthersRest
<1>2. faults' = 0 => faults = 0
  BY FaultCounts
<1> QED BY <1>1, <1>2, StillWatched DEF AboutToStore

\* A job that is created is in the hands of the scheduler that created it.
LEMMA JobIsWatched ==
    ASSUME OneScheduler, TypeOK, PipelinesInv, WatchedInv, NEW w \in Schedulers,
           CreateJob(w) \/ CreateJobFails(w)
    PROVE  WatchedInv'
<1>1. worker[w].step = "create" /\ worker[w].run \in Runs /\ worker[w] \in Works
  BY DEF CreateJob, CreateJobFails, PipelinesInv, ScheduleInv, Target, TypeOK
<1>2. ASSUME NEW j \in Jobs, NewJob(j, worker[w].run)
      PROVE  /\ present' = present \cup {j} /\ job'[j].run = worker[w].run
             /\ \A i \in Jobs \ {j} : job'[i] = job[i]
  BY <1>2 DEF NewJob, TypeOK
<1>3. CASE CreateJob(w)
  <2>1. PICK j \in Jobs : NewJob(j, worker[w].run) /\ Scheduled(w, "scheduled", j)
    BY <1>3 DEF CreateJob, Target
  <2> DEFINE work == [worker[w] EXCEPT !.step = "storeJob", !.next = "scheduled", !.job = j]
  <2>2. /\ work.step = "storeJob" /\ work.next = "scheduled"
        /\ work.run = worker[w].run /\ work.job = j
    BY <1>1 DEF Works
  <2>3. worker'[w] = work /\ \A v \in Schedulers : v = w
    BY <2>1, OthersRest DEF Scheduled, OneScheduler
  <2> HIDE DEF work
  <2>4. UNCHANGED <<status, reference, faults, crashes>>
    BY <1>3 DEF CreateJob
  <2>5. \A i \in present' : job'[i].run \in Runs
    BY <1>1, <1>2, <2>1 DEF WatchedInv, TypeOK
  <2>6. Watched(j)'
    BY <1>2, <2>1, <2>2, <2>3 DEF Watched, AboutToStore
  <2>7. ASSUME faults' = 0, crashes' = 0, NEW i \in present', i # j PROVE Watched(i)'
    <3>1. i \in present /\ job'[i] = job[i]
      BY <1>2, <2>1, <2>7 DEF TypeOK
    <3>2. Watched(i) /\ \A v \in Schedulers : ~AboutToStore(v, i)
      BY <1>1, <2>3, <2>4, <2>7, <3>1 DEF WatchedInv, AboutToStore
    <3> QED BY <2>4, <3>1, <3>2 DEF Watched, Active
  <2> QED BY <2>2, <2>3, <2>5, <2>6, <2>7 DEF WatchedInv
<1>4. CASE CreateJobFails(w)
  <2>1. faults' # 0
    BY <1>4, FaultCounts DEF CreateJobFails
  <2>2. \A i \in present' : job'[i].run \in Runs
    <3>1. CASE UNCHANGED clusterVars
      BY <3>1 DEF WatchedInv
    <3>2. ASSUME NEW j \in Jobs, NewJob(j, worker[w].run) PROVE \A i \in present' : job'[i].run \in Runs
      BY <1>1, <1>2, <3>2 DEF WatchedInv, TypeOK
    <3> QED BY <1>4, <3>1, <3>2 DEF CreateJobFails, Target
  <2> QED BY <2>1, <2>2 DEF WatchedInv
<1> QED BY <1>3, <1>4

\* Storing a job makes its run refer to it.
LEMMA StoredIsWatched ==
    ASSUME OneScheduler, TypeOK, PipelinesInv, WatchedInv, NEW w \in Schedulers,
           StoreJob(w)
    PROVE  WatchedInv'
<1> DEFINE r == worker[w].run
           work == [NoWork EXCEPT !.step = "schedule", !.queue = worker[w].queue]
<1>1. /\ r \in Runs /\ worker[w].seen = "pending" /\ status[r] = "pending"
      /\ worker[w] \in Works /\ worker[w].step = "storeJob"
      /\ worker[w].next \in {"scheduled", "unknown"}
  BY DEF StoreJob, PipelinesInv, ScheduleInv, Target, TypeOK
<1>2. /\ status' = [status EXCEPT ![r] = worker[w].next]
      /\ reference' = IF worker[w].job # NoJob THEN [reference EXCEPT ![r] = worker[w].job] ELSE reference
      /\ UNCHANGED <<job, present, faults, crashes>> /\ Do(w, work)
  BY <1>1 DEF StoreJob, WriteStatus, Changed, Target, BackTo
<1>3. \A v \in Schedulers : worker'[v].step = "schedule"
  <2>1. work.step = "schedule"
    BY DEF NoWork
  <2>2. worker'[w] = work
    BY <1>2, OthersRest
  <2> QED BY <2>1, <2>2 DEF OneScheduler
<1> HIDE DEF r, work
<1>4. \A q \in Runs \ {r} : status'[q] = status[q] /\ reference'[q] = reference[q]
  BY <1>1, <1>2 DEF TypeOK
<1>5. ASSUME NEW j \in present, NEW v \in Schedulers, AboutToStore(v, j)
      PROVE  status'[job[j].run] \in Active /\ reference'[job[j].run] = j
  <2>1. v = w /\ j \in Jobs
    BY DEF OneScheduler, TypeOK
  <2>2. worker[w].next = "scheduled" /\ job[j].run = r /\ worker[w].job = j /\ j # NoJob
    BY <1>5, <2>1, PipelinesAssumption DEF AboutToStore, r
  <2> QED BY <1>1, <1>2, <2>2 DEF TypeOK, Active
<1>6. status[r] \notin Active \cup {"deleted"}
  BY <1>1 DEF Active
<1> QED BY <1>1, <1>2, <1>3, <1>4, <1>5, <1>6, StillWatched

\* The end of a run is stored when its job is gone.
LEMMA EndIsWatched ==
    ASSUME OneScheduler, TypeOK, PipelinesInv, WatchedInv, NEW w \in Schedulers,
           StoreStatus(w)
    PROVE  WatchedInv'
<1> DEFINE r == worker[w].run
           work == [NoWork EXCEPT !.step = "refresh", !.queue = worker[w].queue]
<1>1. /\ r \in Runs /\ worker[w].seen \in Active /\ status[r] = worker[w].seen
      /\ reference[r] = worker[w].job /\ worker[w].step = "storeStatus"
      /\ worker[w].next \in Active \cup Final
  BY DEF StoreStatus, PipelinesInv, RefreshInv, Target
<1>2. /\ status' = [status EXCEPT ![r] = worker[w].next]
      /\ UNCHANGED <<reference, job, present, faults, crashes>> /\ Do(w, work)
  BY <1>1 DEF StoreStatus, WriteStatus, Changed, Target, BackTo, TypeOK
<1>3. \A v \in Schedulers : worker'[v].step = "refresh" /\ worker[v].step = "storeStatus"
  BY <1>1, <1>2, OthersRest DEF OneScheduler, NoWork
<1> HIDE DEF r, work
<1>4. \A q \in Runs \ {r} : status'[q] = status[q] /\ reference'[q] = reference[q]
  BY <1>1, <1>2 DEF TypeOK
<1>5. status'[r] = worker[w].next
  BY <1>1, <1>2 DEF TypeOK
<1>6. CASE worker[w].next \in Active
  <2>1. ASSUME NEW j \in present, faults = 0, crashes = 0 PROVE Watched(j)'
    <3>1. job[j].run \in Runs /\ Watched(j)
      BY <2>1 DEF WatchedInv
    <3>2. ~ \E v \in Schedulers : AboutToStore(v, j)
      BY <1>3 DEF AboutToStore
    <3>3. CASE job[j].run = r
      BY <1>1, <1>2, <1>5, <1>6, <3>1, <3>2, <3>3 DEF Watched, Active
    <3>4. CASE job[j].run # r
      BY <1>2, <1>4, <3>1, <3>2, <3>4 DEF Watched, Active
    <3> QED BY <3>3, <3>4
  <2> QED BY <1>2, <1>3, <2>1 DEF WatchedInv
<1>7. CASE worker[w].next \in Final
  <2>1. faults = 0 /\ crashes = 0 => reference[r] \notin present
    BY <1>1, <1>7 DEF WatchedInv
  <2> QED BY <1>1, <1>2, <1>3, <1>4, <2>1, StillWatched DEF AboutToStore
<1> QED BY <1>1, <1>6, <1>7

\* The job is deleted before the end is stored.
LEMMA FinishedIsWatched ==
    ASSUME OneScheduler, TypeOK, WatchedInv, NEW w \in Schedulers,
           FinishJob(w)
    PROVE  WatchedInv'
<1> DEFINE work == [worker[w] EXCEPT !.step = "storeStatus"]
<1>1. work.job = worker[w].job /\ worker[w].step = "finish" /\ Do(w, work)
  BY DEF FinishJob, Finished, TypeOK, Works
<1>2. present' = present \ {worker[w].job} /\ UNCHANGED <<status, reference, job, faults, crashes>>
  BY DEF FinishJob
<1>3. \A v \in Schedulers : worker'[v] = work /\ worker[v].step = "finish"
  BY <1>1, OthersRest DEF OneScheduler
<1> HIDE DEF work
<1>4. \A v \in Schedulers : worker'[v].job \notin present'
  BY <1>1, <1>2, <1>3
<1> QED BY <1>2, <1>3, <1>4, StillWatched DEF AboutToStore

\* Every other step of the scheduler leaves the rows and the cluster alone.
LEMMA ScheduleWatches ==
    ASSUME OneScheduler, TypeOK, PipelinesInv, WatchedInv, NEW w \in Schedulers, Schedule(w)
    PROVE  WatchedInv'
<1>1. worker[w] \in Works
  BY DEF TypeOK
<1>2. NoWork.step = "idle"
  BY DEF NoWork
<1>3. CASE Tick(w)
  <2> DEFINE work == [NoWork EXCEPT !.step = "schedule", !.queue = {r \in Runs : status[r] = "pending"}]
  <2>1. work.step = "schedule"
    BY DEF NoWork
  <2>2. Do(w, work)
    BY <1>3 DEF Tick
  <2> HIDE DEF work
  <2> QED BY <1>3, <2>1, <2>2, SchedulerWatches DEF Tick
<1>11. CASE RefreshDone(w) \/ VisitDeleted(w)
  BY <1>2, <1>11, SchedulerWatches DEF RefreshDone, VisitDeleted, AbortTick
<1>4. ASSUME NEW from \in {"schedule", "refresh"}, NEW to \in {"create", "poll"}, Visit(w, from, to)
      PROVE  WatchedInv'
  <2> DEFINE work(r) == [worker[w] EXCEPT !.step = to, !.queue = @ \ {r}, !.run = r,
                                          !.seen = status[r], !.job = reference[r]]
  <2>1. PICK r \in worker[w].queue : Do(w, work(r))
    BY <1>4 DEF Visit
  <2>2. work(r).step = to
    BY <1>1 DEF Works
  <2>3. worker[w].step = from
    BY <1>4 DEF Visit
  <2> HIDE DEF work
  <2> QED BY <1>4, <2>1, <2>2, <2>3, SchedulerWatches DEF Visit
<1>5. CASE RejectJob(w)
  <2> DEFINE work == [worker[w] EXCEPT !.step = "storeJob", !.next = "unknown", !.job = NoJob]
  <2>1. work.step = "storeJob"
    BY <1>1 DEF Works
  <2>2. Do(w, work)
    BY <1>5 DEF RejectJob, Scheduled
  <2> HIDE DEF work
  <2> QED BY <1>5, <2>1, <2>2, SchedulerWatches DEF RejectJob
<1>6. CASE ScheduleDone(w)
  <2> DEFINE work == [NoWork EXCEPT !.step = "refresh", !.queue = {r \in Runs : status[r] \in Active}]
  <2>1. work.step = "refresh"
    BY DEF NoWork
  <2>2. Do(w, work)
    BY <1>6 DEF ScheduleDone, Refresh
  <2> HIDE DEF work
  <2> QED BY <1>6, <2>1, <2>2, SchedulerWatches DEF ScheduleDone, Refresh
<1>7. CASE Poll(w) \/ PollFails(w)
  <2>1. PICK next : Polled(w, next)
    BY <1>7 DEF Poll, PollFails
  <2>2. PICK work : Do(w, work) /\ (work.step = "storeStatus" => work.next \notin Final)
    <3> DEFINE work == [worker[w] EXCEPT !.step = IF next \in Final THEN "finish" ELSE "storeStatus",
                                         !.next = next]
    <3>1. work.step = (IF next \in Final THEN "finish" ELSE "storeStatus") /\ work.next = next
      BY <1>1 DEF Works
    <3>2. Do(w, work)
      BY <2>1 DEF Polled
    <3> HIDE DEF work
    <3> QED BY <3>1, <3>2
  <2> QED BY <1>7, <2>2, SchedulerWatches DEF Poll, PollFails, Fault
<1>8. CASE FinishJobFails(w)
  <2>1. PICK work : Do(w, work)
    BY <1>8 DEF FinishJobFails, Finished
  <2>2. faults' # 0
    BY <1>8, FaultCounts DEF FinishJobFails
  <2> QED BY <1>8, <2>1, <2>2, SchedulerWatches DEF FinishJobFails, Fault
<1>9. CASE StoreFails(w)
  <2>1. faults' # 0
    BY <1>9, FaultCounts DEF StoreFails
  <2> QED BY <1>9, <2>1, SchedulerWatches DEF StoreFails, AbortTick, Fault
<1>10. CASE StoreDeleted(w)
  <2> DEFINE work == [NoWork EXCEPT !.step = "refresh", !.queue = worker[w].queue]
  <2>1. work.step = "refresh"
    BY DEF NoWork
  <2>2. Do(w, NoWork) \/ Do(w, work)
    BY <1>10 DEF StoreDeleted, AbortTick, BackTo
  <2> HIDE DEF work
  <2> QED BY <1>2, <1>10, <2>1, <2>2, SchedulerWatches DEF StoreDeleted, Target
<1>12. CASE PickPending(w) \/ PickActive(w)
  BY <1>4, <1>12 DEF PickPending, PickActive
<1> QED BY <1>3, <1>5, <1>6, <1>7, <1>8, <1>9, <1>10, <1>11, <1>12, JobIsWatched, StoredIsWatched,
           EndIsWatched, FinishedIsWatched DEF Schedule

\* Requests, jobs, time and crashes.
LEMMA OthersWatch ==
    ASSUME TypeOK, WatchedInv,
           \/ \E p \in Pipelines : Manage(p)
           \/ \E r \in Runs : TriggerRun(r) \/ TimeoutPasses(r)
           \/ \E j \in Jobs : (\E s \in JobStates : JobProceeds(j, s)) \/ JobExpires(j)
           \/ \E w \in Schedulers : Crash(w)
    PROVE  WatchedInv'
<1>1. ASSUME UNCHANGED <<job, present, worker, crashes>>, faults' = faults \/ Fault,
             \A r \in Runs :
                \/ status'[r] = status[r] /\ reference'[r] = reference[r]
                \/ status'[r] = "deleted"
                \/ status[r] \notin Active \cup {"deleted"}
      PROVE  WatchedInv'
  <2>1. faults' = 0 => faults = 0
    BY <1>1, FaultCounts
  <2> QED BY <1>1, <2>1, StillWatched
<1>2. ASSUME NEW p \in Pipelines, Manage(p) PROVE WatchedInv'
  <2>1. CASE DeletePipelineRow(p)
    <3>1. \A r \in Runs :
             \/ status'[r] = status[r] /\ reference'[r] = reference[r]
             \/ status'[r] = "deleted"
             \/ status[r] \notin Active \cup {"deleted"}
      BY <2>1 DEF DeletePipelineRow, Active
    <3> QED BY <1>1, <2>1, <3>1 DEF DeletePipelineRow
  <2>2. CASE ~DeletePipelineRow(p)
    BY <1>1, <1>2, <2>2 DEF Manage, AddTechUser, AddTechUserFails, RejectNightly, CreateCronjob,
       StorePipeline, CreatePipelineFails, RemoveTechUser, RemoveTechUserFails, DeleteCronjob,
       DeletePipelineFails, Fault
  <2> QED BY <2>1, <2>2
<1>3. ASSUME NEW r \in Runs, TriggerRun(r) \/ TimeoutPasses(r) PROVE WatchedInv'
  BY <1>1, <1>3 DEF TriggerRun, TimeoutPasses, TypeOK, Active
<1>4. ASSUME NEW j \in Jobs, (\E s \in JobStates : JobProceeds(j, s)) \/ JobExpires(j)
      PROVE  WatchedInv'
  <2>1. \A i \in Jobs : job'[i].run = job[i].run
    BY <1>4 DEF JobProceeds, JobExpires, TypeOK
  <2>2. present' \subseteq present /\ UNCHANGED <<status, reference, worker, faults, crashes>>
    BY <1>4 DEF JobProceeds, JobExpires
  <2> QED BY <2>1, <2>2, StillWatched
<1>5. ASSUME NEW w \in Schedulers, Crash(w) PROVE WatchedInv'
  <2>1. crashes' # 0
    BY <1>5 DEF Crash, TypeOK
  <2> QED BY <1>5, <2>1 DEF Crash, WatchedInv
<1> QED BY <1>2, <1>3, <1>4, <1>5

\* With one scheduler and as long as nothing fails, every job in the cluster belongs to
\* an active run that refers to it, to a deleted one, or is about to be stored
\* (_schedule_pending_jobs, _refresh_and_trigger_pipeline_jobs).
THEOREM JobsAreWatched == OneScheduler /\ Spec => []JobsWatched
<1> SUFFICES ASSUME OneScheduler PROVE Spec => []JobsWatched
  OBVIOUS
<1>1. Init => WatchedInv
  BY DEF Init, WatchedInv, NoWork
<1>2. TypeOK /\ PipelinesInv /\ WatchedInv /\ [Next]_vars => WatchedInv'
  <2> SUFFICES ASSUME TypeOK, PipelinesInv, WatchedInv, [Next]_vars PROVE WatchedInv'
    OBVIOUS
  <2>1. CASE UNCHANGED vars
    BY <2>1, StillWatched DEF vars
  <2> QED BY <2>1, ScheduleWatches, OthersWatch DEF Next
<1>3. WatchedInv => JobsWatched
  BY DEF WatchedInv, Watched, AboutToStore, JobsWatched, Target
<1>4. Spec => []PipelinesInv
  BY PipelinesInvariant
<1> QED BY <1>1, <1>2, <1>3, <1>4, TypeCorrect, PTL DEF Spec

-----------------------------------------------------------------------------
(* Any number of schedulers: whose a job is, and where a run has got to *)

Begun(s) == s \notin {"absent", "pending"}

\* What a row or a scheduler holds as the job of run r was created for r.
OwnJob(jobs, j, r) == j # NoJob => j \in Jobs /\ jobs[j].run = r

\* A run that has ended in status s has a job that ended this way.
Outcome(jobs, s, r) ==
    /\ s = "success" => \E j \in Jobs : jobs[j].run = r /\ jobs[j].state = "succeeded"
    /\ s = "failure" => \E j \in Jobs : jobs[j].run = r /\ jobs[j].state = "failed"

\* What a scheduler holds of its run may be outdated, but never of another run.
OwnWork(k, statuses, jobs) ==
    /\ k.run \notin k.queue
    /\ \A r \in k.queue :
          /\ statuses[r] # "absent"
          /\ k.step \in {"refresh", "poll", "finish", "storeStatus"} => Begun(statuses[r])
    /\ k.step \in {"create", "storeJob", "poll", "finish", "storeStatus"} =>
          /\ k.run \in Runs /\ statuses[k.run] # "absent"
          /\ OwnJob(jobs, k.job, k.run) /\ Outcome(jobs, k.seen, k.run)
    /\ k.step \in {"create", "storeJob"} /\ statuses[k.run] = "pending" => k.seen = "pending"
    /\ k.step = "storeJob" => k.next \in {"scheduled", "unknown"}
    /\ k.step \in {"poll", "finish", "storeStatus"} => Begun(statuses[k.run]) /\ Begun(k.seen)
    /\ k.step \in {"finish", "storeStatus"} => Begun(k.next) /\ Outcome(jobs, k.next, k.run)

SharedInv ==
    /\ \A j \in Jobs : job[j].state = "unused" <=> job[j].run = NoRun
    /\ \A r \in Runs : OwnJob(job, reference[r], r) /\ Outcome(job, status[r], r)
    /\ \A w \in Schedulers : OwnWork(worker[w], status, job)

\* A run never goes back to pending, and a deleted one stays deleted.
Advances(old, new) ==
    \A r \in Runs :
        /\ old[r] # "absent" => new[r] # "absent"
        /\ Begun(old[r]) => Begun(new[r])
        /\ old[r] = "deleted" => new[r] = "deleted"

\* A job keeps the run it was created for, and how it ended.
JobsKept(old, new) ==
    \A j \in Jobs :
        /\ old[j].run # NoRun => new[j].run = old[j].run
        /\ old[j].run # NoRun /\ old[j].state \in {"succeeded", "failed"} => new[j].state = old[j].state

\* What is said of the jobs of a run stays true.
LEMMA OwnJobsStay ==
    ASSUME NEW jobs, NEW after, JobsKept(jobs, after), NEW r \in Runs, NEW j, NEW s
    PROVE  /\ OwnJob(jobs, j, r) => OwnJob(after, j, r)
           /\ Outcome(jobs, s, r) => Outcome(after, s, r)
<1>1. r # NoRun
  BY PipelinesAssumption
<1> QED BY <1>1 DEF JobsKept, OwnJob, Outcome

\* What a scheduler holds stays its own while others go on.
LEMMA OwnWorkStays ==
    ASSUME NEW jobs, NEW after, JobsKept(jobs, after), NEW old, NEW new, Advances(old, new),
           NEW k \in Works, OwnWork(k, old, jobs)
    PROVE  OwnWork(k, new, after)
<1>1. k.queue \subseteq Runs
  BY DEF Works
<1>2. ASSUME k.step \in {"create", "storeJob", "poll", "finish", "storeStatus"}
      PROVE  /\ k.run \in Runs /\ new[k.run] # "absent"
             /\ OwnJob(after, k.job, k.run) /\ Outcome(after, k.seen, k.run)
  BY <1>2, OwnJobsStay DEF OwnWork, Advances
<1>3. ASSUME k.step \in {"finish", "storeStatus"}
      PROVE  Begun(k.next) /\ Outcome(after, k.next, k.run)
  BY <1>3, OwnJobsStay DEF OwnWork
<1>4. ASSUME k.step \in {"create", "storeJob"}, new[k.run] = "pending"
      PROVE  k.seen = "pending"
  BY <1>4 DEF OwnWork, Advances, Begun
<1>5. ASSUME k.step \in {"poll", "finish", "storeStatus"}
      PROVE  Begun(new[k.run]) /\ Begun(k.seen)
  BY <1>5 DEF OwnWork, Advances
<1>6. ASSUME NEW r \in k.queue
      PROVE  /\ new[r] # "absent"
             /\ k.step \in {"refresh", "poll", "finish", "storeStatus"} => Begun(new[r])
  BY <1>1, <1>6 DEF OwnWork, Advances
<1> QED BY <1>2, <1>3, <1>4, <1>5, <1>6 DEF OwnWork

\* Every step keeps the jobs.
LEMMA StepKeepsJobs ==
    ASSUME TypeOK, SharedInv, [Next]_vars
    PROVE  JobsKept(job, job')
<1>1. ASSUME NEW j \in Jobs, NEW r, NewJob(j, r) PROVE JobsKept(job, job')
  BY <1>1 DEF NewJob, JobsKept, TypeOK, SharedInv
<1>2. ASSUME NEW j \in Jobs, NEW s \in JobStates, JobProceeds(j, s) PROVE JobsKept(job, job')
  BY <1>2 DEF JobProceeds, JobsKept, TypeOK
<1>3. UNCHANGED job => JobsKept(job, job')
  BY DEF JobsKept
<1>4. ASSUME NEW p \in Pipelines, Manage(p) PROVE UNCHANGED job
  BY <1>4 DEF Manage, AddTechUser, AddTechUserFails, RejectNightly, CreateCronjob,
     StorePipeline, CreatePipelineFails, RemoveTechUser, RemoveTechUserFails, DeleteCronjob,
     DeletePipelineRow, DeletePipelineFails
<1>5. ASSUME NEW w \in Schedulers, Schedule(w) \/ Crash(w)
      PROVE  UNCHANGED job \/ \E j \in Jobs : NewJob(j, Target(w))
  BY <1>5 DEF Schedule, Tick, PickPending, Visit, VisitDeleted, CreateJob, RejectJob,
     CreateJobFails, StoreJob, ScheduleDone, Refresh, PickActive, Poll, PollFails, FinishJob,
     FinishJobFails, StoreStatus, StoreDeleted, StoreFails, RefreshDone, Crash
<1>6. (\E r \in Runs : TriggerRun(r) \/ TimeoutPasses(r)) \/ (\E j \in Jobs : JobExpires(j)) \/ UNCHANGED vars
      => UNCHANGED job
  BY DEF TriggerRun, TimeoutPasses, JobExpires, vars
<1> QED BY <1>1, <1>2, <1>3, <1>4, <1>5, <1>6 DEF Next

\* Which steps write the status of a run.
LEMMA StatusWriters ==
    ASSUME NEW w \in Schedulers, Schedule(w) \/ Crash(w), ~ StoreJob(w)
    PROVE  UNCHANGED reference /\ (StoreStatus(w) \/ UNCHANGED status)
BY DEF Schedule, Tick, PickPending, Visit, VisitDeleted, CreateJob, RejectJob,
   CreateJobFails, ScheduleDone, Refresh, PickActive, Poll, PollFails, FinishJob,
   FinishJobFails, StoreStatus, StoreDeleted, StoreFails, RefreshDone, Crash

\* A scheduler writes what it has found out, even over what another one has stored, but
\* never over a deleted row.
LEMMA WriteAdvances ==
    ASSUME TypeOK, SharedInv, NEW w \in Schedulers, StoreJob(w) \/ StoreStatus(w)
    PROVE  /\ Target(w) \in Runs /\ status[Target(w)] \notin {"absent", "deleted"}
           /\ Begun(worker[w].next) /\ Outcome(job, worker[w].next, Target(w))
           /\ status' = status \/ status' = [status EXCEPT ![Target(w)] = worker[w].next]
           /\ Advances(status, status') /\ Begun(status'[Target(w)])
<1>1. OwnWork(worker[w], status, job)
  BY DEF SharedInv
<1>2. worker[w].step \in {"storeJob", "storeStatus"} /\ WriteStatus(w) /\ status[Target(w)] # "deleted"
  BY DEF StoreJob, StoreStatus
<1>3. Target(w) \in Runs /\ status[Target(w)] # "absent"
  BY <1>1, <1>2 DEF OwnWork, Target
<1>4. Begun(worker[w].next) /\ Outcome(job, worker[w].next, Target(w))
  BY <1>1, <1>2 DEF OwnWork, Target, Begun, Outcome
<1>5. status' = status \/ status' = [status EXCEPT ![Target(w)] = worker[w].next]
  BY <1>2 DEF WriteStatus
<1>6. Advances(status, status')
  BY <1>2, <1>3, <1>4, <1>5 DEF Advances, Begun, TypeOK
<1>7. Begun(status'[Target(w)])
  <2>1. CASE status' = [status EXCEPT ![Target(w)] = worker[w].next]
    BY <1>3, <1>4, <2>1 DEF TypeOK
  <2>2. CASE worker[w].next = worker[w].seen /\ status' = status
    <3>1. worker[w].step = "storeStatus" \/ status[Target(w)] # "pending"
      BY <1>1, <1>2, <1>4, <2>2 DEF OwnWork, Target, Begun
    <3> QED BY <1>1, <1>2, <1>3, <2>2, <3>1 DEF OwnWork, Target, Begun
  <2> QED BY <1>2, <2>1, <2>2 DEF WriteStatus, Changed
<1> QED BY <1>2, <1>3, <1>4, <1>5, <1>6, <1>7

\* No step sets a run back.
LEMMA StepAdvances ==
    ASSUME TypeOK, SharedInv, [Next]_vars
    PROVE  Advances(status, status')
<1>1. UNCHANGED status => Advances(status, status')
  BY DEF Advances
<1>2. ASSUME NEW p \in Pipelines, Manage(p) PROVE Advances(status, status')
  <2>1. CASE DeletePipelineRow(p)
    BY <2>1 DEF DeletePipelineRow, Advances, Begun
  <2>2. CASE ~DeletePipelineRow(p)
    BY <1>1, <1>2, <2>2 DEF Manage, AddTechUser, AddTechUserFails, RejectNightly, CreateCronjob,
       StorePipeline, CreatePipelineFails, RemoveTechUser, RemoveTechUserFails, DeleteCronjob,
       DeletePipelineFails
  <2> QED BY <2>1, <2>2
<1>3. ASSUME NEW r \in Runs, TriggerRun(r) \/ TimeoutPasses(r) PROVE Advances(status, status')
  BY <1>1, <1>3 DEF TriggerRun, TimeoutPasses, Advances, Begun, TypeOK
<1>4. (\E j \in Jobs : (\E s \in JobStates : JobProceeds(j, s)) \/ JobExpires(j)) \/ UNCHANGED vars
      => UNCHANGED status
  BY DEF JobProceeds, JobExpires, vars
<1> QED BY <1>1, <1>2, <1>3, <1>4, StatusWriters, WriteAdvances DEF Next

\* What a scheduler takes up is the run's own.
LEMMA VisitsOwn ==
    ASSUME TypeOK, SharedInv, NEW w \in Schedulers, NEW from, NEW to, Visit(w, from, to),
           <<from, to>> \in {<<"schedule", "create">>, <<"refresh", "poll">>}
    PROVE  OwnWork(worker'[w], status', job')
<1> DEFINE k == worker[w]
           work(r) == [k EXCEPT !.step = to, !.queue = @ \ {r}, !.run = r,
                                !.seen = status[r], !.job = reference[r]]
<1>1. PICK r \in k.queue : status[r] # "deleted" /\ Do(w, work(r))
  BY DEF Visit
<1>2. k \in Works /\ OwnWork(k, status, job) /\ k.step = from
  BY DEF TypeOK, SharedInv, Visit
<1>3. /\ work(r).step = to /\ work(r).queue = k.queue \ {r} /\ work(r).run = r
      /\ work(r).seen = status[r] /\ work(r).job = reference[r]
  BY <1>2 DEF Works
<1>4. r \in Runs /\ k.queue \subseteq Runs
  BY <1>2 DEF Works
<1>5. OwnJob(job, reference[r], r) /\ Outcome(job, status[r], r)
  BY <1>4 DEF SharedInv
<1>6. worker'[w] = work(r) /\ UNCHANGED <<status, job>>
  BY <1>1 DEF Do, TypeOK, Visit
<1>7. /\ status[r] # "absent" /\ \A q \in k.queue : status[q] # "absent"
      /\ from = "refresh" => \A q \in k.queue : Begun(status[q])
  BY <1>2 DEF OwnWork
<1> HIDE DEF work
<1>8. OwnWork(work(r), status, job)
  <2>1. CASE to = "create"
    BY <1>3, <1>4, <1>5, <1>7, <2>1 DEF OwnWork
  <2>2. CASE to = "poll" /\ from = "refresh"
    BY <1>3, <1>4, <1>5, <1>7, <2>2 DEF OwnWork
  <2> QED BY <2>1, <2>2
<1> QED BY <1>6, <1>8

\* What a scheduler holds after a step is its run's own.
LEMMA ScheduleHoldsOwn ==
    ASSUME TypeOK, SharedInv, NEW w \in Schedulers, Schedule(w),
           JobsKept(job, job'), Advances(status, status')
    PROVE  OwnWork(worker'[w], status', job')
<1> DEFINE k == worker[w]
<1>1. k \in Works /\ OwnWork(k, status, job) /\ OwnWork(k, status', job')
  BY OwnWorkStays DEF TypeOK, SharedInv
<1>2. k.queue \subseteq Runs /\ NoRun \notin Runs
  BY <1>1, PipelinesAssumption DEF Works
<1>3. ASSUME NEW work, Do(w, work), OwnWork(work, status', job') PROVE OwnWork(worker'[w], status', job')
  BY <1>3 DEF Do, TypeOK
<1>4. OwnWork(NoWork, status', job')
  BY DEF OwnWork, NoWork
<1>5. ASSUME NEW step \in {"schedule", "refresh"}, NEW Q \in SUBSET Runs,
             Do(w, [NoWork EXCEPT !.step = step, !.queue = Q]),
             \A r \in Q : status'[r] # "absent" /\ (step = "refresh" => Begun(status'[r]))
      PROVE  OwnWork(worker'[w], status', job')
  <2> DEFINE work == [NoWork EXCEPT !.step = step, !.queue = Q]
  <2>1. work.step = step /\ work.queue = Q /\ work.run = NoRun
    BY DEF NoWork
  <2>2. Do(w, work)
    BY <1>5
  <2> HIDE DEF work
  <2>3. OwnWork(work, status', job')
    BY <1>2, <1>5, <2>1 DEF OwnWork
  <2> QED BY <1>3, <2>2, <2>3
<1>6. CASE PickPending(w) \/ PickActive(w)
  BY <1>6, VisitsOwn DEF PickPending, PickActive
<1>7. CASE Tick(w)
  <2> DEFINE Q == {r \in Runs : status[r] = "pending"}
  <2>1. Do(w, [NoWork EXCEPT !.step = "schedule", !.queue = Q]) /\ UNCHANGED status
    BY <1>7 DEF Tick
  <2>2. Q \in SUBSET Runs /\ \A r \in Q : status[r] # "absent"
    OBVIOUS
  <2> HIDE DEF Q
  <2> QED BY <1>5, <2>1, <2>2
<1>8. CASE ScheduleDone(w)
  <2> DEFINE Q == {r \in Runs : status[r] \in Active}
  <2>1. Do(w, [NoWork EXCEPT !.step = "refresh", !.queue = Q]) /\ UNCHANGED status
    BY <1>8 DEF ScheduleDone, Refresh
  <2>2. Q \in SUBSET Runs /\ \A r \in Q : status[r] # "absent" /\ Begun(status[r])
    BY DEF Active, Begun
  <2> HIDE DEF Q
  <2> QED BY <1>5, <2>1, <2>2
<1>9. CASE VisitDeleted(w) \/ StoreFails(w) \/ RefreshDone(w) \/ (StoreDeleted(w) /\ AbortTick(w))
  BY <1>3, <1>4, <1>9 DEF VisitDeleted, StoreFails, RefreshDone, AbortTick
<1>10. ASSUME NEW step \in {"schedule", "refresh"}, BackTo(w, step),
              step = "refresh" => k.step = "storeStatus"
       PROVE  OwnWork(worker'[w], status', job')
  <2>1. \A r \in k.queue : status'[r] # "absent" /\ (step = "refresh" => Begun(status'[r]))
    BY <1>1, <1>10 DEF OwnWork
  <2>2. Do(w, [NoWork EXCEPT !.step = step, !.queue = k.queue]) /\ k.queue \in SUBSET Runs
    BY <1>2, <1>10 DEF BackTo
  <2> QED BY <1>5, <2>1, <2>2
<1>11. CASE StoreJob(w) \/ StoreStatus(w) \/ StoreDeleted(w)
  BY <1>9, <1>10, <1>11 DEF StoreJob, StoreStatus, StoreDeleted
<1>12. ASSUME k.step = "create", NEW next \in {"scheduled", "unknown"}, NEW j, Scheduled(w, next, j),
              OwnJob(job', j, k.run)
       PROVE  OwnWork(worker'[w], status', job')
  <2> DEFINE work == [k EXCEPT !.step = "storeJob", !.next = next, !.job = j]
  <2>1. /\ work.step = "storeJob" /\ work.queue = k.queue /\ work.run = k.run
        /\ work.seen = k.seen /\ work.next = next /\ work.job = j
    BY <1>1 DEF Works
  <2>2. Do(w, work)
    BY <1>12 DEF Scheduled
  <2> HIDE DEF work
  <2>3. OwnWork(work, status', job')
    BY <1>1, <1>12, <2>1 DEF OwnWork
  <2> QED BY <1>3, <2>2, <2>3
<1>13. CASE CreateJob(w)
  <2>1. PICK j \in Jobs : NewJob(j, Target(w)) /\ Scheduled(w, "scheduled", j)
    BY <1>13 DEF CreateJob
  <2>2. OwnJob(job', j, k.run)
    BY <2>1 DEF NewJob, OwnJob, Target, TypeOK
  <2> QED BY <1>12, <1>13, <2>1, <2>2 DEF CreateJob
<1>14. CASE RejectJob(w) \/ CreateJobFails(w)
  <2>1. OwnJob(job', NoJob, k.run)
    BY DEF OwnJob
  <2> QED BY <1>12, <1>14, <2>1 DEF RejectJob, CreateJobFails
<1>15. ASSUME k.step = "poll", UNCHANGED <<status, job>>, NEW next, Polled(w, next),
              Begun(next), Outcome(job, next, k.run)
       PROVE  OwnWork(worker'[w], status', job')
  <2> DEFINE work == [k EXCEPT !.step = IF next \in Final THEN "finish" ELSE "storeStatus", !.next = next]
  <2>1. /\ work.step \in {"finish", "storeStatus"} /\ work.queue = k.queue /\ work.run = k.run
        /\ work.seen = k.seen /\ work.next = next /\ work.job = k.job
    BY <1>1 DEF Works
  <2>2. Do(w, work)
    BY <1>15 DEF Polled
  <2> HIDE DEF work
  <2>3. OwnWork(work, status, job)
    BY <1>1, <1>15, <2>1 DEF OwnWork
  <2> QED BY <1>3, <1>15, <2>2, <2>3
<1>16. CASE Poll(w)
  <2>1. k.step = "poll" /\ Polled(w, PolledStatus(w)) /\ UNCHANGED <<status, job>>
    BY <1>16 DEF Poll
  <2>2. OwnJob(job, k.job, k.run) /\ k.run \in Runs
    BY <1>1, <2>1 DEF OwnWork
  <2>3. Begun(PolledStatus(w))
    BY DEF PolledStatus, InternalStatus, Begun
  <2>4. Outcome(job, PolledStatus(w), k.run)
    <3>1. ASSUME PolledStatus(w) \in {"success", "failure"}
          PROVE  /\ k.job \in Jobs /\ job[k.job].run = k.run
                 /\ PolledStatus(w) = "success" => job[k.job].state = "succeeded"
                 /\ PolledStatus(w) = "failure" => job[k.job].state = "failed"
      <4>1. k.job \in present /\ PolledStatus(w) = InternalStatus(job[k.job].state)
        BY <3>1 DEF PolledStatus
      <4>2. k.job \in Jobs /\ job[k.job].run = k.run
        BY <2>2, <4>1, PipelinesAssumption DEF OwnJob, TypeOK
      <4> QED BY <3>1, <4>1, <4>2 DEF InternalStatus
    <3> QED BY <3>1 DEF Outcome
  <2> QED BY <1>15, <2>1, <2>3, <2>4
<1>17. CASE PollFails(w)
  <2>1. k.step = "poll" /\ UNCHANGED <<status, job>> /\ (Polled(w, "unknown") \/ Polled(w, k.seen))
    BY <1>17 DEF PollFails
  <2>2. Begun("unknown") /\ Outcome(job, "unknown", k.run)
    BY DEF Begun, Outcome
  <2>3. Begun(k.seen) /\ Outcome(job, k.seen, k.run)
    BY <1>1, <2>1 DEF OwnWork
  <2> QED BY <1>15, <2>1, <2>2, <2>3
<1>18. CASE FinishJob(w) \/ FinishJobFails(w)
  <2> DEFINE work == [k EXCEPT !.step = "storeStatus"]
  <2>1. /\ work.step = "storeStatus" /\ work.queue = k.queue /\ work.run = k.run
        /\ work.seen = k.seen /\ work.next = k.next /\ work.job = k.job
    BY <1>1 DEF Works
  <2>2. Do(w, work) /\ k.step = "finish"
    BY <1>18 DEF FinishJob, FinishJobFails, Finished
  <2> HIDE DEF work
  <2>3. OwnWork(work, status', job')
    BY <1>1, <2>1, <2>2 DEF OwnWork
  <2> QED BY <1>3, <2>2, <2>3
<1> QED BY <1>6, <1>7, <1>8, <1>9, <1>11, <1>13, <1>14, <1>16, <1>17, <1>18 DEF Schedule

\* Only a run's own job is stored as its reference, and only its outcome as its status.
LEMMA RowsStayOwn ==
    ASSUME TypeOK, SharedInv, [Next]_vars, JobsKept(job, job'), NEW r \in Runs
    PROVE  OwnJob(job', reference'[r], r) /\ Outcome(job', status'[r], r)
<1>1. OwnJob(job', reference[r], r) /\ Outcome(job', status[r], r)
  <2>1. OwnJob(job, reference[r], r) /\ Outcome(job, status[r], r)
    BY DEF SharedInv
  <2>2. OwnJob(job', reference[r], r)
    BY <2>1, OwnJobsStay
  <2>3. Outcome(job', status[r], r)
    BY <2>1, OwnJobsStay
  <2> QED BY <2>2, <2>3
<1>2. OwnJob(job', NoJob, r) /\ \A s : s \notin {"success", "failure"} => Outcome(job', s, r)
  BY DEF OwnJob, Outcome
<1>3. CASE UNCHANGED <<status, reference>>
  BY <1>1, <1>3
<1>4. ASSUME NEW p \in Pipelines, Manage(p)
      PROVE  /\ reference'[r] \in {reference[r], NoJob}
             /\ status'[r] \in {status[r], "deleted"}
  <2>1. CASE DeletePipelineRow(p)
    BY <2>1 DEF DeletePipelineRow
  <2>2. CASE ~DeletePipelineRow(p)
    BY <1>4, <2>2 DEF Manage, AddTechUser, AddTechUserFails, RejectNightly, CreateCronjob,
       StorePipeline, CreatePipelineFails, RemoveTechUser, RemoveTechUserFails, DeleteCronjob,
       DeletePipelineFails
  <2> QED BY <2>1, <2>2
<1>5. ASSUME NEW q \in Runs, TriggerRun(q) \/ TimeoutPasses(q)
      PROVE  reference' = reference /\ status'[r] \in {status[r], "pending"}
  BY <1>5 DEF TriggerRun, TimeoutPasses, TypeOK
<1>6. ASSUME NEW w \in Schedulers, StoreJob(w) \/ StoreStatus(w)
      PROVE  OwnJob(job', reference'[r], r) /\ Outcome(job', status'[r], r)
  <2>1. job' = job /\ OwnWork(worker[w], status, job)
    BY <1>6 DEF StoreJob, StoreStatus, SharedInv
  <2>2. Outcome(job, worker[w].next, Target(w)) /\ Target(w) \in Runs
    BY <1>6, WriteAdvances
  <2>3. status'[r] = status[r] \/ (r = Target(w) /\ status'[r] = worker[w].next)
    BY <1>6, WriteAdvances DEF TypeOK
  <2>4. \/ reference'[r] = reference[r]
        \/ r = Target(w) /\ reference'[r] = worker[w].job /\ worker[w].step = "storeJob"
    BY <1>6 DEF StoreJob, StoreStatus, TypeOK
  <2>5. worker[w].step = "storeJob" => OwnJob(job, worker[w].job, Target(w))
    BY <2>1 DEF OwnWork, Target
  <2> QED BY <1>1, <2>1, <2>2, <2>3, <2>4, <2>5
<1>7. ASSUME NEW w \in Schedulers, Schedule(w) \/ Crash(w)
      PROVE  StoreJob(w) \/ StoreStatus(w) \/ UNCHANGED <<status, reference>>
  BY <1>7, StatusWriters
<1>8. (\E j \in Jobs : (\E s \in JobStates : JobProceeds(j, s)) \/ JobExpires(j)) \/ UNCHANGED vars
      => UNCHANGED <<status, reference>>
  BY DEF JobProceeds, JobExpires, vars
<1>9. ASSUME NEW p \in Pipelines, Manage(p)
      PROVE  OwnJob(job', reference'[r], r) /\ Outcome(job', status'[r], r)
  BY <1>1, <1>2, <1>4, <1>9
<1>10. ASSUME NEW q \in Runs, TriggerRun(q) \/ TimeoutPasses(q)
       PROVE  OwnJob(job', reference'[r], r) /\ Outcome(job', status'[r], r)
  BY <1>1, <1>2, <1>5, <1>10
<1> QED BY <1>3, <1>6, <1>7, <1>8, <1>9, <1>10 DEF Next

\* Jobs are created for runs, and stay so.
LEMMA JobsStayNamed ==
    ASSUME TypeOK, SharedInv, [Next]_vars
    PROVE  \A j \in Jobs : job'[j].state = "unused" <=> job'[j].run = NoRun
<1> DEFINE Named(jobs) == \A j \in Jobs : jobs[j].state = "unused" <=> jobs[j].run = NoRun
<1>1. Named(job)
  BY DEF SharedInv
<1>2. ASSUME NEW w \in Schedulers, NEW j \in Jobs, worker[w].step = "create", NewJob(j, Target(w))
      PROVE  Named(job')
  <2>1. Target(w) \in Runs
    BY <1>2 DEF SharedInv, OwnWork, Target
  <2> QED BY <1>1, <1>2, <2>1, PipelinesAssumption DEF NewJob, TypeOK
<1>3. ASSUME NEW j \in Jobs, NEW s \in JobStates, JobProceeds(j, s) PROVE Named(job')
  BY <1>1, <1>3 DEF JobProceeds, TypeOK
<1>4. UNCHANGED job => Named(job')
  BY <1>1
<1>5. ASSUME NEW p \in Pipelines, Manage(p) PROVE UNCHANGED job
  BY <1>5 DEF Manage, AddTechUser, AddTechUserFails, RejectNightly, CreateCronjob,
     StorePipeline, CreatePipelineFails, RemoveTechUser, RemoveTechUserFails, DeleteCronjob,
     DeletePipelineRow, DeletePipelineFails
<1>6. ASSUME NEW w \in Schedulers, Schedule(w) \/ Crash(w)
      PROVE  UNCHANGED job \/ (worker[w].step = "create" /\ \E j \in Jobs : NewJob(j, Target(w)))
  BY <1>6 DEF Schedule, Tick, PickPending, Visit, VisitDeleted, CreateJob, RejectJob,
     CreateJobFails, StoreJob, ScheduleDone, Refresh, PickActive, Poll, PollFails, FinishJob,
     FinishJobFails, StoreStatus, StoreDeleted, StoreFails, RefreshDone, Crash
<1>7. (\E r \in Runs : TriggerRun(r) \/ TimeoutPasses(r)) \/ (\E j \in Jobs : JobExpires(j)) \/ UNCHANGED vars
      => UNCHANGED job
  BY DEF TriggerRun, TimeoutPasses, JobExpires, vars
<1> HIDE DEF Named
<1>8. Named(job')
  BY <1>2, <1>3, <1>4, <1>5, <1>6, <1>7 DEF Next
<1> QED BY <1>8 DEF Named

\* Whatever the schedulers do to each other's runs, none mixes up two runs.
THEOREM SharedInvariant == Spec => []SharedInv
<1>1. Init => SharedInv
  <2> SUFFICES ASSUME Init PROVE SharedInv
    OBVIOUS
  <2>1. \A w \in Schedulers : OwnWork(worker[w], status, job)
    BY DEF Init, OwnWork, NoWork
  <2>2. \A r \in Runs : OwnJob(job, reference[r], r) /\ Outcome(job, status[r], r)
    BY DEF Init, OwnJob, Outcome
  <2> QED BY <2>1, <2>2 DEF Init, SharedInv
<1>2. TypeOK /\ SharedInv /\ [Next]_vars => SharedInv'
  <2> SUFFICES ASSUME TypeOK, SharedInv, [Next]_vars PROVE SharedInv'
    OBVIOUS
  <2>1. JobsKept(job, job') /\ Advances(status, status')
    BY StepKeepsJobs, StepAdvances
  <2>2. ASSUME NEW v \in Schedulers, worker'[v] = worker[v] \/ worker'[v] = NoWork
        PROVE  OwnWork(worker'[v], status', job')
    <3>1. OwnWork(worker[v], status', job')
      BY <2>1, OwnWorkStays DEF SharedInv, TypeOK
    <3>2. OwnWork(NoWork, status', job')
      BY DEF OwnWork, NoWork
    <3> QED BY <2>2, <3>1, <3>2
  <2>3. ASSUME NEW w \in Schedulers, Schedule(w), NEW v \in Schedulers
        PROVE  OwnWork(worker'[v], status', job')
    <3>1. \A u \in Schedulers : u # w => worker'[u] = worker[u]
      <4>1. \E work : Do(w, work)
        BY <2>3 DEF Schedule, Tick, PickPending, Visit, VisitDeleted, CreateJob, RejectJob,
           CreateJobFails, StoreJob, ScheduleDone, Refresh, PickActive, Poll, PollFails, FinishJob,
           FinishJobFails, StoreStatus, StoreDeleted, StoreFails, RefreshDone, AbortTick, BackTo,
           Scheduled, Polled, Finished
      <4> QED BY <4>1, OthersRest
    <3> QED BY <2>1, <2>2, <2>3, <3>1, ScheduleHoldsOwn
  <2>4. ASSUME NEW w \in Schedulers, Crash(w), NEW v \in Schedulers
        PROVE  OwnWork(worker'[v], status', job')
    BY <2>2, <2>4, OthersRest DEF Crash
  <2>5. ASSUME \A w \in Schedulers : ~Schedule(w) /\ ~Crash(w), NEW v \in Schedulers
        PROVE  OwnWork(worker'[v], status', job')
    <3>1. worker' = worker
      BY <2>5 DEF Next, vars, Manage, AddTechUser, AddTechUserFails, RejectNightly, CreateCronjob,
         StorePipeline, CreatePipelineFails, RemoveTechUser, RemoveTechUserFails, DeleteCronjob,
         DeletePipelineRow, DeletePipelineFails, TriggerRun, TimeoutPasses, JobProceeds, JobExpires
    <3> QED BY <2>2, <3>1
  <2>6. \A v \in Schedulers : OwnWork(worker'[v], status', job')
    BY <2>3, <2>4, <2>5
  <2> QED BY <2>1, <2>6, RowsStayOwn, JobsStayNamed DEF SharedInv
<1> QED BY <1>1, <1>2, TypeCorrect, PTL DEF Spec

\* For any number of schedulers: a run shown as a success or a failure has a job of its own
\* that ended so, although it may refer to another of its jobs (_map_k8s_to_internal_status).
THEOREM OutcomesAreOwn == Spec => []OwnOutcome
<1>1. SharedInv => OwnOutcome
  BY DEF SharedInv, Outcome, OwnOutcome
<1> QED BY <1>1, SharedInvariant, PTL

\* For any number of schedulers: the job a run refers to, whose logs its page shows and
\* which the scheduler deletes, was created for this run.
THEOREM ReferencesAreOwn ==
    Spec => [](\A r \in Runs : reference[r] # NoJob => job[reference[r]].run = r)
<1>1. SharedInv => \A r \in Runs : reference[r] # NoJob => job[reference[r]].run = r
  BY DEF SharedInv, OwnJob
<1> QED BY <1>1, SharedInvariant, PTL

\* For any number of schedulers: a run that was triggered or scheduled is never made pending
\* again, and a deleted one stays deleted, even if one scheduler overwrites what another one
\* has stored.
THEOREM RunsAdvance == Spec => [][Advances(status, status')]_vars
<1>1. TypeOK /\ SharedInv /\ [Next]_vars => [Advances(status, status')]_vars
  BY StepAdvances
<1> QED BY <1>1, SharedInvariant, TypeCorrect, PTL DEF Spec

-----------------------------------------------------------------------------
(* Any number of schedulers: how many jobs a run gets *)

JobsOf(jobs, r) == {j \in Jobs : jobs[j].run = r}

\* Work k has dealt with run r and is about to store that.
Stores(k, r) == k.step = "storeJob" /\ k.run = r

\* Work k will still create a job for run r, as it has found it pending.
Creates(k, r) ==
    \/ k.step \in {"schedule", "create", "storeJob"} /\ r \in k.queue
    \/ k.step = "create" /\ k.run = r

Storing(workers, r) == {w \in Schedulers : Stores(workers[w], r)}

Creators(workers, r) == {w \in Schedulers : Creates(workers[w], r)}

\* As long as a run is pending, each of its jobs is accounted for by a scheduler that is
\* about to store it or by an interruption; afterwards no scheduler takes it up anew.
Counted(jobs, statuses, workers, bound, r) ==
    /\ IsFiniteSet(JobsOf(jobs, r))
    /\ IF Begun(statuses[r])
       THEN Cardinality(JobsOf(jobs, r)) + Cardinality(Creators(workers, r)) <= Cardinality(Schedulers) + bound
       ELSE Cardinality(JobsOf(jobs, r)) <= Cardinality(Storing(workers, r)) + bound

CountInv == \A r \in Runs : Counted(job, status, worker, faults + crashes, r)

\* Schedulers can be counted, one more or less at a time.
LEMMA CountedSchedulers ==
    ASSUME NEW S \in SUBSET Schedulers, NEW T \in SUBSET Schedulers
    PROVE  /\ IsFiniteSet(S) /\ Cardinality(S) \in Nat /\ Cardinality(Schedulers) \in Nat
           /\ S \subseteq T => Cardinality(S) <= Cardinality(T)
           /\ \A w \in S : Cardinality(S \ {w}) = Cardinality(S) - 1
           /\ \A w \in Schedulers \ S : Cardinality(S \cup {w}) = Cardinality(S) + 1
           /\ S \cap T = {} => Cardinality(S) + Cardinality(T) <= Cardinality(Schedulers)
<1>1. IsFiniteSet(Schedulers)
  BY PipelinesAssumption
<1>2. IsFiniteSet(S) /\ IsFiniteSet(T) /\ IsFiniteSet(S \cup T)
  BY <1>1, FS_Subset
<1>3. Cardinality(S) \in Nat /\ Cardinality(Schedulers) \in Nat
  BY <1>1, <1>2, FS_CardinalityType
<1>4. S \subseteq T => Cardinality(S) <= Cardinality(T)
  BY <1>2, FS_Subset
<1>5. \A w \in S : Cardinality(S \ {w}) = Cardinality(S) - 1
  BY <1>2, FS_RemoveElement
<1>6. \A w \in Schedulers \ S : Cardinality(S \cup {w}) = Cardinality(S) + 1
  BY <1>2, FS_AddElement
<1>7. ASSUME S \cap T = {} PROVE Cardinality(S) + Cardinality(T) <= Cardinality(Schedulers)
  <2>1. Cardinality(S \cup T) = Cardinality(S) + Cardinality(T) - Cardinality(S \cap T)
    BY <1>2, FS_Union
  <2>2. Cardinality(S \cap T) = 0
    BY <1>7, FS_EmptySet
  <2>3. Cardinality(S \cup T) <= Cardinality(Schedulers)
    BY <1>1, FS_Subset
  <2>4. Cardinality(T) \in Nat
    BY <1>2, FS_CardinalityType
  <2> QED BY <1>3, <2>1, <2>2, <2>3, <2>4
<1> QED BY <1>2, <1>3, <1>4, <1>5, <1>6, <1>7

\* No job is created: a run stays counted if no scheduler takes it up after it has begun,
\* and none loses a job before without an interruption.
LEMMA SameJobsCounted ==
    ASSUME NEW jobs, NEW after, NEW old, NEW new, NEW workers, NEW moved, NEW r \in Runs,
           NEW bound \in Nat, NEW more \in Nat, Counted(jobs, old, workers, bound, r),
           JobsOf(after, r) = JobsOf(jobs, r), more >= bound, Begun(old[r]) = Begun(new[r]),
           Begun(old[r]) => Creators(moved, r) \subseteq Creators(workers, r),
           ~Begun(old[r]) =>
              \/ Storing(workers, r) \subseteq Storing(moved, r)
              \/ more > bound /\ \E w \in Schedulers : Storing(workers, r) \ {w} \subseteq Storing(moved, r)
    PROVE  Counted(after, new, moved, more, r)
<1>1. Cardinality(JobsOf(jobs, r)) \in Nat
  BY FS_CardinalityType DEF Counted
<1>2. /\ Storing(workers, r) \in SUBSET Schedulers /\ Storing(moved, r) \in SUBSET Schedulers
      /\ Creators(workers, r) \in SUBSET Schedulers /\ Creators(moved, r) \in SUBSET Schedulers
  BY DEF Storing, Creators
<1>3. CASE Begun(old[r])
  <2>1. Cardinality(Creators(moved, r)) <= Cardinality(Creators(workers, r))
    BY <1>2, <1>3, CountedSchedulers
  <2>2. /\ Cardinality(Creators(moved, r)) \in Nat /\ Cardinality(Creators(workers, r)) \in Nat
        /\ Cardinality(Schedulers) \in Nat
    BY <1>2, CountedSchedulers
  <2>3. Cardinality(JobsOf(jobs, r)) + Cardinality(Creators(workers, r)) <= Cardinality(Schedulers) + bound
    BY <1>3 DEF Counted
  <2>4. Cardinality(JobsOf(after, r)) + Cardinality(Creators(moved, r)) <= Cardinality(Schedulers) + more
    BY <1>1, <2>1, <2>2, <2>3
  <2>5. Begun(new[r])
    BY <1>3
  <2> QED BY <2>4, <2>5 DEF Counted
<1>4. CASE ~Begun(old[r])
  <2>1. /\ Cardinality(Storing(moved, r)) \in Nat /\ Cardinality(Storing(workers, r)) \in Nat
    BY <1>2, CountedSchedulers
  <2>2. Cardinality(Storing(workers, r)) + bound <= Cardinality(Storing(moved, r)) + more
    <3>1. CASE Storing(workers, r) \subseteq Storing(moved, r)
      <4>1. Cardinality(Storing(workers, r)) <= Cardinality(Storing(moved, r))
        BY <1>2, <3>1, CountedSchedulers
      <4> QED BY <2>1, <4>1
    <3>2. ASSUME more > bound, NEW w \in Schedulers, Storing(workers, r) \ {w} \subseteq Storing(moved, r)
          PROVE  Cardinality(Storing(workers, r)) + bound <= Cardinality(Storing(moved, r)) + more
      <4>1. CASE w \in Storing(workers, r)
        <5>1. Storing(workers, r) \ {w} \in SUBSET Schedulers
          BY <1>2
        <5>2. Cardinality(Storing(workers, r) \ {w}) = Cardinality(Storing(workers, r)) - 1
          BY <1>2, <4>1, CountedSchedulers
        <5>3. Cardinality(Storing(workers, r) \ {w}) <= Cardinality(Storing(moved, r))
          BY <1>2, <3>2, <5>1, CountedSchedulers
        <5> QED BY <2>1, <3>2, <5>2, <5>3
      <4>2. CASE w \notin Storing(workers, r)
        <5>1. Cardinality(Storing(workers, r)) <= Cardinality(Storing(moved, r))
          <6>1. Storing(workers, r) \subseteq Storing(moved, r)
            BY <3>2, <4>2
          <6> QED BY <1>2, <6>1, CountedSchedulers
        <5> QED BY <2>1, <5>1
      <4> QED BY <4>1, <4>2
    <3> QED BY <1>4, <3>1, <3>2
  <2>3. Cardinality(JobsOf(jobs, r)) <= Cardinality(Storing(workers, r)) + bound
    BY <1>4 DEF Counted
  <2>4. Cardinality(JobsOf(after, r)) <= Cardinality(Storing(moved, r)) + more
    BY <1>1, <2>1, <2>2, <2>3
  <2>5. ~Begun(new[r])
    BY <1>4
  <2> QED BY <2>4, <2>5 DEF Counted
<1> QED BY <1>3, <1>4

\* A run that begins, or is deleted, has at most as many jobs as schedulers were about to
\* store, and those create no other one.
LEMMA BegunCounted ==
    ASSUME NEW jobs, NEW old, NEW new, NEW workers, NEW moved, NEW r \in Runs,
           NEW bound \in Nat, Counted(jobs, old, workers, bound, r),
           ~Begun(old[r]), Begun(new[r]), Creators(moved, r) \cap Storing(workers, r) = {}
    PROVE  Counted(jobs, new, moved, bound, r)
<1>1. Cardinality(JobsOf(jobs, r)) \in Nat
  BY FS_CardinalityType DEF Counted
<1>2. Storing(workers, r) \in SUBSET Schedulers /\ Creators(moved, r) \in SUBSET Schedulers
  BY DEF Storing, Creators
<1>3. Cardinality(Creators(moved, r)) + Cardinality(Storing(workers, r)) <= Cardinality(Schedulers)
  BY <1>2, CountedSchedulers
<1>4. /\ Cardinality(Storing(workers, r)) \in Nat /\ Cardinality(Creators(moved, r)) \in Nat
      /\ Cardinality(Schedulers) \in Nat
  BY <1>2, CountedSchedulers
<1>5. Cardinality(JobsOf(jobs, r)) <= Cardinality(Storing(workers, r)) + bound
  BY DEF Counted
<1>6. Cardinality(JobsOf(jobs, r)) + Cardinality(Creators(moved, r)) <= Cardinality(Schedulers) + bound
  BY <1>1, <1>3, <1>4, <1>5
<1> QED BY <1>6 DEF Counted

\* The scheduler that creates a job for a run is no longer about to create one, but about to
\* store it.
LEMMA NewJobCounted ==
    ASSUME NEW jobs, NEW after, NEW statuses, NEW workers, NEW moved, NEW r \in Runs,
           NEW bound \in Nat, NEW more \in Nat, Counted(jobs, statuses, workers, bound, r),
           NEW j, JobsOf(after, r) = JobsOf(jobs, r) \cup {j}, more >= bound, NEW w \in Schedulers,
           w \in Creators(workers, r), Creators(moved, r) \subseteq Creators(workers, r) \ {w},
           w \notin Storing(workers, r), Storing(workers, r) \cup {w} \subseteq Storing(moved, r)
    PROVE  Counted(after, statuses, moved, more, r)
<1>1. IsFiniteSet(JobsOf(jobs, r)) /\ Cardinality(JobsOf(jobs, r)) \in Nat
  BY FS_CardinalityType DEF Counted
<1>2. IsFiniteSet(JobsOf(after, r)) /\ Cardinality(JobsOf(after, r)) <= Cardinality(JobsOf(jobs, r)) + 1
  <2> DEFINE own == JobsOf(jobs, r)
  <2>1. IsFiniteSet(own) /\ Cardinality(own) \in Nat /\ JobsOf(after, r) = own \cup {j}
    BY <1>1
  <2> HIDE DEF own
  <2>2. IsFiniteSet(own \cup {j}) /\ (Cardinality(own \cup {j}) = Cardinality(own) \/ Cardinality(own \cup {j}) = Cardinality(own) + 1)
    BY <2>1, FS_AddElement
  <2>3. IsFiniteSet(own \cup {j}) /\ Cardinality(own \cup {j}) <= Cardinality(own) + 1
    BY <2>1, <2>2
  <2> QED BY <2>1, <2>3 DEF own
<1>3. Cardinality(JobsOf(after, r)) \in Nat
  BY <1>2, FS_CardinalityType
<1>4. /\ Storing(workers, r) \in SUBSET Schedulers /\ Storing(moved, r) \in SUBSET Schedulers
      /\ Storing(workers, r) \cup {w} \in SUBSET Schedulers
      /\ Creators(workers, r) \in SUBSET Schedulers /\ Creators(moved, r) \in SUBSET Schedulers
      /\ Creators(workers, r) \ {w} \in SUBSET Schedulers
  BY DEF Storing, Creators
<1>5. /\ Cardinality(Creators(workers, r) \ {w}) = Cardinality(Creators(workers, r)) - 1
      /\ Cardinality(Creators(moved, r)) <= Cardinality(Creators(workers, r) \ {w})
  BY <1>4, CountedSchedulers
<1>6. /\ Cardinality(Storing(workers, r) \cup {w}) = Cardinality(Storing(workers, r)) + 1
      /\ Cardinality(Storing(workers, r) \cup {w}) <= Cardinality(Storing(moved, r))
  BY <1>4, CountedSchedulers
<1>7. /\ Cardinality(Storing(workers, r)) \in Nat /\ Cardinality(Storing(moved, r)) \in Nat
      /\ Cardinality(Creators(workers, r)) \in Nat /\ Cardinality(Creators(moved, r)) \in Nat
      /\ Cardinality(Schedulers) \in Nat
  BY <1>4, CountedSchedulers
<1>8. CASE Begun(statuses[r])
  <2>1. Cardinality(JobsOf(jobs, r)) + Cardinality(Creators(workers, r)) <= Cardinality(Schedulers) + bound
    BY <1>8 DEF Counted
  <2>2. Cardinality(JobsOf(after, r)) + Cardinality(Creators(moved, r)) <= Cardinality(Schedulers) + more
    BY <1>1, <1>2, <1>3, <1>5, <1>7, <2>1
  <2> QED BY <1>2, <1>8, <2>2 DEF Counted
<1>9. CASE ~Begun(statuses[r])
  <2>1. Cardinality(JobsOf(jobs, r)) <= Cardinality(Storing(workers, r)) + bound
    BY <1>9 DEF Counted
  <2>2. Cardinality(JobsOf(after, r)) <= Cardinality(Storing(moved, r)) + more
    BY <1>1, <1>2, <1>3, <1>6, <1>7, <2>1
  <2> QED BY <1>2, <1>9, <2>2 DEF Counted
<1> QED BY <1>8, <1>9

\* A scheduler that moves without creating a job for run r or storing that.
LEMMA MoverCounted ==
    ASSUME TypeOK, CountInv, NEW w \in Schedulers, NEW work, Do(w, work), NEW r \in Runs,
           JobsOf(job', r) = JobsOf(job, r), Begun(status[r]) = Begun(status'[r]),
           {faults', crashes'} \subseteq Nat, faults' + crashes' >= faults + crashes,
           Begun(status[r]) /\ Creates(work, r) => Creates(worker[w], r),
           ~Begun(status[r]) /\ Stores(worker[w], r) =>
              Stores(work, r) \/ faults' + crashes' > faults + crashes
    PROVE  Counted(job', status', worker', faults' + crashes', r)
<1>1. worker'[w] = work /\ \A v \in Schedulers \ {w} : worker'[v] = worker[v]
  BY OthersRest
<1>2. Begun(status[r]) => Creators(worker', r) \subseteq Creators(worker, r)
  BY <1>1 DEF Creators
<1>3. ASSUME ~Begun(status[r])
      PROVE  \/ Storing(worker, r) \subseteq Storing(worker', r)
             \/ /\ faults' + crashes' > faults + crashes
                /\ \E v \in Schedulers : Storing(worker, r) \ {v} \subseteq Storing(worker', r)
  <2>1. Storing(worker, r) \ {w} \subseteq Storing(worker', r)
    BY <1>1 DEF Storing
  <2>2. CASE faults' + crashes' > faults + crashes
    BY <2>1, <2>2
  <2>3. CASE ~(faults' + crashes' > faults + crashes)
    BY <1>1, <1>3, <2>3 DEF Storing
  <2> QED BY <2>2, <2>3
<1>4. faults + crashes \in Nat /\ faults' + crashes' \in Nat
  BY DEF TypeOK
<1>5. Counted(job, status, worker, faults + crashes, r)
  BY DEF CountInv
<1> QED BY <1>2, <1>3, <1>4, <1>5, SameJobsCounted

\* The scheduler that creates a job for its run.
LEMMA CreatorCounted ==
    ASSUME TypeOK, SharedInv, CountInv, NEW w \in Schedulers, worker[w].step = "create",
           NEW j \in Jobs, NewJob(j, Target(w)), NEW next, NEW held, Scheduled(w, next, held),
           UNCHANGED status, {faults', crashes'} \subseteq Nat,
           faults' + crashes' >= faults + crashes, NEW r \in Runs
    PROVE  Counted(job', status', worker', faults' + crashes', r)
<1> DEFINE k == worker[w]
           work == [k EXCEPT !.step = "storeJob", !.next = next, !.job = held]
<1>1. k \in Works /\ OwnWork(k, status, job)
  BY DEF TypeOK, SharedInv
<1>2. work.step = "storeJob" /\ work.run = k.run /\ work.queue = k.queue /\ Do(w, work)
  BY <1>1 DEF Works, Scheduled
<1>3. k.run \in Runs /\ k.run \notin k.queue /\ k.step = "create"
  BY <1>1 DEF OwnWork
<1>4. worker'[w] = work /\ \A v \in Schedulers \ {w} : worker'[v] = worker[v]
  BY <1>2, OthersRest
<1> HIDE DEF work
<1>5. /\ job[j].run = NoRun /\ job'[j].run = k.run
      /\ \A i \in Jobs \ {j} : job'[i] = job[i]
  BY DEF NewJob, SharedInv, TypeOK, Target
<1>6. r # NoRun
  BY PipelinesAssumption
<1>7. CASE r = k.run
  <2>1. JobsOf(job', r) = JobsOf(job, r) \cup {j}
    BY <1>5, <1>7 DEF JobsOf
  <2>2. w \in Creators(worker, r) /\ Creators(worker', r) \subseteq Creators(worker, r) \ {w}
    BY <1>2, <1>3, <1>4, <1>7 DEF Creators, Creates
  <2>3. w \notin Storing(worker, r) /\ Storing(worker, r) \cup {w} \subseteq Storing(worker', r)
    BY <1>2, <1>3, <1>4, <1>7 DEF Storing, Stores
  <2>4. faults + crashes \in Nat /\ faults' + crashes' \in Nat
    BY DEF TypeOK
  <2>5. Counted(job, status, worker, faults + crashes, r)
    BY DEF CountInv
  <2>6. Counted(job', status, worker', faults' + crashes', r)
    BY <2>1, <2>2, <2>3, <2>4, <2>5, NewJobCounted
  <2> QED BY <2>6
<1>8. CASE r # k.run
  <2>1. JobsOf(job', r) = JobsOf(job, r)
    BY <1>5, <1>6, <1>8 DEF JobsOf
  <2>2. Creates(work, r) => Creates(k, r)
    BY <1>2, <1>3, <1>8 DEF Creates
  <2>3. Stores(k, r) => Stores(work, r)
    BY <1>3 DEF Stores
  <2> QED BY <1>2, <2>1, <2>2, <2>3, MoverCounted
<1> QED BY <1>7, <1>8

\* The scheduler that stores its job, or that there is none.
LEMMA StorerCounted ==
    ASSUME TypeOK, SharedInv, CountInv, NEW w \in Schedulers, StoreJob(w), NEW r \in Runs
    PROVE  Counted(job', status', worker', faults' + crashes', r)
<1> DEFINE k == worker[w]
           work == [NoWork EXCEPT !.step = "schedule", !.queue = k.queue]
<1>1. k \in Works /\ \A v \in Schedulers : OwnWork(worker[v], status, job)
  BY DEF TypeOK, SharedInv
<1>2. /\ work.step = "schedule" /\ work.run = NoRun /\ work.queue = k.queue /\ Do(w, work)
      /\ k.step = "storeJob" /\ UNCHANGED <<job, faults, crashes>>
  BY DEF NoWork, StoreJob, BackTo
<1>3. worker'[w] = work /\ \A v \in Schedulers \ {w} : worker'[v] = worker[v]
  BY <1>2, OthersRest
<1> HIDE DEF work
<1>4. /\ k.run \in Runs /\ Begun(status'[k.run]) /\ Advances(status, status')
      /\ \A q \in Runs \ {k.run} : status'[q] = status[q]
  BY WriteAdvances DEF Target, TypeOK
<1>5. Creates(work, r) => Creates(k, r)
  BY <1>2 DEF Creates
<1>6. faults + crashes \in Nat /\ {faults, crashes} \subseteq Nat
  BY DEF TypeOK
<1>7. CASE Begun(status[r]) = Begun(status'[r])
  <2>1. ~Begun(status[r]) => ~Stores(k, r)
    BY <1>4, <1>7 DEF Stores
  <2>2. JobsOf(job', r) = JobsOf(job, r) /\ faults' + crashes' >= faults + crashes /\ {faults', crashes'} \subseteq Nat
    BY <1>2, <1>6
  <2> QED BY <1>2, <1>5, <1>7, <2>1, <2>2, MoverCounted
<1>8. CASE ~Begun(status[r]) /\ Begun(status'[r])
  <2>1. Creators(worker', r) \cap Storing(worker, r) = {}
    BY <1>1, <1>2, <1>3 DEF Creators, Creates, Storing, Stores, OwnWork
  <2>2. Counted(job, status, worker, faults + crashes, r)
    BY DEF CountInv
  <2>3. Counted(job, status', worker', faults + crashes, r)
    BY <1>6, <1>8, <2>1, <2>2, BegunCounted
  <2> QED BY <1>2, <2>3
<1>9. Begun(status[r]) => Begun(status'[r])
  BY <1>4 DEF Advances
<1> QED BY <1>7, <1>8, <1>9 DEF Begun

\* Every step of a scheduler keeps the jobs of every run counted.
LEMMA ScheduleCounted ==
    ASSUME TypeOK, TypeOK', SharedInv, CountInv, NEW w \in Schedulers, Schedule(w), NEW r \in Runs
    PROVE  Counted(job', status', worker', faults' + crashes', r)
<1> DEFINE k == worker[w]
<1>1. k \in Works /\ OwnWork(k, status, job) /\ k.queue \subseteq Runs
  BY DEF TypeOK, SharedInv, Works
<1>2. {faults, crashes, faults', crashes'} \subseteq Nat
  BY DEF TypeOK
<1>3. Fault => faults' + crashes' > faults + crashes
  BY <1>2 DEF Fault
<1>4. ASSUME UNCHANGED <<job, faults, crashes>> \/ (UNCHANGED <<job, crashes>> /\ Fault),
             Begun(status[r]) = Begun(status'[r]), NEW work, Do(w, work),
             Begun(status[r]) /\ Creates(work, r) => Creates(k, r),
             ~Begun(status[r]) /\ Stores(k, r) => Stores(work, r) \/ Fault
      PROVE  Counted(job', status', worker', faults' + crashes', r)
  <2>1. JobsOf(job', r) = JobsOf(job, r)
    BY <1>4
  <2>2. faults' + crashes' >= faults + crashes
    BY <1>2, <1>3, <1>4
  <2> QED BY <1>2, <1>3, <1>4, <2>1, <2>2, MoverCounted
<1>5. ASSUME UNCHANGED <<job, status, crashes>>, faults' = faults \/ Fault,
             NEW work, Do(w, work), ~Creates(work, r), k.step # "storeJob" \/ Fault
      PROVE  Counted(job', status', worker', faults' + crashes', r)
  <2>1. Stores(k, r) => Fault
    BY <1>5 DEF Stores
  <2> QED BY <1>4, <1>5, <2>1
<1>6. ~Creates(NoWork, r)
  BY DEF Creates, NoWork
<1>7. CASE VisitDeleted(w) \/ StoreFails(w) \/ RefreshDone(w)
  <2>1. Do(w, NoWork) /\ UNCHANGED <<job, status, crashes>>
    BY <1>7 DEF VisitDeleted, StoreFails, RefreshDone, AbortTick, Fault
  <2>2. faults' = faults \/ Fault
    BY <1>7 DEF VisitDeleted, StoreFails, RefreshDone
  <2>3. k.step # "storeJob" \/ Fault
    BY <1>7 DEF VisitDeleted, StoreFails, RefreshDone
  <2> QED BY <1>5, <1>6, <2>1, <2>2, <2>3
<1>8. CASE Tick(w)
  <2> DEFINE work == [NoWork EXCEPT !.step = "schedule", !.queue = {q \in Runs : status[q] = "pending"}]
  <2>1. work.queue = {q \in Runs : status[q] = "pending"} /\ work.step = "schedule" /\ Do(w, work)
    BY <1>8 DEF Tick, NoWork
  <2>2. k.step = "idle" /\ UNCHANGED <<job, status, faults, crashes>>
    BY <1>8 DEF Tick
  <2> HIDE DEF work
  <2>3. Begun(status[r]) => ~Creates(work, r)
    BY <2>1 DEF Creates, Begun
  <2>4. ~Stores(k, r)
    BY <2>2 DEF Stores
  <2> QED BY <1>4, <2>1, <2>2, <2>3, <2>4
<1>9. CASE PickPending(w) \/ PickActive(w)
  <2>1. PICK to \in {"create", "poll"}, q \in k.queue :
           Do(w, [k EXCEPT !.step = to, !.queue = @ \ {q}, !.run = q,
                           !.seen = status[q], !.job = reference[q]])
           /\ (to = "create" => k.step = "schedule")
    BY <1>9 DEF PickPending, PickActive, Visit
  <2> DEFINE work == [k EXCEPT !.step = to, !.queue = @ \ {q}, !.run = q,
                               !.seen = status[q], !.job = reference[q]]
  <2>2. work.step = to /\ work.queue = k.queue \ {q} /\ work.run = q /\ Do(w, work)
    BY <1>1, <2>1 DEF Works
  <2>3. k.step \in {"schedule", "refresh"} /\ UNCHANGED <<job, status, faults, crashes>>
    BY <1>9 DEF PickPending, PickActive, Visit
  <2> HIDE DEF work
  <2>4. Creates(work, r) => Creates(k, r)
    BY <2>1, <2>2 DEF Creates
  <2>5. ~Stores(k, r)
    BY <2>3 DEF Stores
  <2> QED BY <1>4, <2>2, <2>3, <2>4, <2>5
<1>10. CASE CreateJob(w)
  <2>1. PICK j \in Jobs : NewJob(j, Target(w)) /\ Scheduled(w, "scheduled", j)
    BY <1>10 DEF CreateJob
  <2>2. k.step = "create" /\ UNCHANGED <<status, faults, crashes>>
    BY <1>10 DEF CreateJob
  <2>3. faults' + crashes' >= faults + crashes
    BY <1>2, <2>2
  <2> QED BY <1>2, <2>1, <2>2, <2>3, CreatorCounted
<1>11. ASSUME k.step = "create", UNCHANGED <<job, status, crashes>>, faults' = faults \/ Fault,
              Scheduled(w, "unknown", NoJob)
       PROVE  Counted(job', status', worker', faults' + crashes', r)
  <2> DEFINE work == [k EXCEPT !.step = "storeJob", !.next = "unknown", !.job = NoJob]
  <2>1. work.step = "storeJob" /\ work.queue = k.queue /\ work.run = k.run /\ Do(w, work)
    BY <1>1, <1>11 DEF Works, Scheduled
  <2> HIDE DEF work
  <2>2. Creates(work, r) => Creates(k, r)
    BY <1>11, <2>1 DEF Creates
  <2>3. ~Stores(k, r)
    BY <1>11 DEF Stores
  <2> QED BY <1>4, <1>11, <2>1, <2>2, <2>3
<1>12. CASE RejectJob(w)
  BY <1>11, <1>12 DEF RejectJob
<1>13. CASE CreateJobFails(w)
  <2>1. k.step = "create" /\ Fault /\ Scheduled(w, "unknown", NoJob) /\ UNCHANGED status
    BY <1>13 DEF CreateJobFails
  <2>2. CASE UNCHANGED clusterVars
    BY <1>11, <2>1, <2>2 DEF Fault
  <2>3. ASSUME NEW j \in Jobs, NewJob(j, Target(w))
        PROVE  Counted(job', status', worker', faults' + crashes', r)
    <3>1. faults' + crashes' >= faults + crashes
      BY <1>2, <1>3, <2>1
    <3> QED BY <1>2, <2>1, <2>3, <3>1, CreatorCounted
  <2> QED BY <1>13, <2>2, <2>3 DEF CreateJobFails
<1>14. CASE StoreJob(w)
  BY <1>14, StorerCounted
<1>15. CASE ScheduleDone(w)
  <2> DEFINE work == [NoWork EXCEPT !.step = "refresh", !.queue = {q \in Runs : status[q] \in Active}]
  <2>1. work.step = "refresh" /\ Do(w, work)
    BY <1>15 DEF ScheduleDone, Refresh, NoWork
  <2>2. k.step = "schedule" /\ UNCHANGED <<job, status, faults, crashes>>
    BY <1>15 DEF ScheduleDone, Refresh
  <2> HIDE DEF work
  <2>3. ~Creates(work, r)
    BY <2>1 DEF Creates
  <2> QED BY <1>5, <2>1, <2>2, <2>3
<1>16. CASE Poll(w) \/ PollFails(w)
  <2>1. PICK next : Polled(w, next)
    BY <1>16 DEF Poll, PollFails
  <2> DEFINE work == [k EXCEPT !.step = IF next \in Final THEN "finish" ELSE "storeStatus", !.next = next]
  <2>2. work.step \in {"finish", "storeStatus"} /\ Do(w, work)
    BY <1>1, <2>1 DEF Works, Polled
  <2>3. k.step = "poll" /\ UNCHANGED <<job, status, crashes>> /\ (faults' = faults \/ Fault)
    BY <1>16 DEF Poll, PollFails, Fault
  <2> HIDE DEF work
  <2>4. ~Creates(work, r)
    BY <2>2 DEF Creates
  <2> QED BY <1>5, <2>2, <2>3, <2>4
<1>17. CASE FinishJob(w) \/ FinishJobFails(w)
  <2> DEFINE work == [k EXCEPT !.step = "storeStatus"]
  <2>1. work.step = "storeStatus" /\ Do(w, work)
    BY <1>1, <1>17 DEF Works, FinishJob, FinishJobFails, Finished
  <2>2. k.step = "finish" /\ UNCHANGED <<job, status, crashes>> /\ (faults' = faults \/ Fault)
    BY <1>17 DEF FinishJob, FinishJobFails, Fault
  <2> HIDE DEF work
  <2>3. ~Creates(work, r)
    BY <2>1 DEF Creates
  <2> QED BY <1>5, <2>1, <2>2, <2>3
<1>18. ASSUME BackTo(w, "refresh"), k.step = "storeStatus", UNCHANGED <<job, faults, crashes>>,
              Begun(status[r]) = Begun(status'[r])
       PROVE  Counted(job', status', worker', faults' + crashes', r)
  <2> DEFINE work == [NoWork EXCEPT !.step = "refresh", !.queue = k.queue]
  <2>1. work.step = "refresh" /\ Do(w, work)
    BY <1>18 DEF BackTo, NoWork
  <2> HIDE DEF work
  <2>2. ~Creates(work, r) /\ ~Stores(k, r)
    BY <1>18, <2>1 DEF Creates, Stores
  <2> QED BY <1>4, <1>18, <2>1, <2>2
<1>19. CASE StoreStatus(w)
  <2>1. BackTo(w, "refresh") /\ k.step = "storeStatus" /\ UNCHANGED <<job, faults, crashes>>
    BY <1>19 DEF StoreStatus
  <2>2. Begun(status[k.run]) /\ k.run \in Runs
    BY <1>1, <2>1 DEF OwnWork
  <2>3. Begun(status'[k.run]) /\ \A q \in Runs \ {k.run} : status'[q] = status[q]
    BY <1>19, WriteAdvances DEF Target, TypeOK
  <2>4. Begun(status[r]) = Begun(status'[r])
    <3>1. CASE r = k.run
      BY <2>2, <2>3, <3>1 DEF Begun
    <3>2. CASE r # k.run
      BY <2>3, <3>2
    <3> QED BY <3>1, <3>2
  <2> QED BY <1>18, <2>1, <2>4
<1>20. CASE StoreDeleted(w)
  <2>1. UNCHANGED <<job, status, faults, crashes>> /\ status[k.run] = "deleted"
    BY <1>20 DEF StoreDeleted, Target
  <2>2. CASE Do(w, NoWork)
    <3>1. ~Begun(status[r]) => ~Stores(k, r)
      BY <2>1 DEF Stores, Begun
    <3> QED BY <1>4, <1>6, <2>1, <2>2, <3>1
  <2>3. CASE k.step = "storeStatus" /\ BackTo(w, "refresh")
    BY <1>18, <2>1, <2>3
  <2> QED BY <1>20, <2>2, <2>3 DEF StoreDeleted, AbortTick
<1> QED BY <1>7, <1>8, <1>9, <1>10, <1>12, <1>13, <1>14, <1>15, <1>16, <1>17, <1>19, <1>20 DEF Schedule

\* Interruptions are counted.
LEMMA InterruptionTypes ==
    ASSUME TypeOK, TypeOK'
    PROVE  /\ {faults, crashes, faults', crashes'} \subseteq Nat
           /\ faults + crashes \in Nat /\ faults' + crashes' \in Nat
<1>1. {faults, crashes, faults', crashes'} \subseteq Nat
  BY DEF TypeOK
<1>2. \A m, n \in Nat : m + n \in Nat
  OBVIOUS
<1> QED BY <1>1, <1>2

\* Requests, jobs, time and crashes keep the jobs of every run counted.
LEMMA OthersCounted ==
    ASSUME TypeOK, TypeOK', SharedInv, CountInv, NEW r \in Runs,
           \/ \E p \in Pipelines : Manage(p)
           \/ \E q \in Runs : TriggerRun(q) \/ TimeoutPasses(q)
           \/ \E j \in Jobs : (\E s \in JobStates : JobProceeds(j, s)) \/ JobExpires(j)
           \/ \E w \in Schedulers : Crash(w)
           \/ UNCHANGED vars
    PROVE  Counted(job', status', worker', faults' + crashes', r)
<1>1. /\ {faults, crashes, faults', crashes'} \subseteq Nat
      /\ faults + crashes \in Nat /\ faults' + crashes' \in Nat
  BY InterruptionTypes
<1>2. Counted(job, status, worker, faults + crashes, r)
  BY DEF CountInv
<1>3. ASSUME worker' = worker, JobsOf(job', r) = JobsOf(job, r), faults' + crashes' >= faults + crashes,
             Begun(status[r]) = Begun(status'[r])
      PROVE  Counted(job', status', worker', faults' + crashes', r)
  <2>1. Creators(worker', r) \subseteq Creators(worker, r) /\ Storing(worker, r) \subseteq Storing(worker', r)
    BY <1>3
  <2> QED BY <1>1, <1>2, <1>3, <2>1, SameJobsCounted
<1>4. ASSUME NEW w \in Schedulers, Crash(w)
      PROVE  Counted(job', status', worker', faults' + crashes', r)
  <2>1. Do(w, NoWork) /\ UNCHANGED <<job, status, faults>> /\ crashes' = crashes + 1
    BY <1>4 DEF Crash
  <2>2. ~Creates(NoWork, r)
    BY DEF Creates, NoWork
  <2>3. faults' + crashes' > faults + crashes
    BY <1>1, <2>1
  <2> QED BY <1>1, <2>1, <2>2, <2>3, MoverCounted
<1>5. ASSUME NEW p \in Pipelines, Manage(p)
      PROVE  Counted(job', status', worker', faults' + crashes', r)
  <2>1. CASE DeletePipelineRow(p)
    <3>1. UNCHANGED <<worker, job, faults, crashes>>
      BY <2>1 DEF DeletePipelineRow
    <3>2. CASE Begun(status[r]) = Begun(status'[r])
      BY <1>1, <1>3, <3>1, <3>2
    <3>3. CASE ~Begun(status[r]) /\ Begun(status'[r])
      <4>1. \A v \in Schedulers : OwnWork(worker[v], status, job)
        BY DEF SharedInv
      <4>2. Creators(worker', r) \cap Storing(worker, r) = {}
        BY <3>1, <4>1 DEF Creators, Creates, Storing, Stores, OwnWork
      <4>3. Counted(job, status', worker', faults + crashes, r)
        BY <1>1, <1>2, <3>3, <4>2, BegunCounted
      <4> QED BY <3>1, <4>3
    <3>4. Begun(status[r]) => Begun(status'[r])
      BY <2>1 DEF DeletePipelineRow, Begun
    <3> QED BY <3>2, <3>3, <3>4 DEF Begun
  <2>2. CASE ~DeletePipelineRow(p)
    <3>1. UNCHANGED <<worker, job, status, crashes>> /\ (faults' = faults \/ faults' = faults + 1)
      BY <1>5, <2>2 DEF Manage, AddTechUser, AddTechUserFails, RejectNightly, CreateCronjob,
         StorePipeline, CreatePipelineFails, RemoveTechUser, RemoveTechUserFails, DeleteCronjob,
         DeletePipelineFails, Fault
    <3>2. faults' + crashes' >= faults + crashes
      BY <1>1, <3>1
    <3> QED BY <1>3, <3>1, <3>2
  <2> QED BY <2>1, <2>2
<1>6. ASSUME NEW q \in Runs, TriggerRun(q) \/ TimeoutPasses(q)
      PROVE  Counted(job', status', worker', faults' + crashes', r)
  <2>1. UNCHANGED <<worker, job, faults, crashes>>
    BY <1>6 DEF TriggerRun, TimeoutPasses
  <2>2. Begun(status[r]) = Begun(status'[r])
    BY <1>6 DEF TriggerRun, TimeoutPasses, Begun, TypeOK
  <2> QED BY <1>1, <1>3, <2>1, <2>2
<1>7. ASSUME NEW j \in Jobs, (\E s \in JobStates : JobProceeds(j, s)) \/ JobExpires(j)
      PROVE  Counted(job', status', worker', faults' + crashes', r)
  <2>1. UNCHANGED <<worker, status, faults, crashes>>
    BY <1>7 DEF JobProceeds, JobExpires
  <2>2. \A i \in Jobs : job'[i].run = job[i].run
    BY <1>7 DEF JobProceeds, JobExpires, TypeOK
  <2>3. JobsOf(job', r) = JobsOf(job, r)
    BY <2>2 DEF JobsOf
  <2> QED BY <1>1, <1>3, <2>1, <2>3
<1>8. CASE UNCHANGED vars
  BY <1>1, <1>3, <1>8 DEF vars
<1> QED BY <1>4, <1>5, <1>6, <1>7, <1>8

\* For any number of schedulers, each creates at most one job for a run, and one more for
\* each failed call and crash between the creation of a job and the commit of its name
\* (_schedule_pending_jobs, which no lock keeps the schedulers from running together).
THEOREM JobsPerRunAreBounded == Spec => []OneJobPerScheduler
<1>1. Init => CountInv
  <2> SUFFICES ASSUME Init, NEW r \in Runs PROVE Counted(job, status, worker, faults + crashes, r)
    BY DEF CountInv
  <2>1. JobsOf(job, r) = {}
    BY PipelinesAssumption DEF Init, JobsOf
  <2>2. IsFiniteSet({}) /\ Cardinality({}) = 0
    BY FS_EmptySet
  <2>3. Storing(worker, r) \in SUBSET Schedulers /\ ~Begun(status[r]) /\ faults = 0 /\ crashes = 0
    BY DEF Init, Storing, Begun
  <2>4. Cardinality(Storing(worker, r)) \in Nat
    BY <2>3, CountedSchedulers
  <2>5. Cardinality(JobsOf(job, r)) <= Cardinality(Storing(worker, r)) + (faults + crashes)
    BY <2>1, <2>2, <2>3, <2>4
  <2> QED BY <2>1, <2>2, <2>3, <2>5 DEF Counted
<1>2. TypeOK /\ TypeOK' /\ SharedInv /\ CountInv /\ [Next]_vars => CountInv'
  <2> SUFFICES ASSUME TypeOK, TypeOK', SharedInv, CountInv, [Next]_vars, NEW r \in Runs
               PROVE  Counted(job', status', worker', faults' + crashes', r)
    BY DEF CountInv
  <2> QED BY ScheduleCounted, OthersCounted DEF Next
<1>3. TypeOK /\ CountInv => OneJobPerScheduler
  <2> SUFFICES ASSUME TypeOK, CountInv, NEW r \in Runs
               PROVE  Cardinality({j \in Jobs : job[j].run = r}) <= Cardinality(Schedulers) + faults + crashes
    BY DEF OneJobPerScheduler
  <2>1. Counted(job, status, worker, faults + crashes, r) /\ faults \in Nat /\ crashes \in Nat
    BY DEF CountInv, TypeOK
  <2>2. Cardinality(JobsOf(job, r)) \in Nat
    BY <2>1, FS_CardinalityType DEF Counted
  <2>3. /\ Creators(worker, r) \in SUBSET Schedulers /\ Storing(worker, r) \in SUBSET Schedulers
        /\ Schedulers \in SUBSET Schedulers
    BY DEF Creators, Storing
  <2>4. /\ Cardinality(Creators(worker, r)) \in Nat /\ Cardinality(Storing(worker, r)) \in Nat
        /\ Cardinality(Storing(worker, r)) <= Cardinality(Schedulers) /\ Cardinality(Schedulers) \in Nat
    BY <2>3, CountedSchedulers
  <2>5. \/ Cardinality(JobsOf(job, r)) + Cardinality(Creators(worker, r)) <= Cardinality(Schedulers) + (faults + crashes)
        \/ Cardinality(JobsOf(job, r)) <= Cardinality(Storing(worker, r)) + (faults + crashes)
    BY <2>1 DEF Counted
  <2>6. Cardinality(JobsOf(job, r)) <= Cardinality(Schedulers) + faults + crashes
    BY <2>1, <2>2, <2>4, <2>5
  <2> QED BY <2>6 DEF JobsOf
<1> QED BY <1>1, <1>2, <1>3, SharedInvariant, TypeCorrect, PTL DEF Spec


=============================================================================
