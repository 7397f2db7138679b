------------------------------ MODULE Pipelines ------------------------------
(***************************************************************************)
(* Backup pipelines and their runs (projects/toolmodels/backups).          *)
(*                                                                         *)
(* POST and DELETE /pipelines manage a pipeline: a technical user in       *)
(* TeamForCapella, a cron job if it runs nightly, a row.  POST /runs only  *)
(* stores a pending run.  The scheduler, one thread per backend process    *)
(* that wakes up every five seconds, creates a Kubernetes job for each     *)
(* pending run and then polls the jobs of the others; it reads the         *)
(* database, talks to the cluster and commits, run by run, while pipelines *)
(* are deleted next to it.                                                 *)
(***************************************************************************)
EXTENDS Naturals, FiniteSets

CONSTANTS
    Pipelines,
    Runs,         \* each is triggered at most once
    PipelineOf,   \* the pipeline of a run
    Nightly,      \* pipelines with run_nightly
    Versioned,    \* pipelines of models with a version that has a backup image
    Schedulers,   \* scheduling threads, one per backend
    Jobs,         \* Kubernetes jobs that can be created
    MaxFaults,    \* bound on failing calls
    MaxCrashes    \* bound on backend crashes

Active == {"scheduled", "running"}
Final == {"success", "timeout", "failure", "unknown"}
Statuses == {"absent", "pending", "deleted"} \cup Active \cup Final

\* Creating: the technical user, then the cron job exist.  Deleting likewise.
Creating == {"user", "cronjob"}
Deleting == {"userRemoved", "cronjobRemoved"}
Progress == {"absent", "stored", "deleted", "failed"} \cup Creating \cup Deleting

\* The Kubernetes view of a job; "gone" is left to the variable present.
JobStates == {"unused", "waiting", "active", "succeeded", "failed", "deadline"}

NoRun == "none"
NoJob == "none"

ASSUME PipelinesAssumption ==
    /\ NoRun \notin Runs /\ NoJob \notin Jobs
    /\ PipelineOf \in [Runs -> Pipelines]
    /\ IsFiniteSet(Schedulers)
    /\ MaxFaults \in Nat /\ MaxCrashes \in Nat

VARIABLES
    progress,  \* progress[p]: how far the requests for pipeline p have come
    techUsers, \* pipelines whose technical user TeamForCapella knows
    cronjobs,  \* pipelines whose cron job exists
    forced,    \* pipelines whose deletion was forced past TeamForCapella
    status,    \* status[r]: column status, or absent or deleted
    reference, \* reference[r]: column reference_id
    late,      \* runs triggered more than the pipeline timeout ago
    job,       \* job[j]: the run a job was created for and how it went
    present,   \* jobs the cluster still has
    worker,    \* worker[w]: what a scheduler is doing
    faults,    \* failing calls so far
    crashes    \* crashes so far

vars == <<progress, techUsers, cronjobs, forced, status, reference, late,
          job, present, worker, faults, crashes>>

pipelineVars == <<progress, techUsers, cronjobs, forced>>
runVars == <<status, reference>>
clusterVars == <<job, present>>
faultVars == <<faults, crashes>>

Steps == {"idle", "schedule", "create", "storeJob", "refresh", "poll", "finish", "storeStatus"}

NoWork == [step |-> "idle", queue |-> {}, run |-> NoRun,
           seen |-> "pending", next |-> "pending", job |-> NoJob]

Works ==
    [step: Steps,
     queue: SUBSET Runs,       \* runs the query returned, still to visit
     run: Runs \cup {NoRun},   \* the run being worked on
     seen: Statuses,           \* its status when it was loaded
     next: Statuses,           \* the status to be committed
     job: Jobs \cup {NoJob}]   \* the job of the run, or the one just created

TypeOK ==
    /\ progress \in [Pipelines -> Progress]
    /\ techUsers \in SUBSET Pipelines
    /\ cronjobs \in SUBSET Pipelines
    /\ forced \in SUBSET Pipelines
    /\ status \in [Runs -> Statuses]
    /\ reference \in [Runs -> Jobs \cup {NoJob}]
    /\ late \in SUBSET Runs
    /\ job \in [Jobs -> [run: Runs \cup {NoRun}, state: JobStates]]
    /\ present \in SUBSET Jobs
    /\ worker \in [Schedulers -> Works]
    /\ faults \in Nat
    /\ crashes \in Nat

Init ==
    /\ progress = [p \in Pipelines |-> "absent"]
    /\ techUsers = {}
    /\ cronjobs = {}
    /\ forced = {}
    /\ status = [r \in Runs |-> "absent"]
    /\ reference = [r \in Runs |-> NoJob]
    /\ late = {}
    /\ job = [j \in Jobs |-> [run |-> NoRun, state |-> "unused"]]
    /\ present = {}
    /\ worker = [w \in Schedulers |-> NoWork]
    /\ faults = 0
    /\ crashes = 0

\* Every failing call counts against MaxFaults.
Fault == faults < MaxFaults /\ faults' = faults + 1 /\ UNCHANGED crashes

-----------------------------------------------------------------------------
(* POST /pipelines: create_backup *)

Stored(p) == progress[p] \in {"stored"} \cup Deleting

Become(p, from, to) == progress[p] = from /\ progress' = [progress EXCEPT ![p] = to]

AddTechUser(p) ==
    /\ Become(p, "absent", "user")
    /\ techUsers' = techUsers \cup {p}
    /\ UNCHANGED <<cronjobs, forced, runVars, late, clusterVars, worker, faultVars>>

\* The request ends with an error, whether or not TeamForCapella did the work.
AddTechUserFails(p) ==
    /\ Become(p, "absent", "failed")
    /\ Fault
    /\ techUsers' \in {techUsers, techUsers \cup {p}}
    /\ UNCHANGED <<cronjobs, forced, runVars, late, clusterVars, worker>>

\* VersionIdNotSetError or ToolImageNotFoundError, after the user was added.
RejectNightly(p) ==
    /\ p \in Nightly \ Versioned
    /\ Become(p, "user", "failed")
    /\ UNCHANGED <<techUsers, cronjobs, forced, runVars, late, clusterVars, worker, faultVars>>

CreateCronjob(p) ==
    /\ p \in Nightly \cap Versioned
    /\ Become(p, "user", "cronjob")
    /\ cronjobs' = cronjobs \cup {p}
    /\ UNCHANGED <<techUsers, forced, runVars, late, clusterVars, worker, faultVars>>

StorePipeline(p) ==
    /\ Become(p, IF p \in Nightly THEN "cronjob" ELSE "user", "stored")
    /\ UNCHANGED <<techUsers, cronjobs, forced, runVars, late, clusterVars, worker, faultVars>>

CreatePipelineFails(p) ==
    /\ progress[p] \in Creating
    /\ progress' = [progress EXCEPT ![p] = "failed"]
    /\ Fault
    /\ UNCHANGED <<techUsers, cronjobs, forced, runVars, late, clusterVars, worker>>

-----------------------------------------------------------------------------
(* DELETE /pipelines/{id}: core.delete_pipeline, one request at a time *)

RemoveTechUser(p) ==
    /\ Become(p, "stored", "userRemoved")
    /\ techUsers' = techUsers \ {p}
    /\ UNCHANGED <<cronjobs, forced, runVars, late, clusterVars, worker, faultVars>>

\* Only an administrator who forces the deletion gets past an unreachable server.
RemoveTechUserFails(p) ==
    /\ progress[p] = "stored"
    /\ Fault
    /\ techUsers' \in {techUsers, techUsers \ {p}}
    /\ \/ UNCHANGED <<progress, forced>>
       \/ Become(p, "stored", "userRemoved") /\ forced' = forced \cup {p}
    /\ UNCHANGED <<cronjobs, runVars, late, clusterVars, worker>>

DeleteCronjob(p) ==
    /\ p \in Nightly
    /\ Become(p, "userRemoved", "cronjobRemoved")
    /\ cronjobs' = cronjobs \ {p}
    /\ UNCHANGED <<techUsers, forced, runVars, late, clusterVars, worker, faultVars>>

\* Faulty variant: the row may go before the cron job.
DropRowFirst(p) ==
    /\ progress[p] \in Deleting
    /\ progress' = [progress EXCEPT ![p] = "deleted"]
    /\ UNCHANGED <<techUsers, cronjobs, forced, runVars, late, clusterVars, worker, faultVars>>

\* The row goes and takes the runs along; their jobs stay.
DeletePipelineRow(p) ==
    /\ Become(p, IF p \in Nightly THEN "cronjobRemoved" ELSE "userRemoved", "deleted")
    /\ status' = [r \in Runs |->
            IF PipelineOf[r] = p /\ status[r] # "absent" THEN "deleted" ELSE status[r]]
    /\ reference' = [r \in Runs |-> IF PipelineOf[r] = p THEN NoJob ELSE reference[r]]
    /\ late' = {r \in late : PipelineOf[r] # p}
    /\ UNCHANGED <<techUsers, cronjobs, forced, clusterVars, worker, faultVars>>

\* The request ends with an error; a later one starts again.
DeletePipelineFails(p) ==
    /\ progress[p] \in Deleting
    /\ progress' = [progress EXCEPT ![p] = "stored"]
    /\ Fault
    /\ UNCHANGED <<techUsers, cronjobs, forced, runVars, late, clusterVars, worker>>

-----------------------------------------------------------------------------
(* POST /pipelines/{id}/runs, and the world around the runs *)

TriggerRun(r) ==
    /\ status[r] = "absent" /\ Stored(PipelineOf[r])
    /\ status' = [status EXCEPT ![r] = "pending"]
    /\ UNCHANGED <<pipelineVars, reference, late, clusterVars, worker, faultVars>>

\* The pipeline timeout, counted from the trigger time; it matters to active runs.
TimeoutPasses(r) ==
    /\ status[r] \in Active /\ r \notin late
    /\ late' = late \cup {r}
    /\ UNCHANGED <<pipelineVars, runVars, clusterVars, worker, faultVars>>

\* The job controller: backoff_limit 0 and active_deadline_seconds.
JobProceeds(j, s) ==
    /\ j \in present
    /\ \/ job[j].state = "waiting" /\ s \in {"active", "deadline"}
       \/ job[j].state = "active" /\ s \in {"succeeded", "failed", "deadline"}
    /\ job' = [job EXCEPT ![j].state = s]
    /\ UNCHANGED <<pipelineVars, runVars, late, present, worker, faultVars>>

\* ttl_seconds_after_finished
JobExpires(j) ==
    /\ j \in present /\ job[j].state \in {"succeeded", "failed", "deadline"}
    /\ present' = present \ {j}
    /\ UNCHANGED <<pipelineVars, runVars, late, job, worker, faultVars>>

-----------------------------------------------------------------------------
(* The scheduler: _schedule_pending_jobs *)

Do(w, work) == worker' = [worker EXCEPT ![w] = work]

\* An exception that no handler of the tick catches; the loop starts over.
AbortTick(w) == Do(w, NoWork)

\* A tick without pending or active runs changes nothing.
Tick(w) ==
    /\ worker[w].step = "idle"
    /\ \E r \in Runs : status[r] \in {"pending"} \cup Active
    /\ Do(w, [NoWork EXCEPT !.step = "schedule", !.queue = {r \in Runs : status[r] = "pending"}])
    /\ UNCHANGED <<pipelineVars, runVars, late, clusterVars, faultVars>>

\* Every commit expires the loaded rows: a run is read again when its turn comes.
Visit(w, from, to) ==
    /\ worker[w].step = from
    /\ \E r \in worker[w].queue :
        /\ status[r] # "deleted"
        /\ Do(w, [worker[w] EXCEPT !.step = to, !.queue = @ \ {r}, !.run = r,
                                   !.seen = status[r], !.job = reference[r]])
    /\ UNCHANGED <<pipelineVars, runVars, late, clusterVars, faultVars>>

\* ObjectDeletedError, outside of the handlers in both loops.
VisitDeleted(w) ==
    /\ worker[w].step \in {"schedule", "refresh"}
    /\ \E r \in worker[w].queue : status[r] = "deleted"
    /\ AbortTick(w)
    /\ UNCHANGED <<pipelineVars, runVars, late, clusterVars, faultVars>>

PickPending(w) == Visit(w, "schedule", "create")

Target(w) == worker[w].run

NewJob(j, r) ==
    /\ job[j].state = "unused"
    /\ job' = [job EXCEPT ![j] = [run |-> r, state |-> "waiting"]]
    /\ present' = present \cup {j}

Scheduled(w, next, j) ==
    Do(w, [worker[w] EXCEPT !.step = "storeJob", !.next = next, !.job = j])

CreateJob(w) ==
    /\ worker[w].step = "create"
    /\ PipelineOf[Target(w)] \in Versioned
    /\ \E j \in Jobs : NewJob(j, Target(w)) /\ Scheduled(w, "scheduled", j)
    /\ UNCHANGED <<pipelineVars, runVars, late, faultVars>>

\* VersionIdNotSetError or ToolImageNotFoundError
RejectJob(w) ==
    /\ worker[w].step = "create"
    /\ PipelineOf[Target(w)] \notin Versioned
    /\ Scheduled(w, "unknown", NoJob)
    /\ UNCHANGED <<pipelineVars, runVars, late, clusterVars, faultVars>>

\* The call raises, whether or not the cluster created the job.
CreateJobFails(w) ==
    /\ worker[w].step = "create"
    /\ PipelineOf[Target(w)] \in Versioned
    /\ Fault
    /\ \/ UNCHANGED clusterVars
       \/ \E j \in Jobs : NewJob(j, Target(w))
    /\ Scheduled(w, "unknown", NoJob)
    /\ UNCHANGED <<pipelineVars, runVars, late>>

\* Only changed columns are written.
Changed(w) == worker[w].next # worker[w].seen

WriteStatus(w) ==
    status' = IF Changed(w) THEN [status EXCEPT ![Target(w)] = worker[w].next] ELSE status

BackTo(w, step) == Do(w, [NoWork EXCEPT !.step = step, !.queue = worker[w].queue])

\* Faulty variant: the run stays pending.
StoreReferenceOnly(w) ==
    /\ worker[w].step = "storeJob"
    /\ status[Target(w)] # "deleted"
    /\ reference' = [reference EXCEPT ![Target(w)] = worker[w].job]
    /\ BackTo(w, "schedule")
    /\ UNCHANGED <<pipelineVars, status, late, clusterVars, faultVars>>

StoreJob(w) ==
    /\ worker[w].step = "storeJob"
    /\ status[Target(w)] # "deleted"
    /\ WriteStatus(w)
    /\ reference' = IF worker[w].job # NoJob
                    THEN [reference EXCEPT ![Target(w)] = worker[w].job] ELSE reference
    /\ BackTo(w, "schedule")
    /\ UNCHANGED <<pipelineVars, late, clusterVars, faultVars>>

Refresh(w, runs) ==
    /\ worker[w].step = "schedule" /\ worker[w].queue = {}
    /\ Do(w, [NoWork EXCEPT !.step = "refresh", !.queue = runs])
    /\ UNCHANGED <<pipelineVars, runVars, late, clusterVars, faultVars>>

\* Faulty variant: running runs are not polled.
RefreshScheduled(w) == Refresh(w, {r \in Runs : status[r] = "scheduled"})

ScheduleDone(w) == Refresh(w, {r \in Runs : status[r] \in Active})

-----------------------------------------------------------------------------
(* The scheduler: _refresh_and_trigger_pipeline_jobs *)

PickActive(w) == Visit(w, "refresh", "poll")

\* Faulty variant: every job that has ended is a success.
EndedIsSuccess(s) ==
    CASE s = "waiting" -> "scheduled"
      [] s = "active" -> "running"
      [] s \in {"succeeded", "failed"} -> "success"
      [] s = "deadline" -> "timeout"

\* _map_k8s_to_internal_status
InternalStatus(s) ==
    CASE s = "waiting" -> "scheduled"
      [] s = "active" -> "running"
      [] s = "succeeded" -> "success"
      [] s = "failed" -> "failure"
      [] s = "deadline" -> "timeout"
      [] OTHER -> "unknown"

\* The timeout comes first; a job that cannot be found makes the run unknown.
PolledStatus(w) ==
    IF Target(w) \in late THEN "timeout"
    ELSE IF worker[w].job \in present THEN InternalStatus(job[worker[w].job].state)
    ELSE "unknown"

Polled(w, next) ==
    Do(w, [worker[w] EXCEPT !.step = IF next \in Final THEN "finish" ELSE "storeStatus",
                            !.next = next])

Poll(w) ==
    /\ worker[w].step = "poll"
    /\ Polled(w, PolledStatus(w))
    /\ UNCHANGED <<pipelineVars, runVars, late, clusterVars, faultVars>>

\* Faulty variant: after an ApiException the run is scheduled once more.
RetryRun(w) ==
    /\ worker[w].step = "poll" /\ Target(w) \notin late
    /\ Fault
    /\ Polled(w, "pending")
    /\ UNCHANGED <<pipelineVars, runVars, late, clusterVars>>

\* An ApiException makes the run unknown, another error leaves the status alone.
PollFails(w) ==
    /\ worker[w].step = "poll" /\ Target(w) \notin late
    /\ Fault
    /\ Polled(w, "unknown") \/ Polled(w, worker[w].seen)
    /\ UNCHANGED <<pipelineVars, runVars, late, clusterVars>>

Finished(w) == Do(w, [worker[w] EXCEPT !.step = "storeStatus"])

\* Faulty variant: the job stays in the cluster.
KeepJob(w) ==
    /\ worker[w].step = "finish"
    /\ Finished(w)
    /\ UNCHANGED <<pipelineVars, runVars, late, clusterVars, faultVars>>

\* _terminate_job deletes the job before the status is committed.
FinishJob(w) ==
    /\ worker[w].step = "finish"
    /\ present' = present \ {worker[w].job}
    /\ Finished(w)
    /\ UNCHANGED <<pipelineVars, runVars, late, job, faultVars>>

\* The failure is only logged.
FinishJobFails(w) ==
    /\ worker[w].step = "finish"
    /\ Fault
    /\ Finished(w)
    /\ UNCHANGED <<pipelineVars, runVars, late, clusterVars>>

StoreStatus(w) ==
    /\ worker[w].step = "storeStatus"
    /\ status[Target(w)] # "deleted"
    /\ WriteStatus(w)
    /\ BackTo(w, "refresh")
    /\ UNCHANGED <<pipelineVars, reference, late, clusterVars, faultVars>>

\* StaleDataError, unless the poll has changed nothing, not even the time of the logs.
StoreDeleted(w) ==
    /\ worker[w].step \in {"storeJob", "storeStatus"}
    /\ status[Target(w)] = "deleted"
    /\ \/ AbortTick(w)
       \/ worker[w].step = "storeStatus" /\ ~ Changed(w) /\ BackTo(w, "refresh")
    /\ UNCHANGED <<pipelineVars, runVars, late, clusterVars, faultVars>>

\* The commit fails.
StoreFails(w) ==
    /\ worker[w].step \in {"storeJob", "storeStatus"}
    /\ Fault
    /\ AbortTick(w)
    /\ UNCHANGED <<pipelineVars, runVars, late, clusterVars>>

RefreshDone(w) ==
    /\ worker[w].step = "refresh" /\ worker[w].queue = {}
    /\ Do(w, NoWork)
    /\ UNCHANGED <<pipelineVars, runVars, late, clusterVars, faultVars>>

\* The backend of scheduler w ends, and with it some of the requests for pipelines.
Crash(w) ==
    /\ crashes < MaxCrashes
    /\ crashes' = crashes + 1
    /\ Do(w, NoWork)
    /\ \E lost \in SUBSET {p \in Pipelines : progress[p] \in Creating \cup Deleting} :
        progress' = [p \in Pipelines |->
            IF p \in lost THEN IF progress[p] \in Creating THEN "failed" ELSE "stored"
            ELSE progress[p]]
    /\ UNCHANGED <<techUsers, cronjobs, forced, runVars, late, clusterVars, faults>>

-----------------------------------------------------------------------------

Manage(p) ==
    \/ AddTechUser(p) \/ AddTechUserFails(p) \/ RejectNightly(p)
    \/ CreateCronjob(p) \/ StorePipeline(p) \/ CreatePipelineFails(p)
    \/ RemoveTechUser(p) \/ RemoveTechUserFails(p)
    \/ DeleteCronjob(p) \/ DeletePipelineRow(p) \/ DeletePipelineFails(p)

Schedule(w) ==
    \/ Tick(w) \/ PickPending(w) \/ VisitDeleted(w)
    \/ CreateJob(w) \/ RejectJob(w) \/ CreateJobFails(w) \/ StoreJob(w) \/ ScheduleDone(w)
    \/ PickActive(w) \/ Poll(w) \/ PollFails(w) \/ FinishJob(w) \/ FinishJobFails(w)
    \/ StoreStatus(w) \/ StoreDeleted(w) \/ StoreFails(w) \/ RefreshDone(w)

Next ==
    \/ \E p \in Pipelines : Manage(p)
    \/ \E r \in Runs : TriggerRun(r) \/ TimeoutPasses(r)
    \/ \E j \in Jobs : (\E s \in JobStates : JobProceeds(j, s)) \/ JobExpires(j)
    \/ \E w \in Schedulers : Schedule(w) \/ Crash(w)

Spec == Init /\ [][Next]_vars

\* The scheduler is an endless loop in a worker thread, and time passes.
Fairness ==
    /\ \A w \in Schedulers : WF_vars(Schedule(w))
    /\ \A r \in Runs : WF_vars(TimeoutPasses(r))

FairSpec == Spec /\ Fairness

-----------------------------------------------------------------------------
(* Properties *)

\* The outcome a user reads off a run is the outcome of the job it refers to.
FaithfulResult ==
    \A r \in Runs :
        /\ status[r] = "success" => job[reference[r]].state = "succeeded"
        /\ status[r] = "failure" => job[reference[r]].state = "failed"

\* Unless a call failed or a backend crashed, a job in the cluster is watched: its
\* run is active and refers to it, or the scheduler is just about to store that.
JobsWatched ==
    faults = 0 /\ crashes = 0 =>
        \A j \in present :
            LET r == job[j].run IN
            \/ status[r] = "deleted"
            \/ status[r] \in Active /\ reference[r] = j
            \/ \E w \in Schedulers : Target(w) = r /\ worker[w].job = j

\* Every scheduler creates at most one job for a run, however their ticks overlap; only
\* a failed call or a crash between creating the job and storing its name makes one of
\* them create another.
OneJobPerScheduler ==
    \A r \in Runs :
        Cardinality({j \in Jobs : job[j].run = r}) <= Cardinality(Schedulers) + faults + crashes

\* A run that is shown as a success or a failure has a job of its own that ended this way,
\* even if several schedulers work on the run and it refers to another of its jobs.
OwnOutcome ==
    \A r \in Runs :
        /\ status[r] = "success" => \E j \in Jobs : job[j].run = r /\ job[j].state = "succeeded"
        /\ status[r] = "failure" => \E j \in Jobs : job[j].run = r /\ job[j].state = "failed"

\* A deleted pipeline is not run at night any more, and its technical user is gone
\* unless the deletion was forced, whatever failed in earlier attempts.
DeletedPipelineClean ==
    \A p \in Pipelines :
        progress[p] = "deleted" => p \notin cronjobs /\ (p \in techUsers => p \in forced)

Contract == INSTANCE RunContract WITH state <- status

\* The status of a run moves forward only and keeps its final value: a poll never
\* overwrites what another step has stored (one scheduler).
ImplementsRunContract == Contract!ContractSpec

\* Every pending run ends, whatever happens to the other runs and pipelines.
RunEnds == \A r \in Runs : status[r] = "pending" ~> status[r] \in Final \cup {"deleted"}

-----------------------------------------------------------------------------
(* The inductive invariant behind FaithfulResult and ImplementsRunContract,  *)
(* for a single scheduler *)

OneScheduler == \A w1, w2 \in Schedulers : w1 = w2

\* What status s says about job j, which the job cannot take back.
Agrees(s, j) ==
    /\ s \in Active \cup {"success", "failure"} => j \in Jobs
    /\ s = "running" => job[j].state \notin {"unused", "waiting"}
    /\ s = "success" => job[j].state = "succeeded"
    /\ s = "failure" => job[j].state = "failed"

ReferenceInv == \A r \in Runs : Agrees(status[r], reference[r])

\* The runs still to be visited are as the query found them, or deleted.
QueueInv ==
    \A w \in Schedulers :
        /\ Target(w) \notin worker[w].queue
        /\ worker[w].step \in {"schedule", "create", "storeJob"} =>
              \A r \in worker[w].queue : status[r] \in {"pending", "deleted"}
        /\ worker[w].step \in {"refresh", "poll", "finish", "storeStatus"} =>
              \A r \in worker[w].queue : status[r] \in Active \cup {"deleted"}

\* The run being worked on is as it was loaded, or deleted.
ScheduleInv ==
    \A w \in Schedulers :
        /\ worker[w].step \in {"create", "storeJob"} =>
              /\ Target(w) \in Runs
              /\ worker[w].seen = "pending"
              /\ status[Target(w)] \in {"pending", "deleted"}
        /\ worker[w].step = "storeJob" =>
              \/ worker[w].next = "scheduled" /\ worker[w].job \in Jobs
              \/ worker[w].next = "unknown"

RefreshInv ==
    \A w \in Schedulers :
        /\ worker[w].step \in {"poll", "finish", "storeStatus"} =>
              /\ Target(w) \in Runs
              /\ worker[w].seen \in Active
              /\ status[Target(w)] \in {worker[w].seen, "deleted"}
              /\ status[Target(w)] # "deleted" => reference[Target(w)] = worker[w].job
              /\ Agrees(worker[w].seen, worker[w].job)
        /\ worker[w].step \in {"finish", "storeStatus"} =>
              /\ worker[w].next \in Active \cup Final
              /\ worker[w].seen = "running" => worker[w].next # "scheduled"
              /\ Agrees(worker[w].next, worker[w].job)

PipelinesInv == ReferenceInv /\ QueueInv /\ ScheduleInv /\ RefreshInv

=============================================================================
