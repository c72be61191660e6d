--------------------------- MODULE ProjectAudit ---------------------------
(***************************************************************************)
(* The life of an analysis job: admission, the process-local task that     *)
(* runs it under the concurrency semaphore, cooperative cancellation, the  *)
(* execution workspace, and what a crash, a shutdown and a restart make    *)
(* of it (backend/app/main.py, services.py and storage.py).                *)
(*                                                                         *)
(* The backend is one asyncio process, so the code between two awaits is   *)
(* one action.  "status", "latest", "source" and "workspace" are on disk;  *)
(* "task", "signal" and "permits" die with the process.                    *)
(***************************************************************************)
EXTENDS Naturals, FiniteSets

CONSTANTS
    Jobs,                   \* bound: the job ids one behaviour may use
    Projects,               \* projects whose source is an archive
    SbomProjects,           \* projects whose source is a normalized SBOM
    Owners,
    OwnerOf,                \* the owner of each project
    NoProject, NoJob,
    MaxConcurrency,         \* settings.audit_max_concurrency
    MaxInflight,            \* settings.audit_max_inflight_jobs
    MaxInflightPerOwner,    \* settings.audit_max_inflight_jobs_per_owner
    MaxRestarts             \* bound: crashes and shutdowns in one behaviour

AllProjects == Projects \union SbomProjects

ASSUME AuditConstants ==
    /\ IsFiniteSet(Jobs)
    /\ Owners # {}
    /\ OwnerOf \in [AllProjects -> Owners]
    /\ Projects \intersect SbomProjects = {}
    /\ NoProject \notin AllProjects
    /\ NoJob \notin Jobs
    /\ MaxConcurrency \in Nat \ {0}
    /\ MaxInflight \in Nat /\ MaxInflightPerOwner \in Nat /\ MaxRestarts \in Nat

VARIABLES
    status,     \* JobRecord.status; "none": id unused, "deleted": record gone
    binding,    \* the immutable project_id, owner_id and retry_of_job_id
    latest,     \* ProjectRecord.latest_job_id
    source,     \* projects whose current source file is retained
    workspace,  \* jobs with a directory under data/workspaces
    task,       \* where run_bounded_audit of a job stands
    signal,     \* jobs whose cancellation event is set
    permits,    \* audit_semaphore
    event,      \* the status in the integration event enqueued for a job
    calls,      \* requests for a job that reached the isolated runner
    phase,      \* the process: "up", "down", or "boot" (inside lifespan)
    restarts

vars == <<status, binding, latest, source, workspace, task, signal, permits,
          event, calls, phase, restarts>>

Inflight == {"queued", "running", "cancelling"}
Terminal == {"completed", "failed", "cancelled"}
Status == Inflight \union Terminal \union {"none", "deleted"}

\* scheduled: added to the response's background tasks (or create_task'd)
\* waiting:   event registered, acquire() pending
\* granted:   acquire() done, run_bounded_audit not yet resumed
\* starting:  work_task created, its first step not run
\* working:   work_task awaits the runner
\* done, raised: work_task returned, or ended in an exception
Registered == {"waiting", "granted", "starting", "working", "done", "raised"}
Holding == {"granted", "starting", "working", "done", "raised"}
TaskState == Registered \union {"idle", "scheduled"}

Binding == [project: AllProjects \union {NoProject}, owner: Owners,
            retry: Jobs \union {NoJob}]

Unbound == [project |-> NoProject, owner |-> CHOOSE o \in Owners : TRUE, retry |-> NoJob]

TypeOK ==
    /\ status \in [Jobs -> Status]
    /\ binding \in [Jobs -> Binding]
    /\ latest \in [AllProjects -> Jobs \union {NoJob}]
    /\ source \in SUBSET AllProjects
    /\ workspace \in SUBSET Jobs
    /\ task \in [Jobs -> TaskState]
    /\ signal \in SUBSET Jobs
    /\ permits \in 0..MaxConcurrency
    /\ event \in [Jobs -> Terminal \union {"none"}]
    /\ calls \in [Jobs -> Nat]
    /\ phase \in {"up", "down", "boot"}
    /\ restarts \in 0..MaxRestarts

Init ==
    /\ status = [j \in Jobs |-> "none"]
    /\ binding = [j \in Jobs |-> Unbound]
    /\ latest = [p \in AllProjects |-> NoJob]
    /\ source = AllProjects
    /\ workspace = {}
    /\ task = [j \in Jobs |-> "idle"]
    /\ signal = {}
    /\ permits = MaxConcurrency
    /\ event = [j \in Jobs |-> "none"]
    /\ calls = [j \in Jobs |-> 0]
    /\ phase = "up"
    /\ restarts = 0

-----------------------------------------------------------------------------
(* JobStore.                                                               *)

IsProjectJob(j) == binding[j].project # NoProject

InflightJobs == {j \in Jobs : status[j] \in Inflight}

HasActiveProjectJob(p) == \E j \in InflightJobs : binding[j].project = p

\* Mutant of AdmissionAvailable.
CountWithoutCancelling(o) ==
    Cardinality({j \in InflightJobs : status[j] # "cancelling"}) < MaxInflight

\* _assert_admission_available_unlocked: otherwise 429.
AdmissionAvailable(o) ==
    /\ Cardinality(InflightJobs) < MaxInflight
    /\ Cardinality({j \in InflightJobs : binding[j].owner = o}) < MaxInflightPerOwner

\* JobStore.update: a cancelled record ignores every other status, and a
\* deleted one raises 404 before anything is written.
Updated(j, s) == IF status[j] \in {"cancelled", "deleted"} THEN status[j] ELSE s

\* mark_cancelled goes through update too.
Cancelled(j) == IF status[j] = "deleted" THEN "deleted" ELSE "cancelled"

\* enqueue_terminal_project_analysis_event: idempotent by analysis id.
Notified(j, s) ==
    IF IsProjectJob(j) /\ s \in Terminal /\ event[j] = "none" THEN s ELSE event[j]

\* Mutant of Interrupted.
KeepCancelling(j) ==
    status[j] = "running" \/ (status[j] = "queued" /\ ~IsProjectJob(j))

\* recover_interrupted_jobs with both preserve flags.
Interrupted(j) ==
    /\ status[j] \in Inflight
    /\ ~(status[j] = "queued" /\ IsProjectJob(j))

\* Mutant of Recovered.
RequeueRunning ==
    [j \in Jobs |-> IF status[j] = "running" THEN "queued"
                    ELSE IF Interrupted(j) THEN "failed" ELSE status[j]]

Recovered == [j \in Jobs |-> IF Interrupted(j) THEN "failed" ELSE status[j]]

-----------------------------------------------------------------------------
(* Requests.                                                               *)

Bind(j, p, o, r) ==
    binding' = [binding EXCEPT ![j] = [project |-> p, owner |-> o, retry |-> r]]

RetryTargets(p) ==
    {NoJob} \union {k \in Jobs : binding[k].project = p /\ status[k] \in {"failed", "cancelled"}}

MayLaunch(j, p) ==
    /\ phase = "up"
    /\ status[j] = "none"
    /\ p \in source
    /\ ~HasActiveProjectJob(p)
    /\ AdmissionAvailable(OwnerOf[p])

\* launch_project_analysis of an archive: create, attach_job, schedule.
LaunchAnalysis(j, p) ==
    /\ MayLaunch(j, p)
    /\ \E r \in RetryTargets(p) : Bind(j, p, OwnerOf[p], r)
    /\ status' = [status EXCEPT ![j] = "queued"]
    /\ latest' = [latest EXCEPT ![p] = j]
    /\ task' = [task EXCEPT ![j] = "scheduled"]
    /\ UNCHANGED <<source, workspace, signal, permits, event, calls, phase, restarts>>

\* launch_project_analysis of an SBOM: the job completes in the request.
LaunchSbom(j, p) ==
    /\ MayLaunch(j, p)
    /\ \E r \in RetryTargets(p) : Bind(j, p, OwnerOf[p], r)
    /\ status' = [status EXCEPT ![j] = "completed"]
    /\ latest' = [latest EXCEPT ![p] = j]
    /\ event' = [event EXCEPT ![j] = "completed"]
    /\ UNCHANGED <<source, workspace, task, signal, permits, calls, phase, restarts>>

\* The audits of a single file (PDF, image, manifest, archive...): no
\* project, no workspace, no cancellation endpoint, no event.
LaunchFileAudit(j, o) ==
    /\ phase = "up"
    /\ status[j] = "none"
    /\ AdmissionAvailable(o)
    /\ Bind(j, NoProject, o, NoJob)
    /\ status' = [status EXCEPT ![j] = "queued"]
    /\ task' = [task EXCEPT ![j] = "scheduled"]
    /\ UNCHANGED <<latest, source, workspace, signal, permits, event, calls, phase, restarts>>

\* cancel_project_analysis: request_cancellation, then set the event; with
\* no event registered the record is closed at once.
CancelAnalysis(j) ==
    /\ phase = "up"
    /\ IsProjectJob(j)
    /\ status[j] \in Inflight \union {"cancelled"}
    /\ IF task[j] \in Registered
       THEN /\ status' = [status EXCEPT ![j] = IF @ = "cancelled" THEN @ ELSE "cancelling"]
            /\ signal' = signal \union {j}
            /\ UNCHANGED workspace
       ELSE /\ status' = [status EXCEPT ![j] = "cancelled"]
            /\ workspace' = IF status[j] = "cancelled" THEN workspace ELSE workspace \ {j}
            /\ UNCHANGED signal
    /\ UNCHANGED <<binding, latest, source, task, permits, event, calls, phase, restarts>>

\* JobStore.delete, and purge_expired_terminal (also run by lifespan) after
\* its second check.
DeleteJob(j) ==
    /\ phase # "down"
    /\ status[j] \in Terminal
    /\ status' = [status EXCEPT ![j] = "deleted"]
    /\ UNCHANGED <<binding, latest, source, workspace, task, signal, permits, event, calls, phase, restarts>>

\* delete_file: no check that an analysis needs the source.
DeleteSource(p) ==
    /\ phase = "up"
    /\ p \in source
    /\ source' = source \ {p}
    /\ UNCHANGED <<status, binding, latest, workspace, task, signal, permits, event, calls, phase, restarts>>

-----------------------------------------------------------------------------
(* run_bounded_audit and the service it runs.                              *)

\* The first step of the background task registers the event.
StartTask(j) ==
    /\ phase = "up"
    /\ task[j] = "scheduled"
    /\ task' = [task EXCEPT ![j] = "waiting"]
    /\ UNCHANGED <<status, binding, latest, source, workspace, signal, permits, event, calls, phase, restarts>>

Acquire(j) ==
    /\ task[j] = "waiting"
    /\ permits > 0
    /\ permits' = permits - 1
    /\ task' = [task EXCEPT ![j] = "granted"]
    /\ UNCHANGED <<status, binding, latest, source, workspace, signal, event, calls, phase, restarts>>

BeginWork(j) ==
    /\ task[j] = "granted"
    /\ j \notin signal
    /\ task' = [task EXCEPT ![j] = "starting"]
    /\ UNCHANGED <<status, binding, latest, source, workspace, signal, permits, event, calls, phase, restarts>>

\* The task is over with status s: the finally blocks of run_bounded_audit
\* and run_scheduled_project_archive.
Over(j, s) ==
    /\ status' = [status EXCEPT ![j] = s]
    /\ event' = [event EXCEPT ![j] = Notified(j, s)]
    /\ task' = [task EXCEPT ![j] = "idle"]
    /\ signal' = signal \ {j}
    /\ UNCHANGED <<binding, latest, source, calls, phase, restarts>>

\* The permits after a cancelled wait.  If acquire() had completed too when
\* asyncio.wait returned, "acquired" is still False and the permit is not
\* released; if the event was set after that, it is.
PermitsAfterCancelledWait(j) ==
    IF task[j] = "granted" THEN {permits, permits + 1} ELSE {permits}

CancelWhileWaiting(j) ==
    /\ task[j] \in {"waiting", "granted"}
    /\ j \in signal
    /\ permits' \in PermitsAfterCancelledWait(j)
    /\ workspace' = workspace \ {j}
    /\ Over(j, Cancelled(j))

\* The first step of the service: update(running), files.get, prepare the
\* workspace and post to the runner, with no await before the post.
RunWork(j) ==
    /\ task[j] = "starting"
    /\ \/ \* the record or the source is gone: 404 escapes the service
          /\ \/ status[j] = "deleted"
             \/ binding[j].project \notin source
          /\ status' = [status EXCEPT ![j] = Updated(j, "running")]
          /\ task' = [task EXCEPT ![j] = "raised"]
          /\ UNCHANGED <<workspace, calls>>
       \/ \* ExecutionWorkspaceError
          /\ status[j] # "deleted"
          /\ binding[j].project \in source
          /\ status' = [status EXCEPT ![j] = Updated(j, "failed")]
          /\ task' = [task EXCEPT ![j] = "done"]
          /\ UNCHANGED <<workspace, calls>>
       \/ /\ status[j] # "deleted"
          /\ binding[j].project \in source \union {NoProject}
          /\ status' = [status EXCEPT ![j] = Updated(j, "running")]
          /\ task' = [task EXCEPT ![j] = "working"]
          /\ workspace' = IF IsProjectJob(j) THEN workspace \union {j} ELSE workspace
          /\ calls' = [calls EXCEPT ![j] = @ + 1]
    /\ UNCHANGED <<binding, latest, source, signal, permits, event, phase, restarts>>

\* The runner's answer or the client timeout, up to the end of work_task.
RunnerAnswers(j) ==
    /\ task[j] = "working"
    /\ \E s \in {"completed", "failed"} : status' = [status EXCEPT ![j] = Updated(j, s)]
    /\ task' = [task EXCEPT ![j] = "done"]
    /\ workspace' = workspace \ {j}
    /\ UNCHANGED <<binding, latest, source, signal, permits, event, calls, phase, restarts>>

\* The event wakes run_bounded_audit before work_task is done.
StopWork(j) ==
    /\ task[j] = "working"
    /\ j \in signal
    /\ permits' = permits + 1
    /\ workspace' = workspace \ {j}
    /\ Over(j, Cancelled(j))

FinishTask(j) ==
    /\ \/ task[j] = "done" /\ Over(j, status[j])
       \/ task[j] = "raised" /\ Over(j, IF status[j] \in Inflight THEN "failed" ELSE status[j])
    /\ permits' = permits + 1
    /\ UNCHANGED workspace

-----------------------------------------------------------------------------
(* Crash, shutdown and startup.                                            *)

ProcessGone ==
    /\ restarts < MaxRestarts
    /\ restarts' = restarts + 1
    /\ phase' = "down"
    /\ task' = [j \in Jobs |-> "idle"]
    /\ signal' = {}
    /\ permits' = MaxConcurrency

Crash ==
    /\ phase # "down"
    /\ ProcessGone
    /\ UNCHANGED <<status, binding, latest, source, workspace, event, calls>>

\* The process dies between the two writes of a launch: the job is saved,
\* latest_job_id is not.
CrashInLaunch(j, p) ==
    /\ MayLaunch(j, p)
    /\ \E r \in RetryTargets(p) : Bind(j, p, OwnerOf[p], r)
    /\ status' = [status EXCEPT ![j] = "queued"]
    /\ ProcessGone
    /\ UNCHANGED <<latest, source, workspace, event, calls>>

\* stop_tracked_audits, recover_interrupted_jobs("application_shutdown"),
\* cleanup_orphans.  The finally of a stopped task still enqueues an event
\* if its job was terminal already.
Shutdown ==
    /\ phase = "up"
    /\ ProcessGone
    /\ status' = Recovered
    /\ workspace' = {}
    /\ event' = [j \in Jobs |-> IF task[j] \in Registered THEN Notified(j, status[j]) ELSE event[j]]
    /\ UNCHANGED <<binding, latest, source, calls>>

\* Mutant of BootRecover.
BootWithoutCleanup ==
    /\ phase = "down"
    /\ phase' = "boot"
    /\ status' = Recovered
    /\ UNCHANGED <<binding, latest, source, workspace, task, signal, permits, event, calls, restarts>>

\* lifespan: recover_interrupted_jobs, cleanup_orphans.
BootRecover ==
    /\ phase = "down"
    /\ phase' = "boot"
    /\ status' = Recovered
    /\ workspace' = {}
    /\ UNCHANGED <<binding, latest, source, task, signal, permits, event, calls, restarts>>

\* queued_project_recovery_rejection, the conditions this model tells apart.
RecoveryRejected(j) ==
    LET p == binding[j].project
        r == binding[j].retry IN
    \/ p \notin source
    \/ latest[p] # j
    \/ r # NoJob /\ status[r] \notin {"failed", "cancelled"}

\* Mutant of AwaitsResume.
NeverResumed(j) == FALSE

AwaitsResume(j) == status[j] = "queued" /\ task[j] = "idle" /\ IsProjectJob(j)

\* resume_queued_project_jobs, one iteration.  A changed execution contract
\* or a damaged source is a rejection at any time.
ResumeQueued(j) ==
    /\ phase = "boot"
    /\ AwaitsResume(j)
    /\ \/ /\ status' = [status EXCEPT ![j] = "failed"]
          /\ workspace' = workspace \ {j}
          /\ UNCHANGED task
       \/ /\ ~RecoveryRejected(j)
          /\ task' = [task EXCEPT ![j] = "scheduled"]
          /\ UNCHANGED <<status, workspace>>
    /\ UNCHANGED <<binding, latest, source, signal, permits, event, calls, phase, restarts>>

BootDone ==
    /\ phase = "boot"
    /\ \A j \in Jobs : ~AwaitsResume(j)
    /\ phase' = "up"
    /\ UNCHANGED <<status, binding, latest, source, workspace, task, signal, permits, event, calls, restarts>>

-----------------------------------------------------------------------------
TaskStep(j) ==
    \/ StartTask(j) \/ Acquire(j) \/ BeginWork(j) \/ CancelWhileWaiting(j)
    \/ RunWork(j) \/ RunnerAnswers(j) \/ StopWork(j) \/ FinishTask(j)

Next ==
    \/ \E j \in Jobs :
        \/ \E p \in Projects : LaunchAnalysis(j, p) \/ CrashInLaunch(j, p)
        \/ \E p \in SbomProjects : LaunchSbom(j, p)
        \/ \E o \in Owners : LaunchFileAudit(j, o)
        \/ CancelAnalysis(j) \/ DeleteJob(j) \/ TaskStep(j) \/ ResumeQueued(j)
    \/ \E p \in AllProjects : DeleteSource(p)
    \/ Crash \/ Shutdown \/ BootRecover \/ BootDone

\* The event loop runs every ready task, the runner answers within the
\* client timeout, and a stopped process is started again.
Fairness ==
    /\ \A j \in Jobs : WF_vars(TaskStep(j)) /\ WF_vars(ResumeQueued(j))
    /\ WF_vars(BootRecover) /\ WF_vars(BootDone)

Spec == Init /\ [][Next]_vars /\ Fairness

-----------------------------------------------------------------------------
(* Properties.                                                             *)

Holders == {j \in Jobs : task[j] \in Holding}

\* A live process has no workspace that no work_task will remove: every exit
\* of the service, every cancellation and every startup cleans up.
NoOrphanWorkspace ==
    phase = "up" => \A j \in workspace : task[j] = "working"

\* A job that counts against the admission limits and blocks its project
\* (409) is owned by a task that will end it: neither cancellation nor a
\* restart strands a queued, running or cancelling record.
InflightHasTask ==
    phase = "up" => \A j \in InflightJobs : task[j] # "idle"

\* An analysis is posted to the runner at most once, whatever is cancelled,
\* interrupted, requeued or rejected on the way.
RunnerCalledOnce == \A j \in Jobs : calls[j] <= 1

\* The semaphore never lets more tasks in than MaxConcurrency, and is never
\* released by a task that did not acquire it.
ConcurrencyBound == Cardinality(Holders) + permits <= MaxConcurrency

\* A project never has two analyses in flight: no late update of a cancelled
\* job brings it back beside the analysis launched after it.
OneActivePerProject ==
    \A j, k \in InflightJobs :
        IsProjectJob(j) /\ binding[j].project = binding[k].project => j = k

\* The jobs in flight never exceed the global limit nor that of an owner.
LimitsHold ==
    /\ Cardinality(InflightJobs) <= MaxInflight
    /\ \A o \in Owners :
        Cardinality({j \in InflightJobs : binding[j].owner = o}) <= MaxInflightPerOwner

\* What admission promises survives everything that happens to the admitted:
\* one analysis in flight per project, and the global and per-owner limits.
AdmissionBound == OneActivePerProject /\ LimitsHold

\* A terminal record is never reopened nor given another outcome; retrying
\* takes a new id.
TerminalIsFinal ==
    [][\A j \in Jobs : status[j] \in Terminal => status'[j] \in {status[j], "deleted"}]_vars

\* Every job in flight ends, through cancellations, crashes and restarts,
\* unless cancelled waits have leaked every permit of the semaphore.
InflightEnds ==
    \A j \in Jobs : status[j] \in Inflight
        ~> (status[j] \notin Inflight \/ Cardinality(Holders) + permits = 0)

\* docs/product-projects.md:730-732: terminal states release capacity.  Every
\* permit is free or held by a task.
PermitsConserved == Cardinality(Holders) + permits = MaxConcurrency
=============================================================================
