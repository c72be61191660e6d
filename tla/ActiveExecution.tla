-------------------------- MODULE ActiveExecution --------------------------
(***************************************************************************)
(* Active executions: reviews of a registered asset that contact an        *)
(* external runner under an authorization revision.  The module composes   *)
(* the asset registry (active_assets.py), the durable job (storage.py),    *)
(* its process-local task and stop watcher and the recurrence dispatcher   *)
(* (active_recurrence.py), as main.py does.                                *)
(*                                                                         *)
(* One asyncio process: the code between two awaits is one action.  Time   *)
(* is left out: an authorization may expire, an occurrence may fall due    *)
(* and the watcher may poll at any moment.  A change of scope always comes *)
(* with a new revision, so the scope itself is left out too.               *)
(***************************************************************************)
EXTENDS Naturals, FiniteSets

CONSTANTS
    Jobs,           \* bound: the job ids one behaviour may use
    Assets,
    Capabilities,
    Orgs, OrgOf,    \* the organization of each asset
    Recurrences,
    AssetOf, CapabilityOf,  \* the exact tuple of each recurrence
    NoJob, NoRec,
    MaxActive,          \* settings.active_max_inflight_jobs
    MaxPerOrg,          \* active_max_inflight_jobs_per_organization
    MaxPerAsset,        \* active_max_inflight_jobs_per_asset
    MaxPerCapability,   \* active_max_inflight_jobs_per_capability
    MaxRevision,    \* ACTIVE_AUTHORIZATION_MAX_REVISIONS
    MaxOccurrence,  \* bound: occurrences of a recurrence
    MaxRestarts     \* bound: crashes and shutdowns in one behaviour

ASSUME ActiveConstants ==
    /\ IsFiniteSet(Jobs)
    /\ OrgOf \in [Assets -> Orgs]
    /\ AssetOf \in [Recurrences -> Assets]
    /\ CapabilityOf \in [Recurrences -> Capabilities]
    /\ NoJob \notin Jobs /\ NoRec \notin Recurrences
    /\ MaxActive \in Nat /\ MaxPerOrg \in Nat /\ MaxPerAsset \in Nat
    /\ MaxPerCapability \in Nat
    /\ MaxRevision \in Nat \ {0} /\ MaxOccurrence \in Nat /\ MaxRestarts \in Nat

VARIABLES
    auth,       \* ActiveAssetRecord.status
    revision,   \* the sequence of the asset's current authorization revision
    rec,        \* ActiveRecurrenceRecord; occ numbers next_run_at
    snap,       \* the records the current tick listed
    batch,      \* recurrences the current tick has not reached
    checking,   \* the recurrence whose tick awaits the runner's health
    status,     \* JobRecord.status; "none": id unused, "deleted": record gone
    binding,    \* what the job was admitted for
    task,       \* where run_durable_active_execution of a job stands
    fired,      \* jobs whose stop watcher has returned
    contacts,   \* requests for a job that reached the runner
    phase,
    restarts

assetVars == <<auth, revision>>
recVars == <<rec, snap, batch, checking>>
jobVars == <<status, binding, task, fired, contacts>>
vars == <<assetVars, recVars, jobVars, phase, restarts>>

Inflight == {"queued", "running", "cancelling"}
Terminal == {"completed", "failed", "cancelled"}
Status == Inflight \union Terminal \union {"none", "deleted"}

\* scheduled: in scheduled_active_execution_job_ids, not started
\* executing: claimed; execution_task waits for the semaphore
\* calling:   execution_task awaits the runner
\* answered, broken: execution_task returned, or ended in an exception
Executing == {"executing", "calling", "answered", "broken"}
TaskState == Executing \union {"idle", "scheduled"}

\* The idempotency key of a job: an occurrence, or a key of its own.
Occurrence == [of: Recurrences \union {NoRec}, number: 0..MaxOccurrence]
OwnKey == [of |-> NoRec, number |-> 0]

Binding == [asset: Assets, capability: Capabilities, revision: 1..MaxRevision,
            retry: Jobs \union {NoJob}, key: Occurrence]

\* disarmed: paused, or no record
RecStatus == {"disarmed", "active", "suspended"}
RecRecord == [status: RecStatus, revision: 1..MaxRevision, occ: 0..MaxOccurrence]
Blank == [r \in Recurrences |-> [status |-> "disarmed", revision |-> 1, occ |-> 0]]

TypeOK ==
    /\ auth \in [Assets -> {"active", "expired", "revoked"}]
    /\ revision \in [Assets -> 1..MaxRevision]
    /\ rec \in [Recurrences -> RecRecord]
    /\ snap \in [Recurrences -> RecRecord]
    /\ batch \in SUBSET Recurrences
    /\ checking \in Recurrences \union {NoRec}
    /\ status \in [Jobs -> Status]
    /\ binding \in [Jobs -> Binding]
    /\ task \in [Jobs -> TaskState]
    /\ fired \in SUBSET Jobs
    /\ contacts \in [Jobs -> Nat]
    /\ phase \in {"up", "down"}
    /\ restarts \in 0..MaxRestarts

Init ==
    /\ auth = [a \in Assets |-> "active"]
    /\ revision = [a \in Assets |-> 1]
    /\ rec = Blank
    /\ snap = Blank
    /\ batch = {}
    /\ checking = NoRec
    /\ status = [j \in Jobs |-> "none"]
    /\ \E a \in Assets, c \in Capabilities :
        binding = [j \in Jobs |-> [asset |-> a, capability |-> c, revision |-> 1,
                                   retry |-> NoJob, key |-> OwnKey]]
    /\ task = [j \in Jobs |-> "idle"]
    /\ fired = {}
    /\ contacts = [j \in Jobs |-> 0]
    /\ phase = "up"
    /\ restarts = 0

-----------------------------------------------------------------------------
(* The asset registry.                                                     *)

\* assert_executable with an expected revision.
Executable(a, v) == auth[a] = "active" /\ revision[a] = v

\* _materialize_status: expires_at has passed.
Expire(a) ==
    /\ auth[a] = "active"
    /\ auth' = [auth EXCEPT ![a] = "expired"]
    /\ UNCHANGED <<revision, recVars, jobVars, phase, restarts>>

\* suspend_for_asset: only active records change.
SuspendedFor(a) ==
    [r \in Recurrences |->
        IF AssetOf[r] = a /\ rec[r].status = "active"
        THEN [rec[r] EXCEPT !.status = "suspended"] ELSE rec[r]]

\* renew_active_asset: a new revision; a revoked asset never comes back.
Renew(a) ==
    /\ phase = "up"
    /\ auth[a] # "revoked"
    /\ revision[a] < MaxRevision
    /\ auth' = [auth EXCEPT ![a] = "active"]
    /\ revision' = [revision EXCEPT ![a] = @ + 1]
    /\ rec' = SuspendedFor(a)
    /\ UNCHANGED <<snap, batch, checking, jobVars, phase, restarts>>

\* request_active_authorization_revocation.
AfterRevocation(j) ==
    CASE status[j] = "queued" -> "cancelled"
      [] status[j] \in {"running", "cancelling"} -> "cancelling"
      [] OTHER -> status[j]

\* revoke_active_asset: the registry, the recurrences, then every job in
\* flight.  A second revocation repeats the last two.
Revoke(a) ==
    /\ phase = "up"
    /\ auth' = [auth EXCEPT ![a] = "revoked"]
    /\ rec' = SuspendedFor(a)
    /\ status' = [j \in Jobs |-> IF binding[j].asset = a THEN AfterRevocation(j) ELSE status[j]]
    /\ UNCHANGED <<revision, snap, batch, checking, binding, task, fired, contacts, phase, restarts>>

-----------------------------------------------------------------------------
(* The durable job.                                                        *)

InflightJobs == {j \in Jobs : status[j] \in Inflight}

\* _assert_active_admission_available_unlocked: otherwise 429.
AdmissionAvailable(a, c) ==
    /\ Cardinality(InflightJobs) < MaxActive
    /\ Cardinality({j \in InflightJobs : OrgOf[binding[j].asset] = OrgOf[a]}) < MaxPerOrg
    /\ Cardinality({j \in InflightJobs : binding[j].asset = a}) < MaxPerAsset
    /\ Cardinality({j \in InflightJobs : binding[j].capability = c}) < MaxPerCapability

\* JobStore.update: a cancelled record ignores every other status.
Updated(j, s) == IF status[j] = "cancelled" THEN "cancelled" ELSE s

\* create_active_asset_execution_job saves a queued record under a new id.
Create(j, a, c, v, r, k) ==
    /\ status[j] = "none"
    /\ j = CHOOSE i \in Jobs : status[i] = "none"  \* ids are interchangeable
    /\ AdmissionAvailable(a, c)
    /\ binding' = [binding EXCEPT ![j] = [asset |-> a, capability |-> c, revision |-> v,
                                          retry |-> r, key |-> k]]

\* queued_active_recovery_rejection, the conditions this model tells apart.
RecoveryRejected(j) ==
    LET r == binding[j].retry IN
    \/ ~Executable(binding[j].asset, binding[j].revision)
    \/ r # NoJob /\ status[r] \notin {"failed", "cancelled"}

\* The previous attempts the launch endpoint and the retry endpoint accept.
RetryTargets(a, c) ==
    {NoJob} \union {k \in Jobs : /\ binding[k].asset = a /\ binding[k].capability = c
                                 /\ status[k] \in {"failed", "cancelled"}}

\* launch_active_asset_execution and retry_active_asset_execution after the
\* health check.  admit_execution refuses an asset whose history is full.  A
\* replayed key returns the existing job and changes nothing.
Launch(j, a, c) ==
    /\ phase = "up"
    /\ auth[a] = "active"
    /\ \E r \in RetryTargets(a, c) : Create(j, a, c, revision[a], r, OwnKey)
    /\ \/ /\ status' = [status EXCEPT ![j] = "queued"]
          /\ task' = [task EXCEPT ![j] = "scheduled"]
       \/ /\ status' = [status EXCEPT ![j] = "failed"]
          /\ UNCHANGED task
    /\ UNCHANGED <<assetVars, recVars, fired, contacts, phase, restarts>>

\* cancel_active_asset_execution.  The event it sets is only read together
\* with the status, so the status stands for both.
Cancel(j) ==
    /\ phase = "up"
    /\ status[j] \in Inflight \union {"cancelled"}
    /\ status' = [status EXCEPT ![j] =
            CASE @ = "queued" -> "cancelled" [] @ = "cancelled" -> @ [] OTHER -> "cancelling"]
    /\ UNCHANGED <<assetVars, recVars, binding, task, fired, contacts, phase, restarts>>

\* JobStore.delete
DeleteJob(j) ==
    /\ phase = "up"
    /\ status[j] \in Terminal
    /\ status' = [status EXCEPT ![j] = "deleted"]
    /\ UNCHANGED <<assetVars, recVars, binding, task, fired, contacts, phase, restarts>>

-----------------------------------------------------------------------------
(* run_durable_active_execution.                                           *)

\* claim_queued_active_execution: the compare-and-set.
Claimable(j) == status[j] = "queued"

\* Claim, revalidate against the admitted revision, register the events and
\* create execution_task and the watcher, with no await.
Claim(j) ==
    /\ task[j] = "scheduled"
    /\ \/ /\ Claimable(j)
          /\ ~RecoveryRejected(j)
          /\ status' = [status EXCEPT ![j] = "running"]
          /\ task' = [task EXCEPT ![j] = "executing"]
       \/ \* a changed execution profile or gate is a rejection at any time
          /\ Claimable(j)
          /\ status' = [status EXCEPT ![j] = "failed"]
          /\ task' = [task EXCEPT ![j] = "idle"]
       \/ /\ ~Claimable(j)
          /\ task' = [task EXCEPT ![j] = "idle"]
          /\ UNCHANGED status
    /\ UNCHANGED <<assetVars, recVars, binding, fired, contacts, phase, restarts>>

\* _run_active_capability_with_semaphore: the semaphore is granted and the
\* runner is called; nothing is read again.
Contact(j) ==
    /\ task[j] = "executing"
    /\ task' = [task EXCEPT ![j] = "calling"]
    /\ contacts' = [contacts EXCEPT ![j] = @ + 1]
    /\ UNCHANGED <<assetVars, recVars, status, binding, fired, phase, restarts>>

\* The runner's answer, its error or the client timeout.
RunnerAnswers(j) ==
    /\ task[j] = "calling"
    /\ \E t \in {"answered", "broken"} : task' = [task EXCEPT ![j] = t]
    /\ UNCHANGED <<assetVars, recVars, status, binding, fired, contacts, phase, restarts>>

\* wait_for_active_execution_stop: one poll that finds a reason to stop.
ObserveStop(j) ==
    /\ task[j] \in Executing
    /\ j \notin fired
    /\ \/ status[j] \in {"cancelling", "cancelled"}
       \/ ~Executable(binding[j].asset, binding[j].revision)
    /\ fired' = fired \union {j}
    /\ UNCHANGED <<assetVars, recVars, status, binding, task, contacts, phase, restarts>>

\* asyncio.wait returns; the task ends with status s.
Over(j, s) ==
    /\ status' = [status EXCEPT ![j] = Updated(j, s)]
    /\ task' = [task EXCEPT ![j] = "idle"]
    /\ fired' = fired \ {j}
    /\ UNCHANGED <<assetVars, recVars, binding, contacts, phase, restarts>>

\* The watcher is done: execution_task is cancelled and awaited, which
\* raises its own exception if it had one already.
Stop(j) ==
    /\ task[j] \in Executing
    /\ j \in fired
    /\ Over(j, IF task[j] = "broken" THEN "failed" ELSE "cancelled")

\* Only execution_task is done: the status is set to running, then to the
\* outcome, whatever was requested since the last poll.
Finish(j) ==
    /\ task[j] \in {"answered", "broken"}
    /\ j \notin fired
    /\ \E s \in IF task[j] = "answered" THEN {"completed", "failed"} ELSE {"failed"} : Over(j, s)

-----------------------------------------------------------------------------
(* Recurrences: their endpoints and the dispatcher.                        *)

\* create, and resume: bound to the current revision, with a new next_run_at.
Arm(r) ==
    /\ phase = "up"
    /\ auth[AssetOf[r]] = "active"
    /\ rec[r].occ < MaxOccurrence
    /\ rec' = [rec EXCEPT ![r] = [status |-> "active", revision |-> revision[AssetOf[r]],
                                  occ |-> @.occ + 1]]
    /\ UNCHANGED <<assetVars, snap, batch, checking, jobVars, phase, restarts>>

\* pause, and delete.
Disarm(r) ==
    /\ phase = "up"
    /\ rec[r].status # "disarmed"
    /\ rec' = [rec EXCEPT ![r].status = "disarmed"]
    /\ UNCHANGED <<assetVars, snap, batch, checking, jobVars, phase, restarts>>

\* list_due
Due == {r \in Recurrences : rec[r].status = "active" /\ rec[r].occ < MaxOccurrence}

\* Mutant of Unchanged.
SwapAlways(r, seen) == TRUE

\* _mutate: the compare-and-swap on updated_at.  Every change of an active
\* record shows in its contents, as resuming it moves next_run_at.
Unchanged(r, seen) == rec[r] = seen[r]

\* The listed records live as long as the tick that listed them.
Listed(todo, seen) == IF todo = {} THEN Blank ELSE seen

\* process_due_active_recurrences up to the health check: a tick lists what
\* is due once, then checks each record it listed.
CheckDue(r) ==
    LET todo == IF batch = {} THEN Due ELSE batch
        seen == IF batch = {} THEN rec ELSE snap IN
    /\ phase = "up"
    /\ checking = NoRec
    /\ r \in todo
    /\ batch' = todo \ {r}
    /\ \/ /\ Executable(AssetOf[r], seen[r].revision)
          /\ checking' = r
          /\ snap' = seen
          /\ UNCHANGED rec
       \/ \* suspend_due_active_recurrence: authorization, gate, verification
          /\ rec' = IF Unchanged(r, seen) THEN [rec EXCEPT ![r].status = "suspended"] ELSE rec
          /\ snap' = Listed(todo \ {r}, seen)
          /\ UNCHANGED checking
    /\ UNCHANGED <<assetVars, jobVars, phase, restarts>>

\* defer_due_active_recurrence: the occurrence stays pending, or is suspended
\* if no window is left inside the authorization.
Deferred(r) ==
    rec' \in IF Unchanged(r, snap) THEN {rec, [rec EXCEPT ![r].status = "suspended"]} ELSE {rec}

\* record_dispatch: on to the next occurrence, if the authorization has one.
Dispatched(r) ==
    /\ Unchanged(r, snap)
    /\ \E s \in {"active", "suspended"} :
        rec' = [rec EXCEPT ![r] = [status |-> s, revision |-> @.revision, occ |-> @.occ + 1]]

\* recurrence_occurrence_key of the listed record.
OccurrenceKey(r) == [of |-> r, number |-> snap[r].occ]

\* Mutant of Existing.
ExistingInflight(k) == {j \in Jobs : binding[j].key = k /\ status[j] \in Inflight}

\* The job retained under the key of an occurrence.
Existing(k) == {j \in Jobs : binding[j].key = k /\ status[j] \notin {"none", "deleted"}}

\* The runner is not ready or admission is closed.
DispatchDeferred(r) ==
    /\ checking = r
    /\ checking' = NoRec
    /\ Deferred(r)
    /\ snap' = Listed(batch, snap)
    /\ UNCHANGED <<assetVars, batch, jobVars, phase, restarts>>

CreateOccurrence(r, j) ==
    /\ checking = r
    /\ Existing(OccurrenceKey(r)) = {}
    /\ Create(j, AssetOf[r], CapabilityOf[r], snap[r].revision, NoJob, OccurrenceKey(r))

\* The job is created from the record listed before the health check.  If
\* admit_execution or record_dispatch then fails, it stays queued, unscheduled.
DispatchNew(r, j) ==
    /\ CreateOccurrence(r, j)
    /\ checking' = NoRec
    /\ status' = [status EXCEPT ![j] = "queued"]
    /\ \/ /\ auth[AssetOf[r]] = "active"
          /\ Dispatched(r)
          /\ task' = [task EXCEPT ![j] = "scheduled"]
       \/ \* the record changed, the asset is not active or its history full
          /\ Deferred(r)
          /\ UNCHANGED task
    /\ snap' = Listed(batch, snap)
    /\ UNCHANGED <<assetVars, batch, fired, contacts, phase, restarts>>

\* The occurrence has a job already: dispatched before a crash or a failed
\* attempt to record it.
DispatchReplay(r, j) ==
    /\ checking = r
    /\ j \in Existing(OccurrenceKey(r))
    /\ checking' = NoRec
    /\ \/ /\ Dispatched(r)
          /\ task' = [task EXCEPT ![j] = IF status[j] = "queued" /\ @ = "idle" THEN "scheduled" ELSE @]
       \/ /\ ~Unchanged(r, snap)
          /\ Deferred(r)
          /\ UNCHANGED task
    /\ snap' = Listed(batch, snap)
    /\ UNCHANGED <<assetVars, batch, status, binding, fired, contacts, phase, restarts>>

-----------------------------------------------------------------------------
(* Crash, shutdown and startup.                                            *)

ProcessGone ==
    /\ phase = "up"
    /\ restarts < MaxRestarts
    /\ restarts' = restarts + 1
    /\ phase' = "down"
    /\ task' = [j \in Jobs |-> "idle"]
    /\ fired' = {}
    /\ checking' = NoRec
    /\ batch' = {}
    /\ snap' = Blank
    /\ UNCHANGED contacts

\* A shutdown closes what it interrupts as startup would.
Crash ==
    /\ ProcessGone
    /\ UNCHANGED <<assetVars, rec, status, binding>>

\* The job of an occurrence is saved, the recurrence is not.
CrashInDispatch(r, j) ==
    /\ CreateOccurrence(r, j)
    /\ ProcessGone
    /\ status' = [status EXCEPT ![j] = "queued"]
    /\ UNCHANGED <<assetVars, rec>>

\* The asset is revoked, its recurrences and jobs are not touched.
CrashInRevoke(a) ==
    /\ ProcessGone
    /\ auth' = [auth EXCEPT ![a] = "revoked"]
    /\ UNCHANGED <<revision, rec, status, binding>>

\* Mutant of Recovered.
RequeueInterrupted(j) == IF status[j] \in {"running", "cancelling"} THEN "queued" ELSE status[j]

\* recover_interrupted_jobs with preserve_queued_active_jobs.
Recovered(j) == IF status[j] \in {"running", "cancelling"} THEN "failed" ELSE status[j]

\* Mutant of Boot.
BootWithoutResume ==
    /\ phase = "down"
    /\ phase' = "up"
    /\ status' = [j \in Jobs |-> Recovered(j)]
    /\ UNCHANGED <<assetVars, recVars, binding, task, fired, contacts, restarts>>

\* lifespan: close interrupted jobs, then resume_queued_active_jobs.
Boot ==
    /\ phase = "down"
    /\ phase' = "up"
    /\ \E kept \in SUBSET {j \in Jobs : Recovered(j) = "queued" /\ ~RecoveryRejected(j)} :
        /\ status' = [j \in Jobs |->
                IF Recovered(j) = "queued" /\ j \notin kept THEN "failed" ELSE Recovered(j)]
        /\ task' = [j \in Jobs |-> IF j \in kept THEN "scheduled" ELSE "idle"]
    /\ UNCHANGED <<assetVars, recVars, binding, fired, contacts, restarts>>

-----------------------------------------------------------------------------
TaskStep(j) ==
    Claim(j) \/ Contact(j) \/ RunnerAnswers(j) \/ ObserveStop(j) \/ Stop(j) \/ Finish(j)

RecurrenceStep(r) ==
    \/ Arm(r) \/ Disarm(r) \/ CheckDue(r) \/ DispatchDeferred(r)
    \/ \E j \in Jobs : DispatchNew(r, j) \/ DispatchReplay(r, j) \/ CrashInDispatch(r, j)

Next ==
    \/ \E a \in Assets : Expire(a) \/ Renew(a) \/ Revoke(a) \/ CrashInRevoke(a)
    \/ \E j \in Jobs :
        \/ \E a \in Assets, c \in Capabilities : Launch(j, a, c)
        \/ Cancel(j) \/ DeleteJob(j) \/ TaskStep(j)
    \/ \E r \in Recurrences : RecurrenceStep(r)
    \/ Crash \/ Boot

\* The event loop runs every ready task, the runner answers within the
\* client timeout, and a stopped process is started again.
Fairness == (\A j \in Jobs : WF_vars(TaskStep(j))) /\ WF_vars(Boot)

Spec == Init /\ [][Next]_vars /\ Fairness

-----------------------------------------------------------------------------
(* Properties.                                                             *)

\* The queued record of an occurrence that no task will claim.
Stranded(j) == status[j] = "queued" /\ task[j] = "idle" /\ binding[j].key.of # NoRec

\* A live process owns every job in flight: the only record without a task
\* is one a recurrence created and then failed to record.
InflightHasTask ==
    phase = "up" => \A j \in InflightJobs : task[j] # "idle" \/ Stranded(j)

\* A task past its claim still owns its record: no request, revocation or
\* restart closes the record or frees its capacity under a live execution.
ExecutingIsInflight ==
    \A j \in Jobs : task[j] \in Executing => status[j] \in {"running", "cancelling"}

\* An execution contacts the runner at most once, through cancellations,
\* crashes, requeues and replays.
ContactedOnce == \A j \in Jobs : contacts[j] <= 1

\* An occurrence contacts the runner at most once although its job and its
\* recurrence are saved apart, as long as its job is retained.
OccurrenceRunsOnce ==
    \A j, k \in Jobs :
        /\ j # k
        /\ binding[j].key = binding[k].key /\ binding[j].key.of # NoRec
        /\ contacts[j] > 0 /\ contacts[k] > 0
        => status[j] = "deleted" \/ status[k] = "deleted"

\* A live process starts a job of a recurrence only while the recurrence is
\* armed for the revision the job carries: one paused, deleted, suspended or
\* rebound during the health check starts nothing.
DispatchOnlyArmed ==
    [][\A j \in Jobs, r \in Recurrences :
        /\ phase = "up" /\ task[j] = "idle" /\ task'[j] = "scheduled"
        /\ binding'[j].key.of = r
        => rec[r].status = "active" /\ rec[r].revision = binding'[j].revision]_vars

\* No scope ever holds more jobs in flight than its limit.
AdmissionBound ==
    /\ Cardinality(InflightJobs) <= MaxActive
    /\ \A a \in Assets :
        /\ Cardinality({j \in InflightJobs : OrgOf[binding[j].asset] = OrgOf[a]}) <= MaxPerOrg
        /\ Cardinality({j \in InflightJobs : binding[j].asset = a}) <= MaxPerAsset
    /\ \A c \in Capabilities :
        Cardinality({j \in InflightJobs : binding[j].capability = c}) <= MaxPerCapability

\* A terminal record is never reopened nor given another outcome.
TerminalIsFinal ==
    [][\A j \in Jobs : status[j] \in Terminal => status'[j] \in {status[j], "deleted"}]_vars

\* Every job in flight ends, except one a recurrence has stranded.
InflightEnds ==
    \A j \in Jobs : status[j] \in Inflight ~> (status[j] \notin Inflight \/ Stranded(j))

=============================================================================
