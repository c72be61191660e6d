-------------------------- MODULE RemediationPlans --------------------------
(***************************************************************************)
(* The durable remediation plans of one organization                       *)
(* (backend/app/remediation_plan_jobs.py and its routes in main.py): a     *)
(* record per plan, built page by page in a worker thread, and an artifact *)
(* that is published with the completed record and removed when it         *)
(* expires.                                                                *)
(*                                                                         *)
(* Every call of the store holds the storage lock and is one action; the   *)
(* thread runs beside the requests, so anything may happen between two of  *)
(* its calls.  A record and an artifact are two files.  Cuts names the     *)
(* places where a crash is allowed to fall inside a call: "publish" and    *)
(* "expiry" between the two files, "temp" before the rename of a record,   *)
(* which leaves the temporary file in the directory.                       *)
(*                                                                         *)
(* Left out: counters of progress and of truncation, the semaphore (a      *)
(* thread starts whenever it starts), the other organizations.             *)
(***************************************************************************)
EXTENDS Naturals, FiniteSets

CONSTANTS
    Plans, Keys, Filters,
    MaxJobs,        \* REMEDIATION_PLAN_MAX_JOBS_PER_ORGANIZATION
    MaxInflight,    \* REMEDIATION_PLAN_MAX_INFLIGHT_PER_ORGANIZATION
    MaxRecoveries,  \* the 3 of recover()
    Pages,          \* pages of 100 projects
    Cuts,           \* where a crash may cut a call, see above
    MaxRevision,    \* bound on the changes of the project index
    MaxRestarts     \* bound on crashes and shutdowns

ASSUME PlanBoundsAssumption ==
    /\ MaxJobs \in Nat \ {0} /\ MaxInflight \in Nat \ {0}
    /\ MaxRecoveries \in Nat /\ Pages \in Nat \ {0}
    /\ MaxRevision \in Nat /\ MaxRestarts \in Nat
    /\ Cuts \subseteq {"publish", "expiry", "temp"}
    /\ Keys # {} /\ Filters # {}

VARIABLES
    disk,       \* records, artifacts and a leftover temporary file, see Disk
    portfolio,  \* revision of the project index
    sched,      \* scheduled_remediation_plan_job_ids
    thread,     \* the worker thread of each plan, see Thread
    phase,      \* "up", "stopping", "down"
    restarts

vars == <<disk, portfolio, sched, thread, phase, restarts>>

-----------------------------------------------------------------------------
(* The records.                                                            *)

Inflight == {"queued", "running", "cancelling"}
Closed == {"cancelled", "failed", "expired"}
Status == Inflight \cup Closed \cup {"absent", "completed"}

Revision == 0..MaxRevision

\* `old` tells that a completed plan is past its expires_at, or a closed one
\* past the thirty days of its metadata.  `base` is project_revision.
Record == [status: Status, key: Keys, filters: Filters, base: Revision,
           recoveries: 0..MaxRecoveries, old: BOOLEAN]

\* An artifact declares a revision; `pages` is the one its pages were read at.
Artifact == [base: Revision, pages: Revision]
NoArtifact == [base |-> MaxRevision + 1, pages |-> MaxRevision + 1]

Disk == [plan: [Plans -> Record], artifact: [Plans -> Artifact \cup {NoArtifact}],
         temp: BOOLEAN]

Thread == [at: {"none", "waiting", "revision", "first", "claim", "check",
                "next", "verify", "publish", "cancelled"},
           base: Revision, cursor: Revision, pages: 0..Pages]

Idle == [at |-> "none", base |-> 0, cursor |-> 0, pages |-> 0]

Absent == [status |-> "absent", key |-> CHOOSE k \in Keys : TRUE,
           filters |-> CHOOSE f \in Filters : TRUE,
           base |-> 0, recoveries |-> 0, old |-> FALSE]

Present(d) == {p \in Plans : d.plan[p].status # "absent"}

\* Every write renews updated_at.
Marked(d, p, status) ==
    [d EXCEPT !.plan[p].status = status, !.plan[p].old = FALSE]

Unpublished(d, p) == [d EXCEPT !.artifact[p] = NoArtifact]

-----------------------------------------------------------------------------
(* What the calls of the store do to the files.                            *)

Expired(d, p) ==
    IF d.plan[p].status = "completed" /\ d.plan[p].old
    THEN Marked(Unpublished(d, p), p, "expired") ELSE d

\* _purge_history_unlocked, on what the listing found.
Purged(d) ==
    LET gone == {p \in Plans : d.plan[p].status \in Closed /\ d.plan[p].old}
    IN [d EXCEPT !.plan = [p \in Plans |-> IF p \in gone THEN Absent
                                                         ELSE d.plan[p]],
                 !.artifact = [p \in Plans |-> IF p \in gone THEN NoArtifact
                                                             ELSE d.artifact[p]]]

ExpiredAll(d) ==
    [d EXCEPT !.plan = [p \in Plans |-> Expired(d, p).plan[p]],
              !.artifact = [p \in Plans |-> Expired(d, p).artifact[p]]]

\* Mutant of Keyed.
KeyedInflight(d, k) == {p \in Present(d) : d.plan[p].key = k /\ d.plan[p].status \in Inflight}

Keyed(d, k) == {p \in Present(d) : d.plan[p].key = k}

Room(d) ==
    /\ Cardinality(Present(d)) < MaxJobs
    /\ Cardinality({p \in Plans : d.plan[p].status \in Inflight}) < MaxInflight

\* fail() closes whatever is still in flight; finish_cancel() what was running.
Failed(d, p) ==
    IF d.plan[p].status \in Inflight THEN Marked(Unpublished(d, p), p, "failed") ELSE d

FinishedCancel(d, p) ==
    IF d.plan[p].status \in {"running", "cancelling"}
    THEN Marked(Unpublished(d, p), p, "cancelled") ELSE d

\* Mutant of Recovered.
RecoveredKeepingArtifact(d, p) ==
    CASE d.plan[p].status = "cancelling" -> Marked(Unpublished(d, p), p, "cancelled")
      [] d.plan[p].status = "running" /\ d.plan[p].recoveries >= MaxRecoveries ->
            Marked(d, p, "failed")
      [] d.plan[p].status = "running" /\ d.plan[p].recoveries < MaxRecoveries ->
            [Marked(d, p, "queued") EXCEPT !.plan[p].recoveries = @ + 1,
                !.plan[p].base = 0]
      [] OTHER -> d

Recovered(d, p) ==
    CASE d.plan[p].status = "cancelling" -> Marked(Unpublished(d, p), p, "cancelled")
      [] d.plan[p].status = "running" /\ d.plan[p].recoveries >= MaxRecoveries ->
            Marked(Unpublished(d, p), p, "failed")
      [] d.plan[p].status = "running" /\ d.plan[p].recoveries < MaxRecoveries ->
            [Marked(Unpublished(d, p), p, "queued") EXCEPT !.plan[p].recoveries = @ + 1,
                !.plan[p].base = 0]
      [] OTHER -> d

-----------------------------------------------------------------------------
Init ==
    /\ disk = [plan |-> [p \in Plans |-> Absent],
               artifact |-> [p \in Plans |-> NoArtifact], temp |-> FALSE]
    /\ portfolio = 0
    /\ sched = {}
    /\ thread = [p \in Plans |-> Idle]
    /\ phase = "up"
    /\ restarts = 0

Memory == <<portfolio, sched, thread, phase, restarts>>

(* The requests.                                                           *)

\* schedule_remediation_plan_once, for a plan that the call left queued.
Schedule(p) ==
    /\ sched' = sched \cup {p}
    /\ thread' = IF p \in sched THEN thread
                 ELSE [thread EXCEPT ![p] = [Idle EXCEPT !.at = "waiting"]]

\* create(), reached with the disk d: a conflict, a replay that is no longer
\* queued or a limit; a replay; or a new record.  Identifiers are not reused
\* while anything still refers to them.
CreateFrom(d, k, f) ==
    \/ /\ \/ \E p \in Keyed(d, k) : d.plan[p].filters # f \/ d.plan[p].status # "queued"
          \/ Keyed(d, k) = {} /\ ~Room(d)
       /\ disk' = d /\ UNCHANGED <<sched, thread>>
    \/ \E p \in Keyed(d, k) :
          /\ d.plan[p].filters = f /\ d.plan[p].status = "queued"
          /\ disk' = d /\ Schedule(p)
    \/ \E p \in Plans \ Present(disk) :
          /\ Keyed(d, k) = {} /\ Room(d) /\ thread[p] = Idle
          /\ disk' = [d EXCEPT !.plan[p] = [Absent EXCEPT
                        !.status = "queued", !.key = k, !.filters = f]]
          /\ Schedule(p)

\* A temporary file makes the listing fail, and with it the creation.
Create(k, f) ==
    /\ phase = "up" /\ ~disk.temp
    /\ CreateFrom(Purged(disk), k, f)
    /\ UNCHANGED <<portfolio, phase, restarts>>

Retry(p, k) ==
    /\ phase = "up" /\ ~disk.temp /\ p \in Present(disk)
    /\ LET d == Expired(disk, p) IN
         /\ d.plan[p].status \in Closed
         /\ CreateFrom(Purged(d), k, d.plan[p].filters)
    /\ UNCHANGED <<portfolio, phase, restarts>>

\* GET of one plan, and its download.
Read(p) ==
    /\ phase = "up" /\ Expired(disk, p) # disk
    /\ disk' = Expired(disk, p)
    /\ UNCHANGED Memory

List ==
    /\ phase = "up" /\ ~disk.temp
    /\ LET d == Purged(ExpiredAll(disk)) IN d # disk /\ disk' = d
    /\ UNCHANGED Memory

Cancel(p) ==
    /\ phase = "up"
    /\ \/ disk.plan[p].status = "queued" /\ disk' = Marked(disk, p, "cancelled")
       \/ disk.plan[p].status = "running" /\ disk' = Marked(disk, p, "cancelling")
    /\ UNCHANGED Memory

-----------------------------------------------------------------------------
(* build_remediation_plan, in its thread.  The task may end before its     *)
(* thread does: at shutdown it is cancelled and the thread goes on.        *)

Running(p, at) == phase # "down" /\ thread[p].at = at

Goto(p, at) == thread' = [thread EXCEPT ![p].at = at]

Done(p) ==
    /\ thread' = [thread EXCEPT ![p] = Idle]
    /\ sched' = sched \ {p}

Rest == <<portfolio, phase, restarts>>

\* A plan cancelled long ago may be gone by the time its turn comes.
Start(p) ==
    /\ phase = "up" /\ thread[p].at = "waiting"
    /\ IF p \in Present(disk) THEN Goto(p, "revision") /\ UNCHANGED sched ELSE Done(p)
    /\ UNCHANGED <<disk, Rest>>

ReadRevision(p) ==
    /\ Running(p, "revision")
    /\ thread' = [thread EXCEPT ![p].at = "first", ![p].base = portfolio]
    /\ UNCHANGED <<disk, sched, Rest>>

FirstPage(p) ==
    /\ Running(p, "first")
    /\ thread' = [thread EXCEPT ![p].at = "claim", ![p].cursor = portfolio, ![p].pages = 1]
    /\ UNCHANGED <<disk, sched, Rest>>

\* A claim that finds the plan closed ends through fail(), which then leaves
\* the record alone.
Claim(p) ==
    /\ Running(p, "claim")
    /\ IF disk.plan[p].status = "queued"
       THEN /\ disk' = [Marked(disk, p, "running") EXCEPT !.plan[p].base = thread[p].base]
            /\ Goto(p, "check") /\ UNCHANGED sched
       ELSE disk' = Failed(disk, p) /\ Done(p)
    /\ UNCHANGED Rest

\* progress() or assert_running(), after each page.
Check(p) ==
    /\ Running(p, "check")
    /\ \/ /\ disk.plan[p].status = "cancelling" /\ Goto(p, "cancelled")
          /\ UNCHANGED <<disk, sched>>
       \/ /\ disk.plan[p].status = "running"
          /\ Goto(p, IF thread[p].pages = Pages THEN "verify" ELSE "next")
          /\ UNCHANGED <<disk, sched>>
       \/ /\ disk.plan[p].status \notin {"running", "cancelling"}
          /\ disk' = Failed(disk, p) /\ Done(p)
    /\ UNCHANGED Rest

\* A cursor is bound to the revision of the page that issued it.
NextPage(p) ==
    /\ Running(p, "next")
    /\ IF portfolio = thread[p].cursor
       THEN /\ thread' = [thread EXCEPT ![p].at = "check", ![p].pages = @ + 1]
            /\ UNCHANGED <<disk, sched>>
       ELSE disk' = Failed(disk, p) /\ Done(p)
    /\ UNCHANGED Rest

\* Mutant of Verify.
VerifyCursor(p) ==
    /\ Running(p, "verify")
    /\ IF portfolio = thread[p].cursor
       THEN Goto(p, "publish") /\ UNCHANGED <<disk, sched>>
       ELSE disk' = Failed(disk, p) /\ Done(p)
    /\ UNCHANGED Rest

Verify(p) ==
    /\ Running(p, "verify")
    /\ IF portfolio = thread[p].base
       THEN Goto(p, "publish") /\ UNCHANGED <<disk, sched>>
       ELSE disk' = Failed(disk, p) /\ Done(p)
    /\ UNCHANGED Rest

Built(p) == [base |-> thread[p].base, pages |-> thread[p].cursor]

\* Mutant of Publish.
PublishOverCancellation(p) ==
    /\ Running(p, "publish")
    /\ disk.plan[p].status \in {"running", "cancelling"}
    /\ disk' = [Marked(disk, p, "completed") EXCEPT !.artifact[p] = Built(p)]
    /\ Done(p)
    /\ UNCHANGED Rest

\* complete()
Publish(p) ==
    /\ Running(p, "publish")
    /\ \/ /\ disk.plan[p].status = "cancelling" /\ Goto(p, "cancelled")
          /\ UNCHANGED <<disk, sched>>
       \/ /\ disk.plan[p].status = "running"
          /\ disk' = [Marked(disk, p, "completed") EXCEPT !.artifact[p] = Built(p)]
          /\ Done(p)
       \/ /\ disk.plan[p].status \notin {"running", "cancelling"}
          /\ disk' = Failed(disk, p) /\ Done(p)
    /\ UNCHANGED Rest

FinishCancel(p) ==
    /\ Running(p, "cancelled")
    /\ disk' = FinishedCancel(disk, p)
    /\ Done(p)
    /\ UNCHANGED Rest

\* Any other error: an unavailable source, a limit, a change newer than the
\* cutoff, an artifact that is too large.
BuildFails(p) ==
    /\ phase # "down" /\ thread[p].at \notin {"none", "waiting", "cancelled"}
    /\ disk' = Failed(disk, p)
    /\ Done(p)
    /\ UNCHANGED Rest

-----------------------------------------------------------------------------
(* Time, the projects, and the life of the process.                        *)

Age(p) ==
    /\ disk.plan[p].status \in Closed \cup {"completed"} /\ ~disk.plan[p].old
    /\ disk' = [disk EXCEPT !.plan[p].old = TRUE]
    /\ UNCHANGED Memory

Change ==
    /\ phase = "up" /\ portfolio < MaxRevision
    /\ portfolio' = portfolio + 1
    /\ UNCHANGED <<disk, sched, thread, phase, restarts>>

\* stop_tracked_audits cancels the tasks; a thread that runs is not stopped.
Shutdown ==
    /\ phase = "up" /\ restarts < MaxRestarts
    /\ phase' = "stopping" /\ restarts' = restarts + 1
    /\ sched' = {}
    /\ thread' = [p \in Plans |-> IF thread[p].at = "waiting" THEN Idle ELSE thread[p]]
    /\ UNCHANGED <<disk, portfolio>>

Exit ==
    /\ phase = "stopping" /\ \A p \in Plans : thread[p].at = "none"
    /\ phase' = "down"
    /\ UNCHANGED <<disk, portfolio, sched, thread, restarts>>

Die(d) ==
    /\ restarts < MaxRestarts \/ phase = "stopping"
    /\ disk' = d
    /\ phase' = "down"
    /\ restarts' = IF phase = "up" THEN restarts + 1 ELSE restarts
    /\ sched' = {} /\ thread' = [p \in Plans |-> Idle]
    /\ UNCHANGED portfolio

Crash == phase # "down" /\ Die(disk)

CrashInPublish(p) ==
    /\ "publish" \in Cuts
    /\ Running(p, "publish") /\ disk.plan[p].status = "running"
    /\ Die([disk EXCEPT !.artifact[p] = Built(p)])

CrashInExpiry(p) ==
    /\ "expiry" \in Cuts
    /\ phase = "up" /\ Expired(disk, p) # disk
    /\ Die(Unpublished(disk, p))

\* _durable_write_bytes creates its temporary file beside the records; some
\* request or thread was writing the record of a plan in flight.
CrashInWrite ==
    /\ "temp" \in Cuts /\ phase # "down"
    /\ \E p \in Plans : disk.plan[p].status \in Inflight
    /\ Die([disk EXCEPT !.temp = TRUE])

\* A completed record without its file stops recover() with an error that
\* startup does not catch, after the records it had already visited.
Dangling == {p \in Plans : disk.plan[p].status = "completed"
                           /\ disk.artifact[p] = NoArtifact}

RecoveredAll(visited) ==
    [disk EXCEPT
        !.plan = [p \in Plans |-> IF p \in visited THEN Recovered(disk, p).plan[p]
                                                   ELSE disk.plan[p]],
        !.artifact = [p \in Plans |-> IF p \in visited THEN Recovered(disk, p).artifact[p]
                                                       ELSE disk.artifact[p]]]

BootRefused ==
    /\ phase = "down" /\ ~disk.temp /\ Dangling # {}
    /\ \E visited \in SUBSET (Plans \ Dangling) : disk' = RecoveredAll(visited)
    /\ UNCHANGED Memory

CrashInBoot ==
    /\ phase = "down" /\ ~disk.temp /\ restarts < MaxRestarts
    /\ \E visited \in SUBSET (Plans \ Dangling) : disk' = RecoveredAll(visited)
    /\ restarts' = restarts + 1
    /\ UNCHANGED <<portfolio, sched, thread, phase>>

\* A leftover temporary file makes recover() give up, which startup survives.
BootWithoutRecovery ==
    /\ phase = "down" /\ disk.temp
    /\ phase' = "up"
    /\ UNCHANGED <<disk, portfolio, sched, thread, restarts>>

\* Mutant of Boot.
BootWithoutDispatch ==
    /\ phase = "down" /\ ~disk.temp /\ Dangling = {}
    /\ disk' = [disk EXCEPT !.plan = [p \in Plans |-> IF disk.plan[p].status = "cancelling"
                                        THEN Recovered(disk, p).plan[p] ELSE disk.plan[p]]]
    /\ phase' = "up"
    /\ UNCHANGED <<portfolio, sched, thread, restarts>>

\* Plans that were running are queued again and dispatched; plans found
\* queued are left as they are.
Boot ==
    /\ phase = "down" /\ ~disk.temp /\ Dangling = {}
    /\ disk' = RecoveredAll(Plans)
    /\ sched' = {p \in Plans : disk.plan[p].status = "running"
                               /\ disk.plan[p].recoveries < MaxRecoveries}
    /\ thread' = [p \in Plans |-> IF p \in sched' THEN [Idle EXCEPT !.at = "waiting"] ELSE Idle]
    /\ phase' = "up"
    /\ UNCHANGED <<portfolio, restarts>>

Build(p) ==
    \/ Start(p) \/ ReadRevision(p) \/ FirstPage(p) \/ Claim(p) \/ Check(p) \/ NextPage(p)
    \/ Verify(p) \/ Publish(p) \/ FinishCancel(p)

Startup == Boot \/ BootRefused \/ BootWithoutRecovery

Next ==
    \/ \E k \in Keys, f \in Filters : Create(k, f)
    \/ \E p \in Plans, k \in Keys : Retry(p, k)
    \/ \E p \in Plans : Read(p) \/ Cancel(p) \/ Age(p)
    \/ List \/ Change
    \/ \E p \in Plans : Build(p) \/ BuildFails(p)
    \/ Shutdown \/ Exit \/ Crash \/ CrashInWrite \/ CrashInBoot
    \/ \E p \in Plans : CrashInPublish(p) \/ CrashInExpiry(p)
    \/ Startup

Spec == Init /\ [][Next]_vars

\* A thread goes on, a process that stops ends, a stopped one is started.
FairSpec ==
    /\ Spec /\ WF_vars(Startup) /\ WF_vars(Exit)
    /\ \A p \in Plans : WF_vars(Build(p))

-----------------------------------------------------------------------------
(* Properties.                                                             *)

\* Records, artifacts and threads have their types, and the restarts their
\* bound: recover() never counts past its limit.
TypeOK ==
    /\ disk \in Disk /\ portfolio \in Revision
    /\ sched \subseteq Plans /\ thread \in [Plans -> Thread]
    /\ phase \in {"up", "stopping", "down"} /\ restarts \in 0..MaxRestarts

\* A leftover temporary file makes each startup skip the recovery, and a
\* completed record without its file makes each startup fail.
Recoverable == ~disk.temp /\ Dangling = {}

\* In a live process only a completed plan has an artifact: cancellation,
\* failure, expiry and recovery all remove what was published.
OnlyCompletedHasArtifact ==
    phase = "up" /\ Recoverable =>
        \A p \in Plans : disk.artifact[p] # NoArtifact => disk.plan[p].status = "completed"

\* A published artifact declares the revision at which all its pages were
\* read, although the index changes while the thread reads it.
PublishedIsOneRevision ==
    \A p \in Plans : (disk.plan[p].status = "completed" /\ disk.artifact[p] # NoArtifact)
        => /\ disk.artifact[p].pages = disk.artifact[p].base
           /\ disk.plan[p].base = disk.artifact[p].base

\* An idempotency key names one record, whatever became of it: create() looks
\* the key up among all records it retained.
OneRecordPerKey ==
    \A p, q \in Present(disk) : disk.plan[p].key = disk.plan[q].key => p = q

\* What is on disk is what create(), the threads and recover() agree on.
PlansHold == TypeOK /\ OnlyCompletedHasArtifact /\ PublishedIsOneRevision /\ OneRecordPerKey

\* A plan that was asked to stop is never published, and a closed plan stays
\* closed: the thread, the requests and recovery all write the same record.
CancellationWins ==
    [][\A p \in Plans :
         /\ disk.plan[p].status \in {"cancelling", "cancelled"}
                => disk'.plan[p].status # "completed"
         /\ disk.plan[p].status \in Closed
                => disk'.plan[p].status \in {disk.plan[p].status, "absent"}
         /\ disk.plan[p].status = "completed"
                => disk'.plan[p].status \in {"completed", "expired"}]_vars

\* A plan does not stay running or cancelling: its thread ends it, or the
\* next startup that can recover does.
RunningEnds ==
    \A p \in Plans : (disk.plan[p].status \in {"running", "cancelling"})
                        ~> (disk.plan[p].status \notin {"running", "cancelling"} \/ ~Recoverable)
=============================================================================
