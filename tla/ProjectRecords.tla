--------------------------- MODULE ProjectRecords ---------------------------
(***************************************************************************)
(* The durable records of one project: its source snapshots, the admission *)
(* journal that appends a snapshot together with its analysis, the         *)
(* analyses themselves, the vulnerability intelligence derived from them,  *)
(* and the cascade that deletes it all (backend/app/storage.py,            *)
(* project_deletion.py and the project routes of main.py).                 *)
(*                                                                         *)
(* Every record is a JSON file of its own and a handler writes several of  *)
(* them.  Each file is replaced atomically, but between two files a write  *)
(* can fail (the request answers 5xx and the process goes on) or the       *)
(* process can die.  So `disk` is what the files say, a handler is an      *)
(* operator from one disk to the disks it may leave behind, and the other  *)
(* variables are what a crash forgets.  Handlers run on one event loop and *)
(* hold it from their first read to their last write; the only await that  *)
(* separates a read from a write here is the advisory lookup (Refresh).    *)
(***************************************************************************)
EXTENDS Naturals, FiniteSets

CONSTANTS
    Files, Contents, Digest,  \* uploads and the SHA-256 of each
    Keys, Commits, Jobs,
    NoFile, NoCommit, NoJob,
    MaxSnapshots,             \* INSPECTRA_PROJECT_MAX_SOURCE_SNAPSHOTS
    Traces,                   \* what else is kept per project: decisions, inbox
    MaxRefreshes,             \* bound on the lookups in flight
    MaxRestarts               \* bound on crashes

ASSUME DigestAssumption == Digest \in [Files -> Contents]
ASSUME MarkersAssumption ==
    NoFile \notin Files /\ NoCommit \notin Commits /\ NoJob \notin Jobs
ASSUME BoundsAssumption ==
    /\ MaxSnapshots \in Nat \ {0} /\ MaxRestarts \in Nat /\ MaxRefreshes \in Nat
    /\ Traces \subseteq {"decisions", "inbox"}

VARIABLES
    disk,        \* the records, see Disk
    sched,       \* analyses with a task in this process
    refreshing,  \* analyses whose advisory lookup is in flight
    phase,       \* "down", "admissions", "jobs", then "up"
    restarts,
    writesFail   \* whether a write may fail in a live process, never changed

vars == <<disk, sched, refreshing, phase, restarts, writesFail>>

-----------------------------------------------------------------------------
(* The records.                                                            *)

\* A CI retry has the same identity as its first attempt: the idempotency
\* key is a digest of the commit and of the archive.
OpIds == Keys \cup (Commits \X Contents)

\* A reserved snapshot gets its identifier together with its job's, so the
\* job names it; NoJob names the snapshot the project was created with.
Snapshot == [id: Jobs \cup {NoJob}, file: Files, commit: Commits \cup {NoCommit}]

Project == [state: {"none", "kept", "gone"}, snaps: SUBSET Snapshot,
            current: Files \cup {NoFile}, latest: Jobs \cup {NoJob}]

\* "discarded" is an upload the CI route removed itself, "deleted" one that
\* DELETE /files or its expiry removed.
FileState == {"absent", "kept", "discarded", "deleted"}

Operation == [status: {"none", "pending", "completed"}, file: Files \cup {NoFile},
              commit: Commits \cup {NoCommit}, job: Jobs \cup {NoJob}]

Terminal == {"completed", "failed"}
Inflight == {"queued", "running"}
Gone     == {"none", "deleted"}

Analysis == [status: Terminal \cup Inflight \cup Gone, file: Files \cup {NoFile}]

\* `deleting` is the durable deletion marker and `doomed` the analyses it lists.
Disk == [file: [Files -> FileState], project: Project, op: [OpIds -> Operation],
         job: [Jobs -> Analysis], deleting: BOOLEAN, doomed: SUBSET Jobs,
         intel: SUBSET Jobs, traces: SUBSET Traces]

NoOperation == [status |-> "none", file |-> NoFile, commit |-> NoCommit, job |-> NoJob]

Init ==
    /\ disk = [file |-> [f \in Files |-> "absent"],
               project |-> [state |-> "none", snaps |-> {}, current |-> NoFile, latest |-> NoJob],
               op |-> [k \in OpIds |-> NoOperation],
               job |-> [j \in Jobs |-> [status |-> "none", file |-> NoFile]],
               deleting |-> FALSE, doomed |-> {}, intel |-> {}, traces |-> {}]
    /\ sched = {} /\ refreshing = {} /\ phase = "up" /\ restarts = 0
    /\ writesFail \in BOOLEAN

\* The marker hides the project from every read but the deletion's own.
Visible(d) == d.project.state = "kept" /\ ~d.deleting

Pending(d) == {k \in OpIds : d.op[k].status = "pending"}

HasActive(d) == \E j \in Jobs : d.job[j].status \in Inflight

\* An identifier no record holds and no journal has reserved.
Unused(d) == {j \in Jobs : d.job[j].status = "none" /\ \A k \in OpIds : d.op[k].job # j}

-----------------------------------------------------------------------------
(* The process.                                                            *)

\* A request that ends in the live process.
Lives(d, s) == /\ disk' = d /\ sched' = s
               /\ UNCHANGED <<refreshing, phase, restarts, writesFail>>

\* The process dies with the records as they are; tasks and awaits go with it.
Dies(d) == /\ restarts < MaxRestarts
           /\ disk' = d /\ sched' = {} /\ refreshing' = {}
           /\ phase' = "down" /\ restarts' = restarts + 1 /\ UNCHANGED writesFail

\* A handler that stops after some of its writes.
Stops(d) == (writesFail /\ Lives(d, sched)) \/ Dies(d)

Queued(d, j) == IF d.job[j].status = "queued" THEN {j} ELSE {}

-----------------------------------------------------------------------------
(* Uploads, creation and repeated analyses.                                *)

Kept(d, f) == [d EXCEPT !.file[f] = "kept"]

Upload(f) == /\ phase = "up" /\ disk.file[f] = "absent"
             /\ Lives(Kept(disk, f), sched)

\* DELETE /files, or the expiry of an upload: neither looks at journals.
DeleteFile(f) == /\ phase = "up" /\ disk.file[f] = "kept"
                 /\ Lives([disk EXCEPT !.file[f] = "deleted"], sched)

\* The project is saved, then its first job, then the link between them.
Created(d, f, c, j) ==
    LET p == [state |-> "kept", snaps |-> {[id |-> NoJob, file |-> f, commit |-> c]},
              current |-> f, latest |-> NoJob]
        one == [d EXCEPT !.project = p]
        two == [one EXCEPT !.job[j] = [status |-> "queued", file |-> f]]
    IN  <<one, two, [two EXCEPT !.project = [p EXCEPT !.latest = j]]>>

\* POST /projects on a retained upload, or a Git import that brings its own;
\* the capacity an import found before its upload may be gone after it, and
\* then only the project is saved.
Create(f, c, j) ==
    /\ phase = "up" /\ disk.project.state = "none" /\ j \in Unused(disk)
    /\ disk.file[f] = (IF c = NoCommit THEN "kept" ELSE "absent")
    /\ LET made == Created(Kept(disk, f), f, c, j)
       IN  \/ Lives(made[3], sched \cup {j})
           \/ \E n \in 1..2 : Stops(made[n])
           \/ c # NoCommit /\ Lives(made[1], sched)

\* A repeat saves the job, then the link.  It does not look at the journal.
Launched(d, j) ==
    LET one == [d EXCEPT !.job[j] = [status |-> "queued", file |-> d.project.current]]
    IN  <<one, [one EXCEPT !.project.latest = j]>>

Launch(j) ==
    /\ phase = "up" /\ Visible(disk) /\ j \in Unused(disk)
    /\ disk.file[disk.project.current] = "kept" /\ ~HasActive(disk)
    /\ \/ Lives(Launched(disk, j)[2], sched \cup {j})
       \/ Stops(Launched(disk, j)[1])

-----------------------------------------------------------------------------
(* The admission journal.                                                  *)

Recorded(d, k) == \E s \in d.project.snaps : s.id = d.op[k].job

\* Mutant of Bound: the latest analysis is not compared.
BoundToSnapshot(d, k) ==
    Recorded(d, k) \/ \A s \in d.project.snaps : Digest[s.file] # Digest[d.op[k].file]

\* What _recover_unlocked requires of the project before it writes: a
\* snapshot already appended is still the latest, and one not yet appended
\* has content the project does not hold.
Bound(d, k) ==
    IF Recorded(d, k)
    THEN d.project.latest = d.op[k].job
    ELSE \A s \in d.project.snaps : Digest[s.file] # Digest[d.op[k].file]

\* Mutant of Appended: the history is replaced.
Replaced(d, o) == {[id |-> o.job, file |-> o.file, commit |-> o.commit]}

Appended(d, o) == d.project.snaps \cup {[id |-> o.job, file |-> o.file, commit |-> o.commit]}

\* The three writes of a recovery: the project, the job, the journal.  Each
\* is skipped when an earlier attempt already made it.
Recover(d, k) ==
    LET o == d.op[k]
        p == [state |-> "kept", current |-> o.file, latest |-> o.job, snaps |-> Appended(d, o)]
        one == IF Recorded(d, k) THEN d ELSE [d EXCEPT !.project = p]
        two == IF d.job[o.job].status \in Gone
               THEN [one EXCEPT !.job[o.job] = [status |-> "queued", file |-> o.file]]
               ELSE one
    IN  <<one, two, [two EXCEPT !.op[k].status = "completed"]>>

\* How an admission may end: the records it leaves, its reply ("conflict" is
\* any 4xx, "error" a 5xx its checks raise, "stopped" a write that failed or
\* was never made) and its job.
Ends(d, reply, j) == [disk |-> d, reply |-> reply, job |-> j]

\* `room` is whether the in-flight limits leave room for one more analysis,
\* which jobs outside this project decide.
RecoverEnds(d, k, room) ==
    LET made == Recover(d, k)
        full == d.job[d.op[k].job].status \in Gone /\ ~room
    IN  CASE d.file[d.op[k].file] # "kept" -> {Ends(d, "conflict", NoJob)}
          [] d.file[d.op[k].file] = "kept" /\ ~Bound(d, k) -> {Ends(d, "error", NoJob)}
          [] OTHER ->
               {Ends(d, "stopped", NoJob)}
               \cup IF full THEN {Ends(made[1], "conflict", NoJob)}
                    ELSE {Ends(made[n], "stopped", NoJob) : n \in 1..2}
                         \cup {Ends(made[3], "queued", d.op[k].job)}

\* An admission whose identity the journal already holds.
ReplayEnds(d, k, f, room) ==
    LET o == d.op[k]
    IN  CASE k \in Keys /\ o.file # f -> {Ends(d, "conflict", NoJob)}
          [] (k \notin Keys \/ o.file = f) /\ o.status = "pending" -> RecoverEnds(d, k, room)
          [] OTHER -> {IF d.job[o.job].status \in Gone
                       THEN Ends(d, "conflict", NoJob)
                       ELSE Ends(d, "replayed", o.job)}

SameContent(d, f) == {s \in d.project.snaps : Digest[s.file] = Digest[f]}

\* Mutant of CommitConflict: a commit may name several contents.
ContentConflictOnly(d, f, c) == \E s \in SameContent(d, f) : s.commit \notin {NoCommit, c}

\* The conflicts of a commit identity with the snapshots retained.
CommitConflict(d, f, c) ==
    \/ \E s \in d.project.snaps : s.commit = c /\ Digest[s.file] # Digest[f]
    \/ \E s \in SameContent(d, f) : s.commit \notin {NoCommit, c}

\* Content the project already holds, submitted with its commit: the snapshot
\* is attributed to the commit and the identity is bound to one of its jobs.
AttributeEnds(d, k, f, c) ==
    LET s   == CHOOSE s \in SameContent(d, f) : TRUE
        one == [d EXCEPT !.project.snaps = (@ \ {s}) \cup {[s EXCEPT !.commit = c]}]
        its == {j \in Jobs : d.job[j].status \notin Gone /\ d.job[j].file = s.file}
    IN  IF its = {} THEN {Ends(d, "error", NoJob)}
        ELSE {Ends(d, "stopped", NoJob), Ends(one, "stopped", NoJob)} \cup
             {Ends([one EXCEPT !.op[k] = [status |-> "completed", file |-> s.file,
                                          commit |-> c, job |-> j]], "replayed", j) : j \in its}

Reserved(d, k, f, c, j) ==
    [d EXCEPT !.op[k] = [status |-> "pending", file |-> f, commit |-> c, job |-> j]]

HistoryFull(d) == Cardinality(d.project.snaps) >= MaxSnapshots

\* An admission the journal has not seen.
FreshEnds(d, k, f, c, room) ==
    IF \/ HasActive(d) \/ ~room \/ HistoryFull(d) \/ d.file[f] # "kept"
       \/ c # NoCommit /\ CommitConflict(d, f, c)
       \/ c = NoCommit /\ SameContent(d, f) # {}
    THEN {Ends(d, "conflict", NoJob)}
    ELSE IF SameContent(d, f) # {} THEN AttributeEnds(d, k, f, c)
    ELSE {Ends(d, "stopped", NoJob)} \cup
         UNION {RecoverEnds(Reserved(d, k, f, c, j), k, room) : j \in Unused(d)}

\* Mutant of AfterPendingEnds: interrupted admissions are left to startup.
WithoutPending(d, k, f, c, room) == FreshEnds(d, k, f, c, room)

\* A new admission first completes whatever the journal holds for the
\* project, and goes on only if that succeeded.
AfterPendingEnds(d, k, f, c, room) ==
    IF Pending(d) = {} THEN FreshEnds(d, k, f, c, room)
    ELSE UNION {UNION {IF o.reply = "queued" THEN FreshEnds(o.disk, k, f, c, room) ELSE {o}
                       : o \in RecoverEnds(d, p, room)} : p \in Pending(d)}

AdmitEnds(d, k, f, c, room) ==
    CASE ~Visible(d) -> {Ends(d, "conflict", NoJob)}
      [] Visible(d) /\ d.op[k].status # "none" -> ReplayEnds(d, k, f, room)
      [] OTHER -> AfterPendingEnds(d, k, f, c, room)

\* POST /projects/{id}/snapshots: a queued analysis is scheduled, replay or not.
AddSnapshot(k, f) ==
    /\ phase = "up" /\ disk.project.state # "none"
    /\ \E room \in BOOLEAN : \E o \in AdmitEnds(disk, k, f, NoCommit, room) :
         \/ o.reply = "stopped" /\ Stops(o.disk)
         \/ o.reply \in {"conflict", "error"} /\ Lives(o.disk, sched)
         \/ o.reply \in {"queued", "replayed"} /\ Lives(o.disk, sched \cup Queued(o.disk, o.job))

\* Mutant of Cleaned: a failed request removes its upload, journal or not.
CleanedAlways(o, f) ==
    IF o.reply \in {"queued", "replayed"} /\ o.disk.job[o.job].file = f
    THEN o.disk
    ELSE [o.disk EXCEPT !.file[f] = "discarded"]

\* The CI route removes its upload when the reply says no journal can own it.
Cleaned(o, f) ==
    IF \/ o.reply = "conflict"
       \/ o.reply \in {"queued", "replayed"} /\ o.disk.job[o.job].file # f
    THEN [o.disk EXCEPT !.file[f] = "discarded"]
    ELSE o.disk

\* POST /projects/{id}/ci/snapshots uploads, admits and cleans up; a replay is
\* not scheduled.  The project may have gone during the upload.
CiSnapshot(c, f) ==
    /\ phase = "up" /\ disk.project.state # "none" /\ disk.file[f] = "absent"
    /\ \E room \in BOOLEAN : \E o \in AdmitEnds(Kept(disk, f), <<c, Digest[f]>>, f, c, room) :
         \/ o.reply = "stopped" /\ Stops(Cleaned(o, f))
         \/ Dies(o.disk)
         \/ /\ o.reply # "stopped"
            /\ Lives(Cleaned(o, f),
                     sched \cup (IF o.reply = "queued" THEN Queued(o.disk, o.job) ELSE {}))

-----------------------------------------------------------------------------
(* Analyses and what is derived from them.                                 *)

\* ProjectAudit has the detail of an execution; here it starts and ends.
Start(j) == /\ phase = "up" /\ j \in sched /\ disk.job[j].status = "queued"
            /\ Lives([disk EXCEPT !.job[j].status = "running"], sched)

Finish(j, s) == /\ phase = "up" /\ j \in sched /\ disk.job[j].status = "running"
                /\ Lives([disk EXCEPT !.job[j].status = s], sched \ {j})

Cancel(j) == /\ phase = "up" /\ Visible(disk) /\ disk.job[j].status \in Inflight
             /\ Lives([disk EXCEPT !.job[j].status = "failed"], sched \ {j})

\* DELETE /jobs removes the record of an ended analysis and nothing else.
DeleteJob(j) == /\ phase = "up" /\ disk.job[j].status \in Terminal
                /\ Lives([disk EXCEPT !.job[j].status = "deleted"], sched)

\* The retention of results removes the intelligence before the record.
ExpireJob(j) == /\ phase = "up" /\ disk.job[j].status \in Terminal
                /\ Lives([disk EXCEPT !.intel = @ \ {j}, !.job[j].status = "deleted"], sched)

StartRefresh(j) == /\ phase = "up" /\ Visible(disk) /\ disk.job[j].status = "completed"
                   /\ Cardinality(refreshing) < MaxRefreshes
                   /\ refreshing' = refreshing \cup {j}
                   /\ UNCHANGED <<disk, sched, phase, restarts, writesFail>>

\* The lookup ran in a thread; its snapshot is stored without another look at
\* the project or at the analysis.
EndRefresh(j) == /\ phase = "up" /\ j \in refreshing
                 /\ refreshing' = refreshing \ {j}
                 /\ disk' = [disk EXCEPT !.intel = @ \cup {j}]
                 /\ UNCHANGED <<sched, phase, restarts, writesFail>>

\* A triage decision on a finding, or a reminder in the action inbox.
Trace(t) == /\ phase = "up" /\ Visible(disk) /\ t \notin disk.traces
            /\ t = "decisions" => \E j \in Jobs : disk.job[j].status = "completed"
            /\ Lives([disk EXCEPT !.traces = @ \cup {t}], sched)

-----------------------------------------------------------------------------
(* Deletion.                                                               *)

Present(d) == {j \in Jobs : d.job[j].status \notin Gone}

\* Mutant of MayPrepare: interrupted admissions are not active work.
PrepareDespitePending(d) == d.project.state = "kept" /\ ~HasActive(d)

MayPrepare(d) == d.project.state = "kept" /\ ~HasActive(d) /\ Pending(d) = {}

Prepared(d) == [d EXCEPT !.deleting = TRUE, !.doomed = Present(d)]

\* The analyses of J removed together with their intelligence.
Purged(d, J) ==
    [d EXCEPT !.intel = @ \ J,
              !.job = [j \in Jobs |-> IF j \in J THEN [@[j] EXCEPT !.status = "deleted"] ELSE @[j]]]

\* Mutant of JournalsRemoved: only interrupted admissions are removed.
PendingJournalsRemoved(d) ==
    [k \in OpIds |-> IF k \in Pending(d) THEN NoOperation ELSE d.op[k]]

\* Completed or pending, every journal of the project.
JournalsRemoved(d) == [k \in OpIds |-> NoOperation]

\* The cascade of _execute, one record class after another; the last write
\* removes the marker.  The decisions go in one write here; FindingDecisions has
\* them file by file.
Cascade(d) ==
    LET one   == Purged(d, d.doomed)
        two   == [one EXCEPT !.traces = @ \ {"decisions"}]
        three == [two EXCEPT !.op = JournalsRemoved(d)]
        four  == [three EXCEPT !.project = [state |-> "gone", snaps |-> {},
                                            current |-> NoFile, latest |-> NoJob]]
        five  == [four EXCEPT !.traces = @ \ {"inbox"}]
    IN  <<one, two, three, four, five, [five EXCEPT !.deleting = FALSE, !.doomed = {}]>>

\* Where a cascade that does not complete may stop: between two analyses, or
\* between the intelligence of one and its record, or between two classes.
Partial(d) ==
    {d} \cup {[Purged(d, J) EXCEPT !.intel = @ \ {j}] : J \in SUBSET d.doomed, j \in d.doomed}
        \cup {Cascade(d)[n] : n \in 1..5}

\* DELETE /projects/{id} prepares a cascade, or resumes the one prepared.
DeleteProject ==
    /\ phase = "up" /\ (disk.deleting \/ MayPrepare(disk))
    /\ LET d == IF disk.deleting THEN disk ELSE Prepared(disk)
       IN  \/ Lives(Cascade(d)[6], sched)
           \/ \E e \in Partial(d) : Stops(e)

-----------------------------------------------------------------------------
(* Startup: cascades, then journals, then the queue.                       *)

Boots(d, next) == /\ disk' = d /\ phase' = next
                  /\ UNCHANGED <<sched, refreshing, restarts, writesFail>>

BootDeletions ==
    /\ phase = "down"
    /\ IF disk.deleting
       THEN \/ Boots(Cascade(disk)[6], "admissions")
            \/ \E e \in Partial(disk) : (writesFail /\ Boots(e, "admissions")) \/ Dies(e)
       ELSE Boots(disk, "admissions")

\* A journal that cannot be completed is deferred, for whatever reason.
BootAdmissions ==
    /\ phase = "admissions"
    /\ IF Visible(disk) /\ Pending(disk) # {}
       THEN \E k \in Pending(disk), room \in BOOLEAN : \E o \in RecoverEnds(disk, k, room) :
              \/ Boots(o.disk, "jobs") /\ (o.reply = "stopped" => writesFail)
              \/ Dies(o.disk)
       ELSE Boots(disk, "jobs")

\* A queued analysis is dispatched again if it is the project's latest and its
\* source is retained.
Resumable(d, j) ==
    /\ d.job[j].status = "queued" /\ Visible(d) /\ d.project.latest = j
    /\ d.file[d.job[j].file] = "kept"
    /\ \E s \in d.project.snaps : s.file = d.job[j].file

BootJobs ==
    /\ phase = "jobs"
    /\ disk' = [disk EXCEPT !.job = [j \in Jobs |->
                  IF @[j].status \in Inflight /\ ~Resumable(disk, j)
                  THEN [@[j] EXCEPT !.status = "failed"] ELSE @[j]]]
    /\ sched' = {j \in Jobs : Resumable(disk, j)}
    /\ phase' = "up" /\ UNCHANGED <<refreshing, restarts, writesFail>>

Crash == phase # "down" /\ Dies(disk)

-----------------------------------------------------------------------------

Next ==
    \/ \E f \in Files : Upload(f) \/ DeleteFile(f)
    \/ \E f \in Files, c \in Commits \cup {NoCommit}, j \in Jobs : Create(f, c, j)
    \/ \E j \in Jobs : Launch(j)
    \/ \E k \in Keys, f \in Files : AddSnapshot(k, f)
    \/ \E c \in Commits, f \in Files : CiSnapshot(c, f)
    \/ \E j \in Jobs : Start(j) \/ Cancel(j) \/ DeleteJob(j) \/ ExpireJob(j)
    \/ \E j \in Jobs, s \in Terminal : Finish(j, s)
    \/ \E j \in Jobs : StartRefresh(j) \/ EndRefresh(j)
    \/ \E t \in Traces : Trace(t)
    \/ DeleteProject
    \/ BootDeletions \/ BootAdmissions \/ BootJobs \/ Crash

Spec == Init /\ [][Next]_vars

-----------------------------------------------------------------------------
(* Properties.                                                             *)

\* Every record keeps its type and the snapshot history its limit
\* (project_max_source_snapshots, storage.py ProjectSnapshotAdmissionStore.admit).
TypeOK ==
    /\ disk \in Disk
    /\ Cardinality(disk.project.snaps) <= MaxSnapshots
    /\ sched \subseteq Jobs /\ refreshing \subseteq Jobs
    /\ phase \in {"down", "admissions", "jobs", "up"}
    /\ restarts \in 0..MaxRestarts /\ writesFail \in BOOLEAN

\* A project never has two interrupted admissions: a new one completes the
\* old one first or fails (storage.py _recover_project_pending_unlocked).
OnePending == \A k, l \in Pending(disk) : k = l

\* No two snapshots of a project hold the same content or claim the same
\* commit, through interrupted admissions, attributions and CI retries.
SnapshotIdentity ==
    \A s, t \in disk.project.snaps : s # t =>
        /\ s.id # t.id /\ Digest[s.file] # Digest[t.file]
        /\ s.commit = t.commit => s.commit = NoCommit

\* The CI route never discards an upload that a snapshot or an interrupted
\* admission refers to (main.py create_ci_project_snapshot: "Client/admission
\* conflicts happen before a recovery journal owns the new source").
NoSourceDiscarded ==
    /\ \A s \in disk.project.snaps : disk.file[s.file] # "discarded"
    /\ \A k \in Pending(disk) : disk.file[disk.op[k].file] # "discarded"

\* Once the marker is written nothing is admitted, resumed or recovered, and
\* the marker lists every analysis there is (project_deletion.py _prepare).
QuietWhileDeleting ==
    disk.deleting => /\ ~HasActive(disk) /\ Pending(disk) = {}
                     /\ Present(disk) \subseteq disk.doomed

\* A deletion that has ended left no analysis, no journal, no decision and no
\* reminder, wherever it was interrupted (project_deletion.py _execute).
DeletionIsComplete ==
    disk.project.state = "gone" /\ ~disk.deleting =>
        /\ Present(disk) = {} /\ disk.traces = {}
        /\ \A k \in OpIds : disk.op[k] = NoOperation

\* While the project lives its history only grows: a snapshot keeps its
\* source, and its commit once it has one ("never replaces or deletes project
\* history", storage.py ProjectSnapshotAdmissionStore).
HistoryKept ==
    [][disk.project.state = "kept" /\ disk'.project.state = "kept" =>
         \A s \in disk.project.snaps : \E t \in disk'.project.snaps :
             s.id = t.id /\ s.file = t.file /\ s.commit \in {NoCommit, t.commit}]_vars

\* A project that is being served has at most one analysis in flight, recovered
\* admissions included (storage.py admit: "Project already has an active
\* analysis. Wait for it to finish before adding a new snapshot.").  A write
\* that fails in a live process is excepted: the retry that completes its
\* journal does not look for an analysis launched in between.
OneActive ==
    phase = "up" /\ ~writesFail =>
        \A i, j \in Jobs : {disk.job[i].status, disk.job[j].status} \subseteq Inflight => i = j

\* An interrupted admission is one of a kind, one analysis runs, and neither the
\* snapshots' identities nor the bytes they name are lost to another admission.
AdmissionsHold == TypeOK /\ OnePending /\ OneActive /\ SnapshotIdentity /\ NoSourceDiscarded

\* From its marker to its end a deletion is alone with the project's records, and
\* it removes all of them (project_deletion.py ProjectDeletionService).
DeletionHolds == QuietWhileDeleting /\ DeletionIsComplete
=============================================================================
