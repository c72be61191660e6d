---------------------------- MODULE Stewardship ----------------------------
(***************************************************************************)
(* The life of the data directory across retention, crashes, restarts,     *)
(* backup and restore (backend/app/retention.py, storage.py,               *)
(* product_audit.py, backup.py, recovery_drill.py, the derived indexes).   *)
(*                                                                         *)
(* Retention and audit handlers run to completion on the event loop, but   *)
(* every file they touch is a separate write: an operation takes its       *)
(* records (`items`) one by one, each is compiled into a sequence of writes*)
(* (`todo`), and the process may fail or die between any two.  The offline *)
(* tool is a second process that takes the storage locks; writers that do  *)
(* not use those locks (public advisories, sessions) may still run while it*)
(* copies.                                                                 *)
(***************************************************************************)
EXTENDS AuditLedger

CONSTANTS
    Org,          \* the organization whose administrator runs retention
    Seeds,        \* initial stores: [store, intact, old, faults]
    Capacity,     \* product_audit_max_events
    MaxEvents,    \* bound: audit events ever recorded
    MaxCutoff,    \* bound: how far the audit retention cutoff moves
    MaxFaults     \* bound: failed writes, crashes and decay

ASSUME StewardshipAssumption ==
    Capacity \in Nat /\ MaxEvents \in Nat /\ MaxCutoff \in Nat /\ MaxFaults \in Nat

VARIABLES
    store,        \* the data directory
    old,          \* identifiers whose age is past their retention
    intact,       \* the directory started without foreign damage
    phase,        \* "stopped", "refused", "idle" or "working"
    kind,         \* what the working process does: "startup", "retention", "record", "anonymize"
    classes,      \* classes still to run
    current,      \* the class being written
    items,        \* what it has still to take up
    todo,         \* the remaining writes of what it has taken up
    known,        \* indexes this process has adopted or rebuilt
    failed,       \* classes whose last run failed
    rested,       \* the last stop was clean
    cutoff,       \* events below it have expired
    acked,        \* audit events whose recording was acknowledged
    pending,      \* the event being appended
    tool,         \* the offline tool: [op, payload]
    bundle,       \* the published bundle: [content, manifest]
    restored,     \* the published restored directory
    faults

vars == <<store, old, intact, phase, kind, classes, current, items, todo, known, failed, rested,
          cutoff, acked, pending, tool, bundle, restored, faults>>

ledgerVars == <<cutoff, acked, pending>>
toolVars == <<tool, bundle, restored>>

NoTool == [op |-> "idle", payload |-> None]

-----------------------------------------------------------------------------
(* Derived indexes: a row set and whether the stored directory marker still *)
(* matches the directory of the records.                                    *)

(* _ensure_current: adopt the file when its marker matches, else rebuild it. *)
EnsureCurrent(idx, records) ==
    IF idx.rows # None /\ idx.marked THEN idx ELSE [rows |-> records, marked |-> TRUE]

(* A record file is replaced: the directory no longer matches the marker. *)
Touched(idx) == [idx EXCEPT !.marked = FALSE]

(* sync_after_save and sync_after_delete return at once in a process that   *)
(* has not used the index yet.                                              *)
\* Mutant of Synced.
SyncedNever(idx, records, adopted) == idx
Synced(idx, records, adopted) ==
    IF adopted THEN [rows |-> records, marked |-> TRUE] ELSE idx

Without(f, x) == Drop(f, {x})

-----------------------------------------------------------------------------
(* Validation of a directory (validate_data_store). *)
ValidProductAudit(s) ==
    /\ s.audit.bak = None
    /\ s.audit.dir # None => ValidLedger(s.audit)

ValidateDataStore(s) ==
    /\ ValidTopology(s)
    /\ ValidRemediationBatches(s)
    /\ ValidSavedViews(s)
    /\ ValidActionInbox(s)
    /\ ValidRemediationPlans(s)
    /\ ValidUploadedPayloads(s)
    /\ ValidFileRetentionIndex(s)
    /\ \A p \in DOMAIN s.projects : ValidProject(s, p)
    /\ \A j \in DOMAIN s.jobs : ValidJob(s, j)
    /\ ValidDecisions(s)
    /\ ValidActiveAggregates(s)
    /\ ValidActiveJobIndex(s)
    /\ ValidProjectReferenceIndex(s)
    /\ ValidRiskTrendIndex(s)
    /\ ValidSourceClock(s)
    /\ ValidAdoptionMetrics(s)
    /\ ValidPortfolioIndex(s)
    /\ ValidProductAudit(s)
    /\ ValidPublicAdvisorySnapshots(s)
    /\ ValidAuthState(s)

(* A seed is a directory before its first audited operation; one that is   *)
(* intact is one the tool accepts.                                         *)
ASSUME SeedsAssumption ==
    \A seed \in Seeds :
        /\ StoreShape(seed.store)
        /\ seed.store.audit = [events |-> <<>>, dir |-> None, bak |-> None]
        /\ seed.intact => StoreMaps(seed.store) /\ ValidateDataStore(seed.store)

-----------------------------------------------------------------------------
(* What one write does to the directory. *)
W(op, id) == [op |-> op, id |-> id]

(* clear_baselines_for_analysis_ids; baseline versions are left out. *)
ClearBaseline(s, j) ==
    [s EXCEPT !.projects = [p \in DOMAIN @ |->
        IF @[p].baseline = j THEN [@[p] EXCEPT !.baseline = None] ELSE @[p]],
              !.projectIdx = IF \E p \in DOMAIN s.projects : s.projects[p].baseline = j
                             THEN Touched(@) ELSE @]

(* JobStore._mark_files_deleted_unlocked *)
Unmarked(s, f) == {j \in DOMAIN s.jobs : s.jobs[j].file = f /\ ~s.jobs[j].gone}
MarkJobs(s, f) ==
    [s EXCEPT !.jobs = [j \in DOMAIN @ |->
        IF j \in Unmarked(s, f) THEN [@[j] EXCEPT !.gone = TRUE] ELSE @[j]],
              !.jobIdx = IF Unmarked(s, f) = {} THEN @ ELSE Touched(@)]

(* ProjectStore._mark_source_file_deleted_unlocked *)
MarkProjects(s, f) ==
    [s EXCEPT !.projects = [p \in DOMAIN @ |->
        [@[p] EXCEPT !.snaps = {IF n.file = f THEN [n EXCEPT !.gone = TRUE] ELSE n :
                                n \in s.projects[p].snaps}]],
              !.projectIdx = IF \E p \in DOMAIN s.projects : \E n \in s.projects[p].snaps :
                                    n.file = f /\ ~n.gone
                             THEN Touched(@) ELSE @]

(* purge_inactive of the tokens, purge_terminal_invitations. *)
LiveOnly(auth, table) ==
    IF auth = None THEN None ELSE [auth EXCEPT ![table] = {t \in @ : t.live}]

(* A record is unlinked: its directory no longer matches the index marker. *)
RemoveJob(s, j) == [s EXCEPT !.jobs = Without(@, j), !.jobIdx = Touched(@)]
RemoveFile(s, f) == [s EXCEPT !.files = Without(@, f), !.fileIdx = Touched(@)]

(* _rotate_integrity_unlocked moves the ledger away before the next one     *)
(* takes its place.                                                         *)
SwappedOut(a) == [a EXCEPT !.bak = a.dir, !.dir = None]

Written(s, w) ==
    CASE w.op = "advisory"  -> [s EXCEPT !.advisories = @ \ {w.id}]
      [] w.op = "baseline"  -> ClearBaseline(s, w.id)
      [] w.op = "job"       -> RemoveJob(s, w.id)
      [] w.op = "markJobs"  -> MarkJobs(s, w.id)
      [] w.op = "markProj"  -> MarkProjects(s, w.id)
      [] w.op = "payload"   -> [s EXCEPT !.payloads = Without(@, w.id)]
      [] w.op = "file"      -> RemoveFile(s, w.id)
      [] w.op = "syncJobs"  -> [s EXCEPT !.jobIdx = Synced(@, s.jobs, "jobs" \in known)]
      [] w.op = "syncProj"  -> [s EXCEPT !.projectIdx = Synced(@, s.projects, "projects" \in known)]
      [] w.op = "syncFiles" -> [s EXCEPT !.fileIdx = Synced(@, s.files, "files" \in known)]
      [] w.op = "tokens"    -> [s EXCEPT !.auth = LiveOnly(@, "tokens")]
      [] w.op = "invites"   -> [s EXCEPT !.auth = LiveOnly(@, "invitations")]
      [] w.op = "approvals" -> [s EXCEPT !.approvals = {a \in @ : a.live}]
      [] w.op = "weekly"    -> [s EXCEPT !.weekly.receipts = {r \in @ : r.live}]
      [] w.op = "event"     -> [s EXCEPT !.audit.events = With(@, w.id, "full")]
      [] w.op = "entry"     -> [s EXCEPT !.audit.dir.entries = With(@, w.id.n, w.id.entry)]
      [] w.op = "state"     -> [s EXCEPT !.audit.dir.state = w.id]
      [] w.op = "delEvent"  -> [s EXCEPT !.audit.events = Without(@, w.id)]
      [] w.op = "delEntry"  -> [s EXCEPT !.audit.dir.entries = Without(@, w.id)]
      [] w.op = "rewrite"   -> [s EXCEPT !.audit.events[w.id] = "anonymous"]
      [] w.op = "swapOut"   -> [s EXCEPT !.audit = SwappedOut(@)]
      [] w.op = "swapIn"    -> [s EXCEPT !.audit.dir = RotatedTree(s.audit, w.id)]
      [] w.op = "dropBak"   -> [s EXCEPT !.audit.bak = None]

-----------------------------------------------------------------------------
(* The writes of each class. *)
(* purge_expired_terminal with its before_delete callback: derived data     *)
(* goes before the job it hangs from.                                       *)
\* Mutant of PurgeJob.
PurgeJobFirst(j) ==
    <<W("job", j), W("syncJobs", j), W("advisory", j), W("baseline", j), W("syncProj", j)>>
PurgeJob(j) ==
    <<W("advisory", j), W("baseline", j), W("syncProj", j), W("job", j), W("syncJobs", j)>>

ExpiredJobs(s, owner) ==
    {j \in DOMAIN s.jobIdx.rows \cap old :
        /\ s.jobs[j].status \notin ActiveStates
        /\ owner # None => s.jobs[j].owner = owner}

(* FileStore.purge_expired: references are marked before the bytes go. *)
PurgeFile(f) ==
    <<W("markJobs", f), W("syncJobs", f), W("markProj", f), W("syncProj", f),
      W("payload", f), W("file", f), W("syncFiles", f)>>

SourceInUse(s, f) ==
    \E j \in DOMAIN s.jobs : s.jobs[j].file = f /\ s.jobs[j].status \in ActiveStates

ExpiredFiles(s, owner) ==
    {f \in DOMAIN s.fileIdx.rows \cap old :
        /\ ~SourceInUse(s, f)
        /\ owner # None => s.files[f].owner = owner}

(* _purge_expired_unlocked: the anchor moves before the files are unlinked. *)
PurgeLedger(a) ==
    LET gone == ExpiredPrefix(a, cutoff) IN
    IF gone = {} THEN <<>> ELSE <<W("state", PurgedState(a.dir.state, a.dir.entries, gone))>>
PurgeEntry(a, n) == <<W("delEvent", a.dir.entries[n].event), W("delEntry", n)>>

(* _append_integrity_event_unlocked: event, entry, state. *)
AppendEvent(a, e) ==
    LET t == a.dir.state IN
    <<W("event", e),
      W("entry", [n |-> t.head + 1, entry |-> AppendedEntry(t, e, "full")]),
      W("state", AppendedState(t, e, "full"))>>

(* anonymize_active_asset: the events are rewritten one by one, then        *)
(* _rotate_integrity_unlocked swaps the ledger for the next generation.     *)
Rotate(a) == <<W("swapOut", None), W("swapIn", a.dir.state), W("dropBak", None)>>

Owner == IF kind = "startup" THEN None ELSE Org

(* The indexes a class reads: the project index only once there is         *)
(* something to purge.                                                     *)
Adopted(c) ==
    CASE c = "results" -> {"jobs"} \cup
            (IF ExpiredJobs([store EXCEPT !.jobIdx = EnsureCurrent(@, store.jobs)], Owner) = {}
             THEN {} ELSE {"projects"})
      [] c = "sources" -> {"jobs", "files"} \cup
            (IF ExpiredFiles([store EXCEPT !.fileIdx = EnsureCurrent(@, store.files)], Owner) = {}
             THEN {} ELSE {"projects"})
      [] OTHER -> {}

Prepared(c) ==
    LET use(name, idx, records) == IF name \in Adopted(c) THEN EnsureCurrent(idx, records) ELSE idx IN
    [store EXCEPT !.jobIdx = use("jobs", @, store.jobs),
                  !.fileIdx = use("files", @, store.files),
                  !.projectIdx = use("projects", @, store.projects),
                  !.audit = IF c \in {"audit", "append"} THEN Ensured(@) ELSE @]

(* What a class takes up, its own first writes, and the writes of an item.  *)
TakenUp(c, s) ==
    CASE c = "results" -> ExpiredJobs(s, Owner)
      [] c = "sources" -> ExpiredFiles(s, Owner)
      [] c = "audit"   -> ExpiredPrefix(s.audit, cutoff)
      [] OTHER         -> {}

Plan(c, s) ==
    CASE c \in {"results", "sources"} -> <<>>
      [] c = "audit"  -> PurgeLedger(s.audit)
      [] c = "append" -> AppendEvent(s.audit, pending)
      [] c = "rotate" -> Rotate(s.audit)
      [] OTHER        -> <<W(c, None)>>

WritesOf(c, s, x) ==
    CASE c = "results"   -> PurgeJob(x)
      [] c = "sources"   -> PurgeFile(x)
      [] c = "audit"     -> PurgeEntry(s.audit, x)
      [] c = "anonymize" -> <<W("rewrite", x)>>

-----------------------------------------------------------------------------
Idle == <<phase, kind, classes, current, items, todo, known>>

(* The storage locks keep these handlers out while the tool copies; the     *)
(* source is not followed further once its bundle is sealed.                *)
Followed == tool.op # "backup" /\ bundle = None

(* lifespan: audit retention first, then startup retention. *)
StartService ==
    /\ phase = "stopped"
    /\ bundle = None
    /\ phase' = "working"
    /\ kind' = "startup"
    /\ classes' = <<"audit", "results", "sources">>
    /\ current' = "startup"
    /\ items' = {}
    /\ todo' = <<>>
    /\ known' = {}
    /\ failed' = {}
    /\ rested' = FALSE
    /\ UNCHANGED <<store, old, intact, faults, ledgerVars, toolVars>>

(* RetentionMaintenanceService.run *)
RunRetention ==
    /\ phase = "idle"
    /\ Followed
    /\ phase' = "working"
    /\ kind' = "retention"
    /\ classes' = <<"results", "sources", "tokens", "invites", "approvals", "weekly", "audit">>
    /\ failed' = failed \ {"results", "sources"}
    /\ UNCHANGED <<store, old, intact, current, items, todo, known, rested, faults, ledgerVars, toolVars>>

(* ProductAuditStore.record, on its own or closing a retention run. *)
BeginRecord ==
    /\ pending < MaxEvents
    /\ phase' = "working"
    /\ kind' = "record"
    /\ classes' = <<"audit", "append">>
    /\ pending' = pending + 1

RecordAction ==
    /\ phase = "idle"
    /\ Followed
    /\ BeginRecord
    /\ UNCHANGED <<store, old, intact, current, items, todo, known, failed, rested, cutoff, acked, faults, toolVars>>

(* ProductAuditStore.anonymize_active_asset *)
AnonymizeAsset ==
    /\ phase = "idle"
    /\ Followed
    /\ LET a == Ensured(store.audit) IN
       \E linked \in SUBSET DOMAIN a.events :
          /\ linked # {}
          /\ \A e \in linked : a.events[e] = "full"
          /\ ValidLedger(a)
          /\ store' = [store EXCEPT !.audit = a]
          /\ items' = linked
    /\ phase' = "working"
    /\ kind' = "anonymize"
    /\ current' = "anonymize"
    /\ classes' = <<"rotate">>
    /\ UNCHANGED <<old, intact, todo, known, failed, rested, faults, ledgerVars, toolVars>>

(* The next class begins: its store is opened and its writes are decided.  *)
(* An invalid ledger is refused, which ends a startup or a recording; a    *)
(* full one refuses the event.                                             *)
BeginClass ==
    /\ phase = "working"
    /\ todo = <<>> /\ items = {}
    /\ classes # <<>>
    /\ LET c == Head(classes)
           s == Prepared(c)
           full == c = "append" /\ Cardinality(DOMAIN s.audit.events) >= Capacity
           broken == c \in {"audit", "append"} /\ ~ValidLedger(s.audit)
           refused == full \/ broken
       IN  /\ store' = s
           /\ current' = c
           /\ known' = known \cup Adopted(c)
           /\ items' = IF refused THEN {} ELSE TakenUp(c, s)
           /\ todo' = IF refused THEN <<>> ELSE Plan(c, s)
           /\ failed' = IF broken THEN failed \cup {c} ELSE failed
           /\ phase' = IF refused /\ kind = "startup" THEN "refused" ELSE "working"
           /\ classes' = IF refused /\ kind # "retention" THEN <<>> ELSE Tail(classes)
    /\ UNCHANGED <<old, intact, kind, rested, faults, ledgerVars, toolVars>>

(* The next record, oldest entry first in the ledger. *)
TakeItem ==
    /\ phase = "working"
    /\ todo = <<>>
    /\ \E x \in items :
          /\ current = "audit" => \A y \in items : x <= y
          /\ items' = items \ {x}
          /\ todo' = WritesOf(current, store, x)
    /\ UNCHANGED <<store, old, intact, phase, kind, classes, current, known, failed, rested, faults, ledgerVars, toolVars>>

(* Marking a job renews its updated_at, and with it its retention. *)
WriteStep ==
    /\ phase = "working"
    /\ todo # <<>>
    /\ store' = Written(store, Head(todo))
    /\ todo' = Tail(todo)
    /\ acked' = IF current = "append" /\ Len(todo) = 1 THEN acked \cup {pending} ELSE acked
    /\ old' = IF Head(todo).op = "markJobs" THEN old \ Unmarked(store, Head(todo).id) ELSE old
    /\ UNCHANGED <<intact, phase, kind, classes, current, items, known, failed, rested, cutoff, pending, faults, toolVars>>

(* A write raises.  A failed append removes what it wrote; a failed swap    *)
(* puts the old ledger back; startup does not survive; a retention run goes *)
(* on with its next class (_run_class).                                     *)
Unappended(a) ==
    [a EXCEPT !.events = Without(@, pending), !.dir.entries = Without(@, a.dir.state.head + 1)]
SwappedBack(a) == [a EXCEPT !.dir = a.bak, !.bak = None]

Undone(s) ==
    CASE current = "append" -> [s EXCEPT !.audit = Unappended(@)]
      [] current = "rotate" /\ s.audit.dir = None -> [s EXCEPT !.audit = SwappedBack(@)]
      [] OTHER -> s

WriteFails ==
    /\ phase = "working"
    /\ todo # <<>>
    /\ Head(todo).op \notin {"syncJobs", "syncProj", "syncFiles"}
    /\ faults < MaxFaults
    /\ faults' = faults + 1
    /\ store' = Undone(store)
    /\ items' = {}
    /\ todo' = <<>>
    /\ failed' = IF current = "append" THEN failed ELSE failed \cup {current}
    /\ phase' = IF kind = "startup" THEN "stopped" ELSE "working"
    /\ classes' = IF kind = "retention" THEN classes ELSE <<>>
    /\ UNCHANGED <<old, intact, kind, current, known, rested, ledgerVars, toolVars>>

(* The operation is over; a retention run is recorded in the audit. *)
Finish ==
    /\ phase = "working"
    /\ todo = <<>> /\ items = {}
    /\ classes = <<>>
    /\ IF kind = "retention" /\ pending < MaxEvents
       THEN BeginRecord
       ELSE phase' = "idle" /\ kind' = "startup" /\ UNCHANGED <<classes, pending>>
    /\ current' = "startup"
    /\ UNCHANGED <<store, old, intact, items, todo, known, failed, rested, cutoff, acked, faults, toolVars>>

Crash ==
    /\ phase \in {"working", "idle"}
    /\ faults < MaxFaults
    /\ faults' = faults + 1
    /\ phase' = "stopped"
    /\ kind' = "startup"
    /\ current' = "startup"
    /\ items' = {}
    /\ todo' = <<>>
    /\ classes' = <<>>
    /\ known' = {}
    /\ rested' = FALSE
    /\ failed' = {}
    /\ UNCHANGED <<store, old, intact, ledgerVars, toolVars>>

StopService ==
    /\ phase = "idle"
    /\ phase' = "stopped"
    /\ known' = {}
    /\ rested' = (failed = {})
    /\ UNCHANGED <<store, old, intact, kind, classes, current, items, todo, failed, faults, ledgerVars, toolVars>>

(* Audit events age one after another. *)
Tick ==
    /\ phase = "idle"
    /\ Followed
    /\ cutoff < MaxCutoff
    /\ cutoff' = cutoff + 1
    /\ UNCHANGED <<store, old, intact, Idle, failed, rested, acked, pending, faults, toolVars>>

-----------------------------------------------------------------------------
(* create_backup: under the locks, validate the source, copy, validate the  *)
(* copy, seal and publish.  Only uploads, results and the identity file are *)
(* copied.                                                                  *)
Durable(s) ==
    [s EXCEPT !.outbox = {}, !.journals = {}, !.workspaces = {}]

BackupBegin ==
    /\ tool.op = "idle"
    /\ bundle = None
    /\ phase # "working"
    /\ Quiescent(store)
    /\ ValidateDataStore(store)
    /\ tool' = [op |-> "backup", payload |-> Durable(store)]
    /\ UNCHANGED <<store, old, intact, Idle, failed, rested, faults, ledgerVars, bundle, restored>>

(* The unlocked writers while the tool copies: an advisory snapshot is      *)
(* replaced or a session is opened after the listing was made.              *)
LateWrite ==
    /\ tool.op = "backup"
    /\ phase = "idle"
    /\ \/ \E j \in DOMAIN store.jobs :
             store' = [store EXCEPT !.advisories = @ \cup {j}]
       \/ /\ store.auth # None
          /\ \E u \in store.auth.users : store' = [store EXCEPT !.auth.sessions = @ \cup {u}]
    /\ store' # store
    /\ UNCHANGED <<old, intact, Idle, failed, rested, faults, ledgerVars, toolVars>>

(* The identity file is copied after the results, as it is by then. *)
BackupSeal ==
    /\ tool.op = "backup"
    /\ LET payload == [tool.payload EXCEPT !.auth = store.auth] IN
       bundle' = IF ValidateDataStore(payload) THEN [content |-> payload, manifest |-> payload]
                 ELSE None
    /\ tool' = NoTool
    /\ UNCHANGED <<store, old, intact, Idle, failed, rested, faults, ledgerVars, restored>>

(* A copy fails or the tool dies: the temporary directory is never the target. *)
ToolFails ==
    /\ tool.op # "idle"
    /\ faults < MaxFaults
    /\ faults' = faults + 1
    /\ tool' = NoTool
    /\ UNCHANGED <<store, old, intact, Idle, failed, rested, ledgerVars, bundle, restored>>

(* A stored bundle loses or changes a file; its directory stays. *)
BundleDecays ==
    /\ bundle # None
    /\ restored = None
    /\ faults < MaxFaults
    /\ faults' = faults + 1
    /\ \/ \E f \in DOMAIN bundle.content.payloads :
             bundle' = [bundle EXCEPT !.content.payloads[f] = "rot"]
       \/ \E j \in bundle.content.advisories :
             bundle' = [bundle EXCEPT !.content.advisories = @ \ {j}]
    /\ bundle' # None
    /\ UNCHANGED <<store, old, intact, Idle, failed, rested, ledgerVars, tool, restored>>

(* _verify_backup_directory: exact files, sizes and digests, valid payload. *)
VerifiedBundle(b) == b.content = b.manifest /\ ValidateDataStore(b.content)

RestoreBegin ==
    /\ tool.op = "idle"
    /\ bundle # None
    /\ restored = None
    /\ VerifiedBundle(bundle)
    /\ tool' = [op |-> "restore", payload |-> None]
    /\ UNCHANGED <<store, old, intact, Idle, failed, rested, faults, ledgerVars, bundle, restored>>

(* Every copied file is digested again and compared with the manifest. *)
\* Mutant of RestoreCopyMatches.
RestoreCopyUnchecked(b) == TRUE
RestoreCopyMatches(b) == b.content = b.manifest

RestoreCopy ==
    /\ tool.op = "restore"
    /\ tool.payload = None
    /\ tool' = IF RestoreCopyMatches(bundle) THEN [tool EXCEPT !.payload = bundle.content]
               ELSE NoTool
    /\ UNCHANGED <<store, old, intact, Idle, failed, rested, faults, ledgerVars, bundle, restored>>

(* _migrate_and_revoke_auth_state *)
Revoked(s) ==
    IF s.auth = None THEN s
    ELSE [s EXCEPT !.auth.sessions = {}, !.auth.attempts = {}, !.auth.invitations = {}]

RestorePublish ==
    /\ tool.op = "restore"
    /\ tool.payload # None
    /\ restored' = IF ValidateDataStore(Revoked(tool.payload)) THEN Revoked(tool.payload)
                   ELSE None
    /\ tool' = NoTool
    /\ UNCHANGED <<store, old, intact, Idle, failed, rested, faults, ledgerVars, bundle>>

-----------------------------------------------------------------------------
Init ==
    /\ \E seed \in Seeds :
          /\ store = seed.store
          /\ old = seed.old
          /\ intact = seed.intact
          /\ faults = seed.faults
    /\ phase = "stopped"
    /\ kind = "startup"
    /\ classes = <<>>
    /\ current = "startup"
    /\ items = {}
    /\ todo = <<>>
    /\ known = {}
    /\ failed = {}
    /\ rested = FALSE
    /\ cutoff = 0
    /\ acked = {}
    /\ pending = 0
    /\ tool = NoTool
    /\ bundle = None
    /\ restored = None

Next ==
    \/ StartService \/ RunRetention \/ RecordAction \/ AnonymizeAsset
    \/ BeginClass \/ TakeItem \/ WriteStep \/ WriteFails \/ Finish \/ Crash \/ StopService \/ Tick
    \/ BackupBegin \/ LateWrite \/ BackupSeal \/ ToolFails
    \/ BundleDecays \/ RestoreBegin \/ RestoreCopy \/ RestorePublish

Spec == Init /\ [][Next]_vars

-----------------------------------------------------------------------------
(* What must hold between the records of one directory. *)
References(s) ==
    /\ s.advisories \subseteq DOMAIN s.jobs
    /\ \A p \in DOMAIN s.projects :
          /\ s.projects[p].baseline \in DOMAIN s.jobs \cup {None}
          /\ \A n \in s.projects[p].snaps : n.file \in DOMAIN s.payloads \/ n.gone
    /\ \A j \in DOMAIN s.jobs : s.jobs[j].file \in DOMAIN s.payloads \cup {None} \/ s.jobs[j].gone

(* Between any two writes of retention, and after any crash or failed      *)
(* write, no advisory snapshot or baseline names a purged analysis and no  *)
(* project or job names bytes that are gone without saying so              *)
(* (retention.py before_delete callbacks, storage.py purge_expired).       *)
ReferencesHold == intact => References(store)

(* Every directory the service leaves after a clean stop with no failed    *)
(* class is one the backup accepts, whatever crashes came before, as long  *)
(* as the latest analysis of each project and recurrence is retained and   *)
(* no interrupted rotation left its backup directory                       *)
(* (backup.py validate_data_store, the derived indexes).                   *)
LatestRetained(s) ==
    /\ \A p \in DOMAIN s.projects : s.projects[p].latest \in DOMAIN s.jobs \cup {None}
    /\ \A k \in DOMAIN s.recurs : s.recurs[k].last \in DOMAIN s.jobs \cup {None}
AcceptedAtRest ==
    phase = "stopped" /\ rested /\ intact /\ LatestRetained(store) /\ store.audit.bak = None
        => ValidateDataStore(store)

(* A restored directory is the one the bundle was sealed from, although    *)
(* the bundle may have decayed before or while it was read; nobody is      *)
(* signed in or invited any more, and its references hold                  *)
(* (backup.py create_backup, restore_backup).                              *)
RestoredIsFaithful ==
    restored # None =>
        /\ restored = Revoked(bundle.manifest)
        /\ restored.auth = None \/ restored.auth.sessions \cup restored.auth.invitations = {}
        /\ References(restored)
        /\ Quiescent(restored)

(* A ledger that verifies holds every acknowledged event that has not      *)
(* expired: failed appends, purges, rotations, crashes and bootstraps may  *)
(* get the ledger refused, but never a shorter history accepted            *)
(* (product_audit.py record, purge_expired, anonymize_active_asset).       *)
LedgerIsHistory ==
    ValidLedger(store.audit) => {e \in acked : e >= cutoff} \subseteq DOMAIN store.audit.events

=============================================================================
