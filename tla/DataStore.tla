----------------------------- MODULE DataStore -----------------------------
(***************************************************************************)
(* The durable data directory as the offline tool reads it                 *)
(* (backend/app/backup.py): what makes a directory quiescent and what      *)
(* makes it valid.  Every operator is a predicate on a store value `s`, so *)
(* the same definition judges the source, the copied payload and the       *)
(* restored directory.                                                     *)
(*                                                                         *)
(* Collections are functions from identifiers to records.  A digest is the *)
(* digested value itself; a derived SQLite index is either None (the file  *)
(* is absent) or the function from keys to the records it projects, since  *)
(* every row carries the digest of its record.                             *)
(***************************************************************************)
EXTENDS Absence, Integers, FiniteSets, Sequences

ActiveStates == {"queued", "running", "cancelling"}

(* _record_scope: a record without an owner belongs to the local admin. *)
Scope(r) == IF r.owner = None THEN "local-admin" ELSE r.owner

-----------------------------------------------------------------------------
(* What every directory consists of. *)
StoreFields == {"files", "payloads", "fileIdx", "projects", "projectIdx", "jobs", "jobIdx",
                "advisories", "decisions", "receipts", "views", "inbox", "plans", "artifacts",
                "assets", "assetIdx", "verifs", "verifIdx", "recurs", "recurIdx", "batches",
                "approvals", "weekly", "trend", "clock", "portfolio", "adoption", "audit", "auth",
                "outbox", "journals", "workspaces", "companions", "strays"}
JobFields == {"owner", "project", "asset", "file", "gone", "status"}
ProjectFields == {"owner", "source", "sha", "snaps", "latest", "baseline"}
SnapFields == {"file", "sha", "gone"}
IndexFields == {"rows", "marked"}
AuthFields == {"users", "sessions", "attempts", "schema", "invitations", "tokens"}

StoreShape(s) ==
    /\ StoreFields \subseteq DOMAIN s
    /\ \A j \in DOMAIN s.jobs : JobFields \subseteq DOMAIN s.jobs[j]
    /\ \A p \in DOMAIN s.projects :
          /\ ProjectFields \subseteq DOMAIN s.projects[p]
          /\ \A n \in s.projects[p].snaps : SnapFields \subseteq DOMAIN n
    /\ IndexFields \subseteq DOMAIN s.jobIdx
    /\ IndexFields \subseteq DOMAIN s.projectIdx
    /\ IndexFields \subseteq DOMAIN s.fileIdx
    /\ {"key", "receipts"} \subseteq DOMAIN s.weekly
    /\ {"events", "dir", "bak"} \subseteq DOMAIN s.audit
    /\ s.auth # None => AuthFields \subseteq DOMAIN s.auth

(* Collections and records are functions, and no job bears the name of a   *)
(* file.                                                                   *)
Mapping(f) == f = [x \in DOMAIN f |-> f[x]]
StoreMaps(s) ==
    /\ Mapping(s.jobs) /\ Mapping(s.files) /\ Mapping(s.projects)
    /\ \A p \in DOMAIN s.projects :
          /\ Mapping(s.projects[p])
          /\ \A n \in s.projects[p].snaps : Mapping(n) /\ n.gone \in BOOLEAN
    /\ DOMAIN s.jobs \cap DOMAIN s.files = {}

-----------------------------------------------------------------------------
(* Remediation: receipts and the decisions that name them agree exactly. *)
ValidRemediationBatches(s) ==
    /\ \A d \in DOMAIN s.decisions :
          LET op == s.decisions[d].batch IN
          op # None => /\ op \in DOMAIN s.receipts
                       /\ s.receipts[op].org = s.decisions[d].org
                       /\ d \in DOMAIN s.receipts[op].digests
                       /\ s.receipts[op].digests[d] = s.decisions[d]
    /\ \A op \in DOMAIN s.receipts :
          DOMAIN s.receipts[op].digests =
              {d \in DOMAIN s.decisions : s.decisions[d].batch = op}

ValidSavedViews(s) == \A v \in s.views : v.org = v.file

ValidActionInbox(s) ==
    \A org \in DOMAIN s.inbox : \A p \in s.inbox[org] :
        p \in DOMAIN s.projects /\ Scope(s.projects[p]) = org

(* Only a completed plan has an artifact, with the digest its job recorded. *)
ValidRemediationPlans(s) ==
    LET done == {k \in DOMAIN s.plans : s.plans[k].status = "completed"} IN
    /\ DOMAIN s.artifacts = done
    /\ \A k \in done : s.artifacts[k] = s.plans[k].digest

(* Every payload has its metadata record and every record its payload. *)
ValidUploadedPayloads(s) ==
    /\ DOMAIN s.payloads = DOMAIN s.files
    /\ \A f \in DOMAIN s.files : s.payloads[f] = s.files[f].sha

-----------------------------------------------------------------------------
(* Derived indexes that must equal the records they project. *)
IndexMatches(rows, records) == rows = None \/ rows = records

ValidFileRetentionIndex(s) == IndexMatches(s.fileIdx.rows, s.files)
ValidProjectReferenceIndex(s) == IndexMatches(s.projectIdx.rows, s.projects)
ValidActiveJobIndex(s) == IndexMatches(s.jobIdx.rows, s.jobs)
ValidActiveAssetIndex(s) == IndexMatches(s.assetIdx, s.assets)
ValidVerificationIndex(s) == IndexMatches(s.verifIdx, s.verifs)
ValidRecurrenceIndex(s) == IndexMatches(s.recurIdx, s.recurs)

(* Rebuildable projections are only checked for their own shape: closed    *)
(* states, no fact without its owner, counts that add up.                  *)
ValidRiskTrendIndex(s) ==
    s.trend = None \/
    /\ \A o \in DOMAIN s.trend.refresh :
          LET r == s.trend.refresh[o] IN
          /\ r.state \in {"queued", "rebuilding", "ready", "failed"}
          /\ (r.state = "queued" => ~r.started)
          /\ (r.state = "rebuilding" => r.started)
          /\ (r.state = "failed") = (r.failure # None)
          /\ (r.state = "ready" => r.built = r.desired /\ o \in DOMAIN s.trend.owners)
    /\ s.trend.facts = [o \in {q \in DOMAIN s.trend.owners : s.trend.owners[q] > 0} |->
                           s.trend.owners[o]]

ValidSourceClock(s) ==
    s.clock = None \/ \A o \in DOMAIN s.clock : s.clock[o] >= 1

ValidPortfolioIndex(s) ==
    s.portfolio = None \/
    LET busy == {o \in DOMAIN s.portfolio.owners : s.portfolio.owners[o].projects > 0} IN
    /\ s.portfolio.facts = [o \in busy |-> s.portfolio.owners[o].projects]
    /\ \A o \in DOMAIN s.portfolio.owners :
          s.portfolio.owners[o].prefixes >= s.portfolio.owners[o].projects
    /\ s.portfolio.prefixes = [o \in busy |-> s.portfolio.owners[o].prefixes]

AdoptionDimensions == {<<"login", "success">>, <<"upload", "success">>, <<"upload", "failure">>}

ValidAdoptionMetrics(s) ==
    \A row \in s.adoption : <<row.flow, row.outcome>> \in AdoptionDimensions /\ row.count >= 1

-----------------------------------------------------------------------------
(* Projects, jobs and decisions. *)
ValidProject(s, p) ==
    LET project == s.projects[p]
        names(j) == j = None \/ ( /\ j \in DOMAIN s.jobs
                                  /\ s.jobs[j].project = p
                                  /\ Scope(s.jobs[j]) = Scope(project) )
    IN  /\ \E n \in project.snaps : n.file = project.source /\ n.sha = project.sha
        /\ names(project.latest)
        /\ names(project.baseline)
        /\ \A n \in project.snaps :
              IF n.file \in DOMAIN s.files
              THEN Scope(s.files[n.file]) = Scope(project) /\ s.files[n.file].sha = n.sha
              ELSE n.gone

ValidJob(s, j) ==
    LET job == s.jobs[j] IN
    /\ job.project # None => /\ job.project \in DOMAIN s.projects
                             /\ Scope(s.projects[job.project]) = Scope(job)
    /\ job.file # None =>
          IF job.file \in DOMAIN s.files THEN Scope(s.files[job.file]) = Scope(job) ELSE job.gone

ValidDecisions(s) ==
    \A d \in DOMAIN s.decisions :
        /\ s.decisions[d].project \in DOMAIN s.projects
        /\ Scope(s.projects[s.decisions[d].project]) = s.decisions[d].org

ValidPublicAdvisorySnapshots(s) == s.advisories \subseteq DOMAIN s.jobs

-----------------------------------------------------------------------------
(* Active aggregates: keys are <<organization, identifier>>. *)
ValidActiveChangeApprovals(s) ==
    \A a \in s.approvals : a.asset = None \/ <<a.org, a.asset>> \in DOMAIN s.assets

ValidWeeklyReceipts(s) ==
    \A r \in s.weekly.receipts : s.weekly.key # None /\ r.signed = s.weekly.key

ValidActiveAggregates(s) ==
    /\ ValidActiveChangeApprovals(s)
    /\ ValidWeeklyReceipts(s)
    /\ \A k \in DOMAIN s.verifs : <<k[1], s.verifs[k].asset>> \in DOMAIN s.assets
    /\ \A k \in DOMAIN s.batches : \A a \in s.batches[k] : <<k[1], a>> \in DOMAIN s.assets
    /\ \A k \in DOMAIN s.recurs :
          /\ <<k[1], s.recurs[k].asset>> \in DOMAIN s.assets
          /\ s.recurs[k].last # None =>
                /\ s.recurs[k].last \in DOMAIN s.jobs
                /\ s.jobs[s.recurs[k].last].owner = k[1]
                /\ s.jobs[s.recurs[k].last].asset = s.recurs[k].asset
    /\ \A j \in DOMAIN s.jobs :
          s.jobs[j].asset # None => <<Scope(s.jobs[j]), s.jobs[j].asset>> \in DOMAIN s.assets
    /\ ValidActiveAssetIndex(s)
    /\ ValidVerificationIndex(s)
    /\ ValidRecurrenceIndex(s)

ValidAuthState(s) ==
    s.auth = None \/ ( /\ s.auth.sessions \subseteq s.auth.users
                       /\ s.auth.schema \in 1..2 )

-----------------------------------------------------------------------------
(* _require_quiescent and _require_integration_outbox_safe_to_exclude. *)
OutboxSafeToExclude(s) == s.outbox \subseteq {"delivered"}

Quiescent(s) ==
    /\ \A j \in DOMAIN s.jobs : s.jobs[j].status \notin ActiveStates
    /\ \A k \in DOMAIN s.plans : s.plans[k].status \notin ActiveStates
    /\ s.workspaces = {}
    /\ s.journals = {}
    /\ ~s.companions
    /\ OutboxSafeToExclude(s)

(* _validate_topology and _walk_regular_files: nothing unknown and no      *)
(* temporary entry inside the copied trees.                                *)
ValidTopology(s) == s.strays = {}
=============================================================================
