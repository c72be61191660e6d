-------------------------- MODULE AcceptanceProofs --------------------------
(***************************************************************************)
(* Proof that every directory the service leaves after a clean stop is one *)
(* a backup accepts (AcceptedAtRest), for any records, bounds and history  *)
(* of crashes and failed writes.                                           *)
(*                                                                         *)
(* KeptInv: what no removal can undo of an accepted directory.             *)
(* UpkeepInv: which bytes and which indexes may be wrong, and the pass of  *)
(* retention or the start of the service that will put them right.         *)
(* LedgerInv: what the audit chain will be once the writes at work are     *)
(* made; a class that failed is remembered, and the stop is not clean.     *)
(***************************************************************************)
EXTENDS DataDirectoryProofs

(***************************************************************************)
(* A clean stop leaves a directory the tool accepts.                       *)
(***************************************************************************)
(* What the tool asks of the records, as far as no removal of retention    *)
(* can touch it: a reference is judged only while its record is there.     *)
KeptProject(s, p) ==
    LET project == s.projects[p]
        named(j) == j # None /\ j \in DOMAIN s.jobs =>
                        s.jobs[j].project = p /\ Scope(s.jobs[j]) = Scope(project)
    IN  /\ \E n \in project.snaps : n.file = project.source /\ n.sha = project.sha
        /\ named(project.latest)
        /\ named(project.baseline)
        /\ \A n \in project.snaps : n.file \in DOMAIN s.files =>
              Scope(s.files[n.file]) = Scope(project) /\ s.files[n.file].sha = n.sha

KeptJob(s, j) ==
    LET job == s.jobs[j] IN
    /\ job.project # None => /\ job.project \in DOMAIN s.projects
                             /\ Scope(s.projects[job.project]) = Scope(job)
    /\ job.file # None /\ job.file \in DOMAIN s.files => Scope(s.files[job.file]) = Scope(job)

KeptAggregates(s) ==
    /\ ValidActiveChangeApprovals(s)
    /\ ValidWeeklyReceipts(s)
    /\ \A k \in DOMAIN s.verifs : <<k[1], s.verifs[k].asset>> \in DOMAIN s.assets
    /\ \A k \in DOMAIN s.batches : \A a \in s.batches[k] : <<k[1], a>> \in DOMAIN s.assets
    /\ \A k \in DOMAIN s.recurs :
          /\ <<k[1], s.recurs[k].asset>> \in DOMAIN s.assets
          /\ s.recurs[k].last # None /\ s.recurs[k].last \in DOMAIN s.jobs =>
                /\ s.jobs[s.recurs[k].last].owner = k[1]
                /\ s.jobs[s.recurs[k].last].asset = s.recurs[k].asset
    /\ \A j \in DOMAIN s.jobs :
          s.jobs[j].asset # None => <<Scope(s.jobs[j]), s.jobs[j].asset>> \in DOMAIN s.assets
    /\ ValidActiveAssetIndex(s) /\ ValidVerificationIndex(s) /\ ValidRecurrenceIndex(s)

Lasting(s) ==
    /\ ValidTopology(s) /\ ValidRemediationBatches(s) /\ ValidSavedViews(s) /\ ValidActionInbox(s)
    /\ ValidRemediationPlans(s) /\ ValidDecisions(s)
    /\ \A p \in DOMAIN s.projects : KeptProject(s, p)
    /\ \A j \in DOMAIN s.jobs : KeptJob(s, j)
    /\ KeptAggregates(s)
    /\ ValidRiskTrendIndex(s) /\ ValidSourceClock(s) /\ ValidAdoptionMetrics(s)
    /\ ValidPortfolioIndex(s) /\ ValidAuthState(s)


(* What a write of retention does to the records. *)
Shrunk(s, t) ==
    /\ Only(s, t, {"jobs", "projects", "files", "payloads", "advisories", "jobIdx", "projectIdx",
                   "fileIdx", "approvals", "weekly", "auth", "audit"})
    /\ DOMAIN t.jobs \subseteq DOMAIN s.jobs
    /\ \A j \in DOMAIN t.jobs :
          /\ t.jobs[j].owner = s.jobs[j].owner /\ t.jobs[j].project = s.jobs[j].project
          /\ t.jobs[j].asset = s.jobs[j].asset /\ t.jobs[j].file = s.jobs[j].file
          /\ t.jobs[j].status = s.jobs[j].status
    /\ DOMAIN t.projects = DOMAIN s.projects
    /\ \A p \in DOMAIN t.projects :
          /\ t.projects[p].owner = s.projects[p].owner /\ t.projects[p].source = s.projects[p].source
          /\ t.projects[p].sha = s.projects[p].sha /\ t.projects[p].latest = s.projects[p].latest
          /\ t.projects[p].baseline \in {s.projects[p].baseline, None}
          /\ \A n \in t.projects[p].snaps : \E m \in s.projects[p].snaps : n.file = m.file /\ n.sha = m.sha
          /\ \A m \in s.projects[p].snaps : \E n \in t.projects[p].snaps : n.file = m.file /\ n.sha = m.sha
    /\ DOMAIN t.files \subseteq DOMAIN s.files /\ \A f \in DOMAIN t.files : t.files[f] = s.files[f]
    /\ t.approvals \subseteq s.approvals
    /\ t.weekly.key = s.weekly.key /\ t.weekly.receipts \subseteq s.weekly.receipts
    /\ ValidAuthState(s) => ValidAuthState(t)

\* What retention removes takes nothing away from the validity of what stays.
LEMMA LastingKept ==
  ASSUME NEW s, NEW t, StoreFields \subseteq DOMAIN s, Lasting(s), Shrunk(s, t)
  PROVE  Lasting(t)
  <1>1. /\ t.strays = s.strays /\ t.decisions = s.decisions /\ t.receipts = s.receipts /\ t.views = s.views
        /\ t.inbox = s.inbox /\ t.plans = s.plans /\ t.artifacts = s.artifacts /\ t.assets = s.assets
        /\ t.assetIdx = s.assetIdx /\ t.verifs = s.verifs /\ t.verifIdx = s.verifIdx /\ t.recurs = s.recurs
        /\ t.recurIdx = s.recurIdx /\ t.batches = s.batches /\ t.trend = s.trend /\ t.clock = s.clock
        /\ t.portfolio = s.portfolio /\ t.adoption = s.adoption
    BY DEF Shrunk, Only, StoreFields
  <1>2. \A p \in DOMAIN t.projects : p \in DOMAIN s.projects /\ Scope(t.projects[p]) = Scope(s.projects[p])
    BY DEF Shrunk, Scope
  <1>3. \A j \in DOMAIN t.jobs : j \in DOMAIN s.jobs /\ Scope(t.jobs[j]) = Scope(s.jobs[j])
    BY DEF Shrunk, Scope
  <1>4. \A f \in DOMAIN t.files : f \in DOMAIN s.files /\ t.files[f] = s.files[f]
    BY DEF Shrunk
  <1>5. DOMAIN t.projects = DOMAIN s.projects
    BY DEF Shrunk
  <1>6. /\ ValidTopology(t) /\ ValidRemediationBatches(t) /\ ValidSavedViews(t) /\ ValidRemediationPlans(t)
        /\ ValidRiskTrendIndex(t) /\ ValidSourceClock(t) /\ ValidAdoptionMetrics(t) /\ ValidPortfolioIndex(t)
    <2>1. ValidTopology(t) /\ ValidSavedViews(t) /\ ValidRemediationBatches(t) /\ ValidRemediationPlans(t)
      BY <1>1 DEF Lasting, ValidTopology, ValidSavedViews, ValidRemediationBatches, ValidRemediationPlans
    <2>2. ValidRiskTrendIndex(t)
      BY <1>1 DEF Lasting, ValidRiskTrendIndex
    <2>3. ValidSourceClock(t) /\ ValidAdoptionMetrics(t)
      BY <1>1 DEF Lasting, ValidSourceClock, ValidAdoptionMetrics
    <2>4. ValidPortfolioIndex(t)
      BY <1>1 DEF Lasting, ValidPortfolioIndex
    <2> QED BY <2>1, <2>2, <2>3, <2>4
  <1>7. ValidActionInbox(t) /\ ValidDecisions(t)
    BY <1>1, <1>2, <1>5 DEF Lasting, ValidActionInbox, ValidDecisions
  <1>8. ASSUME NEW p \in DOMAIN t.projects
        PROVE  KeptProject(t, p)
    <2> DEFINE a == s.projects[p]
               b == t.projects[p]
    <2>1. /\ b.source = a.source /\ b.sha = a.sha /\ b.latest = a.latest /\ b.baseline \in {a.baseline, None}
          /\ \A n \in b.snaps : \E m \in a.snaps : n.file = m.file /\ n.sha = m.sha
          /\ \A m \in a.snaps : \E n \in b.snaps : n.file = m.file /\ n.sha = m.sha
          /\ Scope(b) = Scope(a) /\ p \in DOMAIN s.projects
      BY <1>2 DEF Shrunk
    <2>2. /\ \E n \in a.snaps : n.file = a.source /\ n.sha = a.sha
          /\ \A j \in {a.latest, a.baseline} : j # None /\ j \in DOMAIN s.jobs =>
                 s.jobs[j].project = p /\ Scope(s.jobs[j]) = Scope(a)
          /\ \A n \in a.snaps : n.file \in DOMAIN s.files =>
                 Scope(s.files[n.file]) = Scope(a) /\ s.files[n.file].sha = n.sha
      BY <2>1 DEF Lasting, KeptProject
    <2>3. \A j \in DOMAIN t.jobs : t.jobs[j].project = s.jobs[j].project
      BY DEF Shrunk
    <2> HIDE DEF a, b
    <2>4. \E n \in b.snaps : n.file = b.source /\ n.sha = b.sha
      BY <2>1, <2>2
    <2>5. \A j \in {b.latest, b.baseline} : j # None /\ j \in DOMAIN t.jobs =>
                 t.jobs[j].project = p /\ Scope(t.jobs[j]) = Scope(b)
      BY <1>3, <2>1, <2>2, <2>3
    <2>6. \A n \in b.snaps : n.file \in DOMAIN t.files =>
                 Scope(t.files[n.file]) = Scope(b) /\ t.files[n.file].sha = n.sha
      <3> TAKE n \in b.snaps
      <3>1. PICK m \in a.snaps : n.file = m.file /\ n.sha = m.sha
        BY <2>1
      <3> QED BY <1>4, <2>1, <2>2, <3>1
    <2> QED BY <2>4, <2>5, <2>6 DEF KeptProject, b
  <1>9. \A j \in DOMAIN t.jobs : KeptJob(t, j)
    <2> TAKE j \in DOMAIN t.jobs
    <2>1. KeptJob(s, j) /\ t.jobs[j].project = s.jobs[j].project /\ t.jobs[j].file = s.jobs[j].file
      BY <1>3 DEF Shrunk, Lasting
    <2> QED BY <1>2, <1>3, <1>4, <1>5, <2>1 DEF KeptJob
  <1>10. KeptAggregates(t)
    <2>1. ValidActiveChangeApprovals(t)
      BY <1>1 DEF Shrunk, Lasting, KeptAggregates, ValidActiveChangeApprovals
    <2>2. ValidWeeklyReceipts(t)
      BY DEF Shrunk, Lasting, KeptAggregates, ValidWeeklyReceipts
    <2>3. /\ \A k \in DOMAIN t.verifs : <<k[1], t.verifs[k].asset>> \in DOMAIN t.assets
          /\ \A k \in DOMAIN t.batches : \A a \in t.batches[k] : <<k[1], a>> \in DOMAIN t.assets
          /\ ValidActiveAssetIndex(t) /\ ValidVerificationIndex(t) /\ ValidRecurrenceIndex(t)
      BY <1>1 DEF Lasting, KeptAggregates, ValidActiveAssetIndex, ValidVerificationIndex, ValidRecurrenceIndex
    <2>4. \A k \in DOMAIN t.recurs :
             /\ <<k[1], t.recurs[k].asset>> \in DOMAIN t.assets
             /\ t.recurs[k].last # None /\ t.recurs[k].last \in DOMAIN t.jobs =>
                   /\ t.jobs[t.recurs[k].last].owner = k[1]
                   /\ t.jobs[t.recurs[k].last].asset = t.recurs[k].asset
      <3> TAKE k \in DOMAIN t.recurs
      <3>1. /\ <<k[1], s.recurs[k].asset>> \in DOMAIN s.assets
            /\ s.recurs[k].last # None /\ s.recurs[k].last \in DOMAIN s.jobs =>
                  /\ s.jobs[s.recurs[k].last].owner = k[1]
                  /\ s.jobs[s.recurs[k].last].asset = s.recurs[k].asset
        BY <1>1 DEF Lasting, KeptAggregates
      <3>2. \A j \in DOMAIN t.jobs : /\ j \in DOMAIN s.jobs /\ t.jobs[j].owner = s.jobs[j].owner
                                     /\ t.jobs[j].asset = s.jobs[j].asset
        BY DEF Shrunk
      <3> QED BY <1>1, <3>1, <3>2
    <2>5. \A j \in DOMAIN t.jobs :
             t.jobs[j].asset # None => <<Scope(t.jobs[j]), t.jobs[j].asset>> \in DOMAIN t.assets
      <3> TAKE j \in DOMAIN t.jobs
      <3>1. s.jobs[j].asset # None => <<Scope(s.jobs[j]), s.jobs[j].asset>> \in DOMAIN s.assets
        BY <1>3 DEF Lasting, KeptAggregates
      <3>2. t.jobs[j].asset = s.jobs[j].asset /\ Scope(t.jobs[j]) = Scope(s.jobs[j])
        BY <1>3 DEF Shrunk
      <3> QED BY <1>1, <3>1, <3>2
    <2> QED BY <2>1, <2>2, <2>3, <2>4, <2>5 DEF KeptAggregates
  <1>11. ValidAuthState(t)
    BY DEF Shrunk, Lasting
  <1> QED BY <1>6, <1>7, <1>8, <1>9, <1>10, <1>11 DEF Lasting

\* An accepted directory is one whose records last, whose references, uploads
\* and indexes agree and whose ledger verifies.
LEMMA AcceptedIs ==
  ASSUME NEW s
  PROVE  /\ ValidateDataStore(s) => Lasting(s)
         /\ /\ Lasting(s) /\ References(s) /\ LatestRetained(s)
            /\ ValidUploadedPayloads(s) /\ ValidFileRetentionIndex(s) /\ ValidActiveJobIndex(s)
            /\ ValidProjectReferenceIndex(s) /\ ValidProductAudit(s)
            => ValidateDataStore(s)
  <1>1. ASSUME ValidateDataStore(s)
        PROVE  Lasting(s)
    <2>1. \A p \in DOMAIN s.projects : KeptProject(s, p)
      BY <1>1 DEF ValidateDataStore, ValidProject, KeptProject
    <2>2. \A j \in DOMAIN s.jobs : KeptJob(s, j)
      BY <1>1 DEF ValidateDataStore, ValidJob, KeptJob
    <2>3. KeptAggregates(s)
      BY <1>1 DEF ValidateDataStore, ValidActiveAggregates, KeptAggregates
    <2> QED BY <1>1, <2>1, <2>2, <2>3 DEF ValidateDataStore, Lasting
  <1>2. ASSUME Lasting(s), References(s), LatestRetained(s),
               ValidUploadedPayloads(s), ValidFileRetentionIndex(s), ValidActiveJobIndex(s),
               ValidProjectReferenceIndex(s), ValidProductAudit(s)
        PROVE  ValidateDataStore(s)
    <2>1. DOMAIN s.payloads = DOMAIN s.files
      BY <1>2 DEF ValidUploadedPayloads
    <2>2. ASSUME NEW p \in DOMAIN s.projects
          PROVE  ValidProject(s, p)
      <3>1. KeptProject(s, p)
        BY <1>2 DEF Lasting
      <3>2. /\ s.projects[p].baseline \in DOMAIN s.jobs \cup {None}
            /\ s.projects[p].latest \in DOMAIN s.jobs \cup {None}
            /\ \A n \in s.projects[p].snaps : n.file \in DOMAIN s.files \/ n.gone
        BY <1>2, <2>1 DEF References, LatestRetained
      <3> QED BY <3>1, <3>2 DEF KeptProject, ValidProject
    <2>3. ASSUME NEW j \in DOMAIN s.jobs
          PROVE  ValidJob(s, j)
      <3>1. KeptJob(s, j)
        BY <1>2 DEF Lasting
      <3>2. s.jobs[j].file \in DOMAIN s.files \cup {None} \/ s.jobs[j].gone
        BY <1>2, <2>1 DEF References
      <3> QED BY <3>1, <3>2 DEF KeptJob, ValidJob
    <2>4. ValidActiveAggregates(s)
      <3>1. KeptAggregates(s)
        BY <1>2 DEF Lasting
      <3>2. \A k \in DOMAIN s.recurs : s.recurs[k].last \in DOMAIN s.jobs \cup {None}
        BY <1>2 DEF LatestRetained
      <3> QED BY <3>1, <3>2 DEF KeptAggregates, ValidActiveAggregates
    <2>5. ValidPublicAdvisorySnapshots(s)
      BY <1>2 DEF References, ValidPublicAdvisorySnapshots
    <2> QED BY <1>2, <2>2, <2>3, <2>4, <2>5 DEF ValidateDataStore, Lasting
  <1> QED BY <1>1, <1>2

RecordFields == {"jobs", "projects", "files", "approvals", "weekly", "auth"}
SideFields == {"payloads", "advisories", "jobIdx", "projectIdx", "fileIdx", "audit"}

\* Deleting an advisory or a payload leaves the other records as they were.
LEMMA SideShrinks ==
  ASSUME NEW s, NEW t, StoreFields \subseteq DOMAIN s, Only(s, t, SideFields)
  PROVE  Shrunk(s, t) /\ (StoreMaps(s) => StoreMaps(t))
  <1>1. /\ t.jobs = s.jobs /\ t.projects = s.projects /\ t.files = s.files /\ t.approvals = s.approvals
        /\ t.weekly = s.weekly /\ t.auth = s.auth
    BY DEF Only, SideFields, StoreFields
  <1>2. ValidAuthState(s) => ValidAuthState(t)
    BY <1>1 DEF ValidAuthState
  <1>3. Only(s, t, {"jobs", "projects", "files", "payloads", "advisories", "jobIdx", "projectIdx",
                    "fileIdx", "approvals", "weekly", "auth", "audit"})
    BY DEF Only, SideFields
  <1>4. StoreMaps(s) => StoreMaps(t)
    BY <1>1 DEF StoreMaps
  <1> QED BY <1>1, <1>2, <1>3, <1>4 DEF Shrunk

\* Clearing a baseline keeps what lasts of the projects.
LEMMA BaselineShrinks ==
  ASSUME NEW s, StoreShape(s), NEW x
  PROVE  LET t == Written(s, W("baseline", x)) IN Shrunk(s, t) /\ (StoreMaps(s) => StoreMaps(t))
  <1> DEFINE t == Written(s, W("baseline", x))
  <1>0. StoreFields \subseteq DOMAIN s
    BY DEF StoreShape
  <1>1. /\ Only(s, t, {"projects", "projectIdx"})
        /\ t.projects = [p \in DOMAIN s.projects |->
                           IF s.projects[p].baseline = x THEN [s.projects[p] EXCEPT !.baseline = None]
                           ELSE s.projects[p]]
        /\ t.projectIdx = IF \E p \in DOMAIN s.projects : s.projects[p].baseline = x
                          THEN Touched(s.projectIdx) ELSE s.projectIdx
    BY <1>0, WrittenBaseline, Zenon
  <1> HIDE DEF t
  <1>2. /\ t.jobs = s.jobs /\ t.files = s.files /\ t.approvals = s.approvals
        /\ t.weekly = s.weekly /\ t.auth = s.auth
    BY <1>0, <1>1 DEF Only, StoreFields
  <1>3. DOMAIN t.projects = DOMAIN s.projects
    BY <1>1
  <1>4. ASSUME NEW p \in DOMAIN s.projects
        PROVE  /\ t.projects[p].owner = s.projects[p].owner /\ t.projects[p].source = s.projects[p].source
               /\ t.projects[p].sha = s.projects[p].sha /\ t.projects[p].latest = s.projects[p].latest
               /\ t.projects[p].baseline \in {s.projects[p].baseline, None}
               /\ t.projects[p].snaps = s.projects[p].snaps
               /\ Mapping(s.projects[p]) => Mapping(t.projects[p])
    <2>1. ProjectFields \subseteq DOMAIN s.projects[p]
      BY DEF StoreShape
    <2>2. t.projects[p] = IF s.projects[p].baseline = x THEN [s.projects[p] EXCEPT !.baseline = None]
                          ELSE s.projects[p]
      BY <1>1
    <2>3. Mapping([s.projects[p] EXCEPT !.baseline = None])
      BY DEF Mapping
    <2> QED BY <2>1, <2>2, <2>3 DEF ProjectFields
  <1>5. StoreMaps(s) => StoreMaps(t)
    <2>1. Mapping(t.projects)
      BY <1>1 DEF Mapping
    <2> QED BY <1>2, <1>3, <1>4, <2>1 DEF StoreMaps
  <1>6. ValidAuthState(s) => ValidAuthState(t)
    BY <1>2 DEF ValidAuthState
  <1>7. Only(s, t, {"jobs", "projects", "files", "payloads", "advisories", "jobIdx", "projectIdx",
                    "fileIdx", "approvals", "weekly", "auth", "audit"})
    BY <1>1 DEF Only
  <1>8. Shrunk(s, t)
    BY <1>2, <1>3, <1>4, <1>6, <1>7 DEF Shrunk
  <1> QED BY <1>5, <1>8 DEF t

\* Deleting a job keeps what lasts of the others.
LEMMA JobShrinks ==
  ASSUME NEW s, StoreShape(s), NEW x
  PROVE  LET t == Written(s, W("job", x)) IN Shrunk(s, t) /\ (StoreMaps(s) => StoreMaps(t))
  <1> DEFINE t == Written(s, W("job", x))
  <1>0. StoreFields \subseteq DOMAIN s
    BY DEF StoreShape
  <1>1. Only(s, t, {"jobs", "jobIdx"}) /\ t.jobs = Without(s.jobs, x)
    BY <1>0, WrittenJob
  <1> HIDE DEF t
  <1>2. /\ t.projects = s.projects /\ t.files = s.files /\ t.approvals = s.approvals
        /\ t.weekly = s.weekly /\ t.auth = s.auth
    BY <1>0, <1>1 DEF Only, StoreFields
  <1>3. /\ DOMAIN t.jobs = DOMAIN s.jobs \ {x} /\ Mapping(t.jobs)
        /\ \A j \in DOMAIN t.jobs : t.jobs[j] = s.jobs[j]
    BY <1>1 DEF Without, Drop, Mapping
  <1>5. StoreMaps(s) => StoreMaps(t)
    BY <1>2, <1>3 DEF StoreMaps
  <1>6. ValidAuthState(s) => ValidAuthState(t)
    BY <1>2 DEF ValidAuthState
  <1>7. Only(s, t, {"jobs", "projects", "files", "payloads", "advisories", "jobIdx", "projectIdx",
                    "fileIdx", "approvals", "weekly", "auth", "audit"})
    BY <1>1 DEF Only
  <1>8. Shrunk(s, t)
    BY <1>2, <1>3, <1>6, <1>7 DEF Shrunk
  <1> QED BY <1>5, <1>8 DEF t

\* Deleting a file keeps what lasts of the other records.
LEMMA FileShrinks ==
  ASSUME NEW s, StoreShape(s), NEW x
  PROVE  LET t == Written(s, W("file", x)) IN Shrunk(s, t) /\ (StoreMaps(s) => StoreMaps(t))
  <1> DEFINE t == Written(s, W("file", x))
  <1>0. StoreFields \subseteq DOMAIN s
    BY DEF StoreShape
  <1>1. Only(s, t, {"files", "fileIdx"}) /\ t.files = Without(s.files, x)
    BY <1>0, WrittenFile
  <1> HIDE DEF t
  <1>2. /\ t.projects = s.projects /\ t.jobs = s.jobs /\ t.approvals = s.approvals
        /\ t.weekly = s.weekly /\ t.auth = s.auth
    BY <1>0, <1>1 DEF Only, StoreFields
  <1>3. /\ DOMAIN t.files = DOMAIN s.files \ {x} /\ Mapping(t.files)
        /\ \A j \in DOMAIN t.files : t.files[j] = s.files[j]
    BY <1>1 DEF Without, Drop, Mapping
  <1>5. StoreMaps(s) => StoreMaps(t)
    BY <1>2, <1>3 DEF StoreMaps
  <1>6. ValidAuthState(s) => ValidAuthState(t)
    BY <1>2 DEF ValidAuthState
  <1>7. Only(s, t, {"jobs", "projects", "files", "payloads", "advisories", "jobIdx", "projectIdx",
                    "fileIdx", "approvals", "weekly", "auth", "audit"})
    BY <1>1 DEF Only
  <1>8. Shrunk(s, t)
    BY <1>2, <1>3, <1>6, <1>7 DEF Shrunk
  <1> QED BY <1>5, <1>8 DEF t

\* Marking a source's jobs keeps what lasts of them.
LEMMA MarkJobsShrinks ==
  ASSUME NEW s, StoreShape(s), NEW x
  PROVE  LET t == Written(s, W("markJobs", x)) IN Shrunk(s, t) /\ (StoreMaps(s) => StoreMaps(t))
  <1> DEFINE t == Written(s, W("markJobs", x))
  <1>0. StoreFields \subseteq DOMAIN s
    BY DEF StoreShape
  <1>1. /\ Only(s, t, {"jobs", "jobIdx"})
        /\ t.jobs = [j \in DOMAIN s.jobs |->
                       IF j \in Unmarked(s, x) THEN [s.jobs[j] EXCEPT !.gone = TRUE] ELSE s.jobs[j]]
    BY <1>0, WrittenMarkJobs
  <1> HIDE DEF t
  <1>2. /\ t.projects = s.projects /\ t.files = s.files /\ t.approvals = s.approvals
        /\ t.weekly = s.weekly /\ t.auth = s.auth
    BY <1>0, <1>1 DEF Only, StoreFields
  <1>3. DOMAIN t.jobs = DOMAIN s.jobs /\ Mapping(t.jobs)
    BY <1>1 DEF Mapping
  <1>4. ASSUME NEW j \in DOMAIN s.jobs
        PROVE  /\ t.jobs[j].owner = s.jobs[j].owner /\ t.jobs[j].project = s.jobs[j].project
               /\ t.jobs[j].asset = s.jobs[j].asset /\ t.jobs[j].file = s.jobs[j].file
               /\ t.jobs[j].status = s.jobs[j].status
    <2>1. JobFields \subseteq DOMAIN s.jobs[j]
      BY DEF StoreShape
    <2>2. t.jobs[j] = IF j \in Unmarked(s, x) THEN [s.jobs[j] EXCEPT !.gone = TRUE] ELSE s.jobs[j]
      BY <1>1
    <2> QED BY <2>1, <2>2 DEF JobFields
  <1>5. StoreMaps(s) => StoreMaps(t)
    BY <1>2, <1>3 DEF StoreMaps
  <1>6. ValidAuthState(s) => ValidAuthState(t)
    BY <1>2 DEF ValidAuthState
  <1>7. Only(s, t, {"jobs", "projects", "files", "payloads", "advisories", "jobIdx", "projectIdx",
                    "fileIdx", "approvals", "weekly", "auth", "audit"})
    BY <1>1 DEF Only
  <1>8. Shrunk(s, t)
    BY <1>2, <1>3, <1>4, <1>6, <1>7 DEF Shrunk
  <1> QED BY <1>5, <1>8 DEF t

\* A snapshot marked as gone.
LEMMA SnapMarked ==
  ASSUME NEW n, SnapFields \subseteq DOMAIN n, NEW x
  PROVE  LET m == IF n.file = x THEN [n EXCEPT !.gone = TRUE] ELSE n IN
         /\ m.file = n.file /\ m.sha = n.sha
         /\ Mapping(n) /\ n.gone \in BOOLEAN => Mapping(m) /\ m.gone \in BOOLEAN
         /\ Mapping(n) /\ n.gone \in BOOLEAN /\ (n.file = x => n.gone) => m = n
  <1> DEFINE m == IF n.file = x THEN [n EXCEPT !.gone = TRUE] ELSE n
  <1>1. m.file = n.file /\ m.sha = n.sha
    BY DEF SnapFields
  <1>2. Mapping([n EXCEPT !.gone = TRUE]) /\ [n EXCEPT !.gone = TRUE].gone = TRUE
    BY DEF Mapping, SnapFields
  <1>3. ASSUME Mapping(n), n.gone = TRUE
        PROVE  [n EXCEPT !.gone = TRUE] = n
    BY <1>3 DEF Mapping
  <1> QED BY <1>1, <1>2, <1>3

\* Marking a source's snapshots keeps what lasts of the projects.
LEMMA MarkProjShrinks ==
  ASSUME NEW s, StoreShape(s), NEW x
  PROVE  LET t == Written(s, W("markProj", x)) IN
         /\ Shrunk(s, t) /\ (StoreMaps(s) => StoreMaps(t))
         /\ StoreMaps(s) /\ ~(\E p \in DOMAIN s.projects : \E n \in s.projects[p].snaps :
                                 n.file = x /\ ~n.gone) => t.projects = s.projects
  <1> DEFINE t == Written(s, W("markProj", x))
             mark(n) == IF n.file = x THEN [n EXCEPT !.gone = TRUE] ELSE n
  <1>0. StoreFields \subseteq DOMAIN s
    BY DEF StoreShape
  <1>1. /\ Only(s, t, {"projects", "projectIdx"})
        /\ t.projects = [p \in DOMAIN s.projects |->
              [s.projects[p] EXCEPT !.snaps = {mark(n) : n \in s.projects[p].snaps}]]
    BY <1>0, WrittenMarkProj
  <1> HIDE DEF t
  <1>2. /\ t.jobs = s.jobs /\ t.files = s.files /\ t.approvals = s.approvals
        /\ t.weekly = s.weekly /\ t.auth = s.auth
    BY <1>0, <1>1 DEF Only, StoreFields
  <1>3. DOMAIN t.projects = DOMAIN s.projects /\ Mapping(t.projects)
    BY <1>1 DEF Mapping
  <1>4. ASSUME NEW p \in DOMAIN s.projects
        PROVE  /\ t.projects[p].owner = s.projects[p].owner /\ t.projects[p].source = s.projects[p].source
               /\ t.projects[p].sha = s.projects[p].sha /\ t.projects[p].latest = s.projects[p].latest
               /\ t.projects[p].baseline = s.projects[p].baseline
               /\ t.projects[p].snaps = {mark(n) : n \in s.projects[p].snaps}
               /\ t.projects[p] = [s.projects[p] EXCEPT !.snaps = t.projects[p].snaps]
               /\ Mapping(t.projects[p])
    <2>1. ProjectFields \subseteq DOMAIN s.projects[p]
      BY DEF StoreShape
    <2> DEFINE S == {mark(n) : n \in s.projects[p].snaps}
    <2>2. t.projects[p] = [s.projects[p] EXCEPT !.snaps = S]
      BY <1>1
    <2> HIDE DEF S
    <2>3. t.projects[p].snaps = S /\ Mapping(t.projects[p])
      BY <2>1, <2>2 DEF Mapping, ProjectFields
    <2> QED BY <2>1, <2>2, <2>3 DEF ProjectFields, S
  <1>12. \A p \in DOMAIN s.projects :
            /\ \A m \in t.projects[p].snaps : \E n \in s.projects[p].snaps : m = mark(n)
            /\ \A n \in s.projects[p].snaps : mark(n) \in t.projects[p].snaps
    <2> TAKE p \in DOMAIN s.projects
    <2>1. t.projects[p].snaps = {mark(n) : n \in s.projects[p].snaps}
      BY <1>4
    <2> HIDE DEF mark
    <2> QED BY <2>1
  <1>5. \A p \in DOMAIN s.projects : \A n \in s.projects[p].snaps :
           /\ mark(n).file = n.file /\ mark(n).sha = n.sha
           /\ Mapping(n) /\ n.gone \in BOOLEAN => Mapping(mark(n)) /\ mark(n).gone \in BOOLEAN
           /\ Mapping(n) /\ n.gone \in BOOLEAN /\ (n.file = x => n.gone) => mark(n) = n
    BY SnapMarked DEF StoreShape
  <1> HIDE DEF mark
  <1>6. StoreMaps(s) => StoreMaps(t)
    <2> HAVE StoreMaps(s)
    <2>1. \A p \in DOMAIN t.projects : \A m \in t.projects[p].snaps : Mapping(m) /\ m.gone \in BOOLEAN
      <3> TAKE p \in DOMAIN t.projects
      <3> TAKE m \in t.projects[p].snaps
      <3>1. PICK n \in s.projects[p].snaps : m = mark(n)
        BY <1>3, <1>12
      <3>2. Mapping(n) /\ n.gone \in BOOLEAN
        BY <1>3, <3>1 DEF StoreMaps
      <3> QED BY <1>3, <1>5, <3>1, <3>2
    <2> QED BY <1>2, <1>3, <1>4, <2>1 DEF StoreMaps
  <1>7. ValidAuthState(s) => ValidAuthState(t)
    BY <1>2 DEF ValidAuthState
  <1>8. Only(s, t, {"jobs", "projects", "files", "payloads", "advisories", "jobIdx", "projectIdx",
                    "fileIdx", "approvals", "weekly", "auth", "audit"})
    BY <1>1 DEF Only
  <1>9. \A p \in DOMAIN t.projects :
          /\ \A m \in t.projects[p].snaps : \E n \in s.projects[p].snaps : m.file = n.file /\ m.sha = n.sha
          /\ \A n \in s.projects[p].snaps : \E m \in t.projects[p].snaps : m.file = n.file /\ m.sha = n.sha
    BY <1>3, <1>5, <1>12
  <1>10. Shrunk(s, t)
    BY <1>2, <1>3, <1>4, <1>7, <1>8, <1>9 DEF Shrunk
  <1>11. ASSUME StoreMaps(s),
                ~(\E p \in DOMAIN s.projects : \E n \in s.projects[p].snaps : n.file = x /\ ~n.gone)
         PROVE  t.projects = s.projects
    <2>1. ASSUME NEW p \in DOMAIN s.projects
          PROVE  t.projects[p] = s.projects[p]
      <3>1. \A n \in s.projects[p].snaps : mark(n) = n
        BY <1>5, <1>11 DEF StoreMaps
      <3>2. t.projects[p].snaps = s.projects[p].snaps
        <4>1. \A n \in s.projects[p].snaps : n \in t.projects[p].snaps
          BY <1>12, <3>1
        <4>2. \A m \in t.projects[p].snaps : m \in s.projects[p].snaps
          BY <1>12, <3>1
        <4> QED BY <4>1, <4>2
      <3>3. Mapping(s.projects[p]) /\ t.projects[p] = [s.projects[p] EXCEPT !.snaps = s.projects[p].snaps]
        BY <1>4, <1>11, <3>2 DEF StoreMaps
      <3> QED BY <3>3 DEF Mapping
    <2> QED BY <1>3, <1>11, <2>1 DEF StoreMaps, Mapping
  <1> QED BY <1>6, <1>10, <1>11 DEF t

\* Dropping what has expired keeps what lasts of the identity records.
LEMMA IdentityShrinks ==
  ASSUME NEW s, StoreShape(s), NEW c \in {"tokens", "invites", "approvals", "weekly"}, NEW x
  PROVE  LET t == Written(s, W(c, x)) IN
         /\ Only(s, t, {"auth", "approvals", "weekly"})
         /\ Shrunk(s, t) /\ (StoreMaps(s) => StoreMaps(t))
  <1> DEFINE t == Written(s, W(c, x))
  <1>0. StoreFields \subseteq DOMAIN s /\ {"key", "receipts"} \subseteq DOMAIN s.weekly
    BY DEF StoreShape
  <1>1. /\ c = "tokens" => Only(s, t, {"auth"}) /\ t.auth = LiveOnly(s.auth, "tokens")
        /\ c = "invites" => Only(s, t, {"auth"}) /\ t.auth = LiveOnly(s.auth, "invitations")
        /\ c = "approvals" => Only(s, t, {"approvals"}) /\ t.approvals = {a \in s.approvals : a.live}
        /\ c = "weekly" => /\ Only(s, t, {"weekly"})
                           /\ t.weekly.key = s.weekly.key /\ t.weekly.receipts = {r \in s.weekly.receipts : r.live}
    BY <1>0, WrittenAuth
  <1> HIDE DEF t
  <1>2. Only(s, t, {"auth", "approvals", "weekly"})
    BY <1>1 DEF Only
  <1>3. t.jobs = s.jobs /\ t.projects = s.projects /\ t.files = s.files
    BY <1>0, <1>2 DEF Only, StoreFields
  <1>4. t.approvals \subseteq s.approvals
    BY <1>0, <1>1 DEF Only, StoreFields
  <1>5. t.weekly.key = s.weekly.key /\ t.weekly.receipts \subseteq s.weekly.receipts
    BY <1>0, <1>1 DEF Only, StoreFields
  <1>6. ValidAuthState(s) => ValidAuthState(t)
    <2> HAVE ValidAuthState(s)
    <2>1. t.auth \in {s.auth, LiveOnly(s.auth, "tokens"), LiveOnly(s.auth, "invitations")}
      BY <1>0, <1>1 DEF Only, StoreFields
    <2>2. CASE s.auth = None
      BY <2>1, <2>2 DEF LiveOnly, ValidAuthState
    <2>3. CASE s.auth # None
      <3>1. AuthFields \subseteq DOMAIN s.auth
        BY <2>3 DEF StoreShape
      <3>2. t.auth.sessions = s.auth.sessions /\ t.auth.users = s.auth.users /\ t.auth.schema = s.auth.schema
        BY <2>1, <2>3, <3>1 DEF LiveOnly, AuthFields
      <3> QED BY <2>3, <3>2 DEF ValidAuthState
    <2> QED BY <2>2, <2>3
  <1>7. Only(s, t, {"jobs", "projects", "files", "payloads", "advisories", "jobIdx", "projectIdx",
                    "fileIdx", "approvals", "weekly", "auth", "audit"})
    BY <1>2 DEF Only
  <1>8. StoreMaps(s) => StoreMaps(t)
    BY <1>3 DEF StoreMaps
  <1>9. Shrunk(s, t)
    BY <1>3, <1>4, <1>5, <1>6, <1>7 DEF Shrunk
  <1> QED BY <1>2, <1>8, <1>9 DEF t

\* Whatever retention writes next, the records it leaves stay valid.
LEMMA WriteShrinks ==
  ASSUME ControlInv, todo # <<>>
  PROVE  LET t == Written(store, Head(todo)) IN
         Shrunk(store, t) /\ (StoreMaps(store) => StoreMaps(t))
  <1>0. StoreShape(store) /\ StoreFields \subseteq DOMAIN store /\ AuditFields \subseteq DOMAIN store.audit
    BY DEF ControlInv, StoreShape, AuditFields
  <1> DEFINE t == Written(store, Head(todo))
             fit == Shrunk(store, t) /\ (StoreMaps(store) => StoreMaps(t))
  <1>1. CASE current = "results" /\ \E j : todo \in JobRest(j)
    <2>1. PICK j : todo \in JobRest(j)
      BY <1>1
    <2>2. Head(todo) \in {W("advisory", j), W("baseline", j), W("syncProj", j), W("job", j), W("syncJobs", j)}
      BY <2>1, JobRestMoves DEF JobRest
    <2>3. Head(todo) = W("advisory", j) => Only(store, t, {"advisories"})
      BY <1>0, WrittenAdvisory
    <2>4. Head(todo) = W("baseline", j) => fit
      BY <1>0, BaselineShrinks
    <2>5. Head(todo) = W("job", j) => fit
      BY <1>0, JobShrinks
    <2>6. Head(todo) = W("syncProj", j) => Only(store, t, {"projectIdx"})
      BY <1>0, WrittenSync
    <2>7. Head(todo) = W("syncJobs", j) => Only(store, t, {"jobIdx"})
      BY <1>0, WrittenSync
    <2> HIDE DEF t
    <2>8. Only(store, t, SideFields) => fit
      BY <1>0, SideShrinks
    <2>9. Head(todo) \in {W("advisory", j), W("syncProj", j), W("syncJobs", j)} => Only(store, t, SideFields)
      BY <2>3, <2>6, <2>7 DEF Only, SideFields
    <2> HIDE DEF fit
    <2>10. fit
      BY <2>2, <2>4, <2>5, <2>8, <2>9
    <2> QED BY <2>10 DEF fit, t
  <1>2. CASE current = "sources" /\ \E f : todo \in FileRest(f)
    <2>1. PICK f : todo \in FileRest(f)
      BY <1>2
    <2>2. Head(todo) \in {W("markJobs", f), W("syncJobs", f), W("markProj", f), W("syncProj", f),
                          W("payload", f), W("file", f), W("syncFiles", f)}
      BY <2>1, FileRestMoves DEF FileRest
    <2>3. Head(todo) = W("markJobs", f) => fit
      BY <1>0, MarkJobsShrinks
    <2>4. Head(todo) = W("markProj", f) => fit
      BY <1>0, MarkProjShrinks
    <2>5. Head(todo) = W("file", f) => fit
      BY <1>0, FileShrinks
    <2>6. Head(todo) = W("payload", f) => Only(store, t, {"payloads"})
      BY <1>0, WrittenPayload
    <2>7. /\ Head(todo) = W("syncJobs", f) => Only(store, t, {"jobIdx"})
          /\ Head(todo) = W("syncProj", f) => Only(store, t, {"projectIdx"})
          /\ Head(todo) = W("syncFiles", f) => Only(store, t, {"fileIdx"})
      BY <1>0, WrittenSync
    <2> HIDE DEF t
    <2>8. Only(store, t, SideFields) => fit
      BY <1>0, SideShrinks
    <2>9. Head(todo) \in {W("payload", f), W("syncJobs", f), W("syncProj", f), W("syncFiles", f)}
              => Only(store, t, SideFields)
      BY <2>6, <2>7 DEF Only, SideFields
    <2> HIDE DEF fit
    <2>10. fit
      BY <2>2, <2>3, <2>4, <2>5, <2>8, <2>9
    <2> QED BY <2>10 DEF fit, t
  <1>3. CASE current \in {"tokens", "invites", "approvals", "weekly"} /\ todo = ClassNext(current)
    <2>1. Head(todo) = W(current, None)
      BY <1>3, OtherRestMoves
    <2> QED BY <1>0, <1>3, <2>1, IdentityShrinks
  <1>4. CASE current \in LedgerClasses
    <2>1. Only(store, t, {"audit"})
      BY <1>4, WriteSides
    <2> HIDE DEF t
    <2>2. Only(store, t, SideFields)
      BY <2>1 DEF Only, SideFields
    <2>3. fit
      BY <1>0, <2>2, SideShrinks
    <2> QED BY <2>3 DEF t
  <1> QED BY <1>1, <1>2, <1>3, <1>4 DEF ControlInv, Control, TodoForm, LedgerClasses

KeptInv == intact => StoreMaps(store) /\ Lasting(store)

\* An intact seed is accepted, so its records last.
LEMMA KeptInit ==
  ASSUME Init
  PROVE  KeptInv
  <1>1. intact => StoreMaps(store) /\ ValidateDataStore(store)
    BY SeedsAssumption DEF Init
  <1> QED BY <1>1, AcceptedIs DEF KeptInv

\* No step undoes what lasts of an intact directory.
LEMMA KeptStep ==
  ASSUME ControlInv, KeptInv, [Next]_vars
  PROVE  KeptInv'
  <1>0. UNCHANGED intact
    BY DEF Next, vars, StartService, RunRetention, RecordAction, AnonymizeAsset, BeginClass, TakeItem,
           WriteStep, WriteFails, Finish, Crash, StopService, Tick, BackupBegin, LateWrite, BackupSeal,
           ToolFails, BundleDecays, RestoreBegin, RestoreCopy, RestorePublish
  <1>1. StoreShape(store) /\ StoreFields \subseteq DOMAIN store
    BY DEF ControlInv, StoreShape
  <1> SUFFICES ASSUME intact, StoreMaps(store), Lasting(store)
               PROVE  StoreMaps(store') /\ Lasting(store')
    BY <1>0 DEF KeptInv
  <1>2. ASSUME Shrunk(store, store'), StoreMaps(store) => StoreMaps(store')
        PROVE  StoreMaps(store') /\ Lasting(store')
    BY <1>1, <1>2, LastingKept
  <1>3. ASSUME Only(store, store', SideFields)
        PROVE  StoreMaps(store') /\ Lasting(store')
    BY <1>1, <1>2, <1>3, SideShrinks
  <1>4. CASE store' = store
    BY <1>4
  <1>5. CASE AnonymizeAsset
    <2>1. store' = [store EXCEPT !.audit = Ensured(store.audit)]
      BY <1>5 DEF AnonymizeAsset
    <2>2. Only(store, store', SideFields)
      BY <1>1, <2>1 DEF Only, SideFields, StoreFields
    <2> QED BY <1>3, <2>2
  <1>6. CASE BeginClass
    <2>1. store' = Prepared(Head(classes))
      BY <1>6, BeginClassIs
    <2>2. Only(store, store', {"jobIdx", "projectIdx", "fileIdx", "audit"})
      BY <1>1, <2>1, PreparedIs
    <2>3. Only(store, store', SideFields)
      BY <2>2 DEF Only, SideFields
    <2> QED BY <1>3, <2>3
  <1>7. CASE WriteStep
    <2>1. store' = Written(store, Head(todo)) /\ todo # <<>>
      BY <1>7 DEF WriteStep
    <2> QED BY <1>2, <2>1, WriteShrinks
  <1>8. CASE WriteFails
    <2>1. store' = Undone(store)
      BY <1>8 DEF WriteFails
    <2>2. Only(store, store', {"audit"})
      BY <1>1, <2>1, UndoneIs DEF Only
    <2>3. Only(store, store', SideFields)
      BY <2>2 DEF Only, SideFields
    <2> QED BY <1>3, <2>3
  <1>9. CASE LateWrite
    <2>1. CASE \E j \in DOMAIN store.jobs : store' = [store EXCEPT !.advisories = @ \cup {j}]
      <3>1. Only(store, store', SideFields)
        BY <1>1, <2>1 DEF Only, SideFields, StoreFields
      <3> QED BY <1>3, <3>1
    <2>2. CASE store.auth # None /\ \E u \in store.auth.users : store' = [store EXCEPT !.auth.sessions = @ \cup {u}]
      <3>1. PICK u \in store.auth.users : store' = [store EXCEPT !.auth.sessions = @ \cup {u}]
        BY <2>2
      <3>2. AuthFields \subseteq DOMAIN store.auth
        BY <1>1, <2>2 DEF StoreShape
      <3>3. /\ Only(store, store', {"auth"})
            /\ store'.auth = [store.auth EXCEPT !.sessions = @ \cup {u}]
        BY <1>1, <3>1 DEF Only, StoreFields
      <3>4. /\ store'.jobs = store.jobs /\ store'.projects = store.projects /\ store'.files = store.files
            /\ store'.approvals = store.approvals /\ store'.weekly = store.weekly
        BY <1>1, <3>3 DEF Only, StoreFields
      <3>5. /\ store'.auth.sessions = store.auth.sessions \cup {u} /\ store'.auth.users = store.auth.users
            /\ store'.auth.schema = store.auth.schema
        BY <3>2, <3>3 DEF AuthFields
      <3>6. ValidAuthState(store) => ValidAuthState(store')
        BY <2>2, <3>5 DEF ValidAuthState
      <3>7. Only(store, store', {"jobs", "projects", "files", "payloads", "advisories", "jobIdx", "projectIdx",
                                 "fileIdx", "approvals", "weekly", "auth", "audit"})
        BY <3>3 DEF Only
      <3>8. Shrunk(store, store')
        BY <3>4, <3>6, <3>7 DEF Shrunk
      <3>9. StoreMaps(store')
        BY <3>4 DEF StoreMaps
      <3> QED BY <1>2, <3>8, <3>9
    <2> QED BY <1>9, <2>1, <2>2 DEF LateWrite
  <1>10. CASE \/ StartService \/ RunRetention \/ RecordAction \/ TakeItem \/ Finish \/ Crash \/ StopService \/ Tick
              \/ BackupBegin \/ BackupSeal \/ ToolFails \/ BundleDecays \/ RestoreBegin \/ RestoreCopy
              \/ RestorePublish \/ UNCHANGED vars
    <2>1. store' = store
      BY <1>10 DEF StartService, RunRetention, RecordAction, TakeItem, Finish, Crash, StopService, Tick,
                   BackupBegin, BackupSeal, ToolFails, BundleDecays, RestoreBegin, RestoreCopy,
                   RestorePublish, vars
    <2> QED BY <1>4, <2>1
  <1> QED BY <1>5, <1>6, <1>7, <1>8, <1>9, <1>10 DEF Next

-----------------------------------------------------------------------------
(* Bytes and indexes. *)
NextOp == IF todo = <<>> THEN "none" ELSE Head(todo).op
NextId == IF todo = <<>> THEN None ELSE Head(todo).id

(* What retention has yet to remove. *)
JobDue(j) == j \in DOMAIN store.jobs /\ j \in old /\ store.jobs[j].status \notin ActiveStates
FileDue(f) == f \in DOMAIN store.files /\ f \in old /\ ~SourceInUse(store, f)
Ours(f) == Org # None /\ (phase = "idle" \/ kind # "startup") => store.files[f].owner = Org

(* A class has adopted the indexes of what it takes up, and takes it up    *)
(* once.                                                                   *)
ResultsTaken ==
    phase = "working" /\ current = "results" =>
        /\ items # {} \/ todo # <<>> => {"jobs", "projects"} \subseteq known
        /\ \A j \in items : JobDue(j) /\ (todo # <<>> => j # NextId)
        /\ NextOp \in {"advisory", "baseline", "syncProj", "job"} => JobDue(NextId)
SourcesTaken ==
    phase = "working" /\ current = "sources" =>
        /\ items # {} \/ todo # <<>> => {"jobs", "files", "projects"} \subseteq known
        /\ \A f \in items : FileDue(f) /\ Ours(f) /\ (todo # <<>> => f # NextId)
        /\ todo # <<>> /\ NextOp # "syncFiles" => FileDue(NextId) /\ Ours(NextId)
        /\ NextOp = "file" => NextId \notin DOMAIN store.payloads
        /\ NextOp = "syncFiles" => NextId \notin DOMAIN store.files

(* The process is down after anything but a clean stop. *)
Down == phase \in {"stopped", "refused"} /\ ~rested
Startup(stages) == phase = "working" /\ kind = "startup" /\ current \in stages

(* A file whose bytes are gone is one a purge was interrupted at, and will *)
(* come back to.                                                           *)
SourcesAhead ==
    \/ Startup({"startup", "audit", "results"})
    \/ phase = "working" /\ kind = "retention" /\ current \in {"startup", "results"}
Uploads ==
    /\ DOMAIN store.payloads \subseteq DOMAIN store.files
    /\ \A f \in DOMAIN store.payloads : store.payloads[f] = store.files[f].sha
    /\ \A f \in DOMAIN store.files \ DOMAIN store.payloads :
          /\ FileDue(f)
          /\ \/ Down
             \/ /\ phase \in {"idle", "working"} /\ Ours(f)
                /\ \/ SourcesAhead
                   \/ phase = "working" /\ current = "sources" /\ (f \in items \/ (todo # <<>> /\ f = NextId))
                   \/ "sources" \in failed

(* An index with the marker of its directory is right; one that is wrong   *)
(* is about to be synchronized or will be rebuilt by the next start.       *)
MarkedRight(idx, recs) == idx.rows # None /\ idx.marked => idx.rows = recs
Stale(idx, recs) == idx.rows # None /\ idx.rows # recs

Indexes ==
    /\ MarkedRight(store.jobIdx, store.jobs)
    /\ MarkedRight(store.fileIdx, store.files)
    /\ MarkedRight(store.projectIdx, store.projects)
    /\ Stale(store.jobIdx, store.jobs) =>
          Down \/ Startup({"startup", "audit"}) \/ (phase = "working" /\ NextOp = "syncJobs")
    /\ Stale(store.fileIdx, store.files) =>
          Down \/ Startup({"startup", "audit", "results"}) \/ (phase = "working" /\ NextOp = "syncFiles")
    /\ Stale(store.projectIdx, store.projects) =>
          \/ phase = "working" /\ NextOp = "syncProj"
          \/ /\ Down \/ Startup({"startup", "audit"})
             /\ \/ \E j \in DOMAIN store.jobs : JobDue(j)
                \/ \E f \in DOMAIN store.files : FileDue(f)
          \/ Startup({"results"}) /\ \E f \in DOMAIN store.files : FileDue(f)


UpkeepInv ==
    /\ rested => phase = "stopped"
    /\ phase = "working" /\ kind = "startup" => failed = {}
    /\ intact => ResultsTaken /\ SourcesTaken /\ Uploads /\ Indexes

SameUpkeep(s, t) ==
    /\ t.jobs = s.jobs /\ t.projects = s.projects /\ t.files = s.files /\ t.payloads = s.payloads
    /\ t.jobIdx = s.jobIdx /\ t.projectIdx = s.projectIdx /\ t.fileIdx = s.fileIdx

\* An intact seed has its bytes and its indexes.
LEMMA UpkeepInit ==
  ASSUME Init
  PROVE  UpkeepInv
  <1>1. phase = "stopped" /\ rested = FALSE
    BY DEF Init
  <1> SUFFICES ASSUME intact PROVE ResultsTaken /\ SourcesTaken /\ Uploads /\ Indexes
    BY <1>1 DEF UpkeepInv
  <1>2. ValidateDataStore(store)
    BY SeedsAssumption DEF Init
  <1>3. Down
    BY <1>1 DEF Down
  <1>4. DOMAIN store.payloads = DOMAIN store.files /\ \A f \in DOMAIN store.files : store.payloads[f] = store.files[f].sha
    BY <1>2 DEF ValidateDataStore, ValidUploadedPayloads
  <1>5. /\ store.jobIdx.rows = None \/ store.jobIdx.rows = store.jobs
        /\ store.fileIdx.rows = None \/ store.fileIdx.rows = store.files
        /\ store.projectIdx.rows = None \/ store.projectIdx.rows = store.projects
    BY <1>2 DEF ValidateDataStore, ValidFileRetentionIndex, ValidActiveJobIndex, ValidProjectReferenceIndex,
                IndexMatches
  <1>6. ResultsTaken /\ SourcesTaken
    BY <1>1 DEF ResultsTaken, SourcesTaken
  <1>7. Uploads
    BY <1>4 DEF Uploads
  <1>8. Indexes
    BY <1>3, <1>5 DEF Indexes, MarkedRight, Stale
  <1> QED BY <1>6, <1>7, <1>8

\* The same records are due.
LEMMA SameDue ==
  ASSUME SameUpkeep(store, store'), old' = old
  PROVE  /\ \A j : JobDue(j)' <=> JobDue(j)
         /\ \A f : FileDue(f)' <=> FileDue(f)
         /\ DOMAIN store'.files = DOMAIN store.files /\ DOMAIN store'.payloads = DOMAIN store.payloads
         /\ DOMAIN store'.jobs = DOMAIN store.jobs
  BY DEF SameUpkeep, JobDue, FileDue, SourceInUse

\* The steps that leave the directory and the process as they are.
LEMMA UpkeepQuiet ==
  ASSUME UpkeepInv, SameUpkeep(store, store'),
         UNCHANGED <<old, intact, phase, kind, current, items, todo, known, failed, rested>>
  PROVE  UpkeepInv'
  <1>1. /\ \A j : JobDue(j)' <=> JobDue(j)
        /\ \A f : FileDue(f)' <=> FileDue(f)
    BY SameDue
  <1>2. /\ NextOp' = NextOp /\ NextId' = NextId /\ Down' = Down /\ SourcesAhead' = SourcesAhead
        /\ \A S : Startup(S)' = Startup(S)
    BY DEF NextOp, NextId, Down, SourcesAhead, Startup
  <1>3. \A f : Ours(f)' <=> Ours(f)
    BY DEF Ours, SameUpkeep
  <1> SUFFICES ASSUME intact PROVE ResultsTaken' /\ SourcesTaken' /\ Uploads' /\ Indexes'
    BY DEF UpkeepInv
  <1>4. ResultsTaken' /\ SourcesTaken'
    BY <1>1, <1>2, <1>3 DEF UpkeepInv, ResultsTaken, SourcesTaken, SameUpkeep
  <1>5. Uploads'
    BY <1>1, <1>2, <1>3 DEF UpkeepInv, Uploads, SameUpkeep
  <1>6. Indexes'
    BY <1>1, <1>2 DEF UpkeepInv, Indexes, SameUpkeep
  <1> QED BY <1>4, <1>5, <1>6

\* When nothing is being written and no start is under way, the indexes are
\* right and what lost its bytes belongs to a failed class.
LEMMA AtEase ==
  ASSUME UpkeepInv, intact, phase \in {"idle", "working"}, todo = <<>>, items = {}, ~SourcesAhead
  PROVE  /\ ~Stale(store.jobIdx, store.jobs) /\ ~Stale(store.fileIdx, store.files)
         /\ ~Stale(store.projectIdx, store.projects)
         /\ \A f \in DOMAIN store.files \ DOMAIN store.payloads :
               "sources" \in failed /\ (Org # None => store.files[f].owner = Org)
  <1>1. ~Down /\ NextOp = "none" /\ ~Startup({"startup", "audit", "results"})
    BY DEF Down, NextOp, SourcesAhead
  <1>2. ~Startup({"startup", "audit"}) /\ ~Startup({"results"})
    BY <1>1 DEF Startup
  <1>3. /\ ~Stale(store.jobIdx, store.jobs) /\ ~Stale(store.fileIdx, store.files)
        /\ ~Stale(store.projectIdx, store.projects)
    BY <1>1, <1>2 DEF UpkeepInv, Indexes
  <1>4. ASSUME NEW f \in DOMAIN store.files \ DOMAIN store.payloads
        PROVE  "sources" \in failed /\ (Org # None => store.files[f].owner = Org)
    <2>1. "sources" \in failed /\ Ours(f)
      BY <1>1 DEF UpkeepInv, Uploads
    <2>2. phase = "idle" \/ kind # "startup"
      BY <2>1 DEF UpkeepInv
    <2> QED BY <2>1, <2>2 DEF Ours
  <1> QED BY <1>3, <1>4

\* From there an operation may begin or end.
LEMMA UpkeepEase ==
  ASSUME UpkeepInv, phase \in {"idle", "working"}, todo = <<>>, items = {}, ~SourcesAhead,
         SameUpkeep(store, store'), UNCHANGED <<old, intact>>, ~rested',
         \/ phase' = "idle" /\ failed' = failed
         \/ /\ phase' = "working" /\ kind' # "startup" /\ current' \notin {"results", "sources"}
            /\ failed \subseteq failed' \/ SourcesAhead'
  PROVE  UpkeepInv'
  <1> SUFFICES ASSUME intact PROVE ResultsTaken' /\ SourcesTaken' /\ Uploads' /\ Indexes'
    BY DEF UpkeepInv
  <1>1. /\ ~Stale(store.jobIdx, store.jobs) /\ ~Stale(store.fileIdx, store.files)
        /\ ~Stale(store.projectIdx, store.projects)
        /\ \A f \in DOMAIN store.files \ DOMAIN store.payloads :
              "sources" \in failed /\ (Org # None => store.files[f].owner = Org)
    BY AtEase
  <1>2. \A f : FileDue(f)' <=> FileDue(f)
    BY SameDue
  <1>3. ResultsTaken' /\ SourcesTaken'
    BY DEF ResultsTaken, SourcesTaken
  <1>4. Uploads'
    <2>1. ASSUME NEW f \in DOMAIN store'.files \ DOMAIN store'.payloads
          PROVE  /\ FileDue(f)' /\ phase' \in {"idle", "working"} /\ Ours(f)'
                 /\ SourcesAhead' \/ "sources" \in failed'
      <3>1. f \in DOMAIN store.files \ DOMAIN store.payloads /\ store'.files[f] = store.files[f]
        BY DEF SameUpkeep
      <3>2. FileDue(f)
        BY <3>1 DEF UpkeepInv, Uploads
      <3> QED BY <1>1, <1>2, <3>1, <3>2 DEF Ours
    <2> QED BY <2>1 DEF Uploads, UpkeepInv, SameUpkeep
  <1>5. Indexes'
    BY <1>1 DEF Indexes, UpkeepInv, SameUpkeep
  <1> QED BY <1>3, <1>4, <1>5

SyncOps == {"syncJobs", "syncProj", "syncFiles"}

\* Only the purges of jobs and sources synchronize an index.
LEMMA OtherOps ==
  ASSUME ControlInv, current \notin {"results", "sources"}
  PROVE  NextOp \notin SyncOps \cup {"markJobs"}
  <1> SUFFICES ASSUME todo # <<>> PROVE Head(todo).op \notin SyncOps \cup {"markJobs"}
    BY DEF NextOp, SyncOps
  <1>1. CASE current = "audit" /\ \E t : todo = PurgeNext(t)
    <2>1. PICK t : todo = PurgeNext(t) BY <1>1
    <2>2. Head(todo).op = "state" BY <2>1, LedgerRestMoves, WFields
    <2> QED BY <2>2 DEF SyncOps
  <1>2. CASE current = "audit" /\ \E e, n : todo = DelEventNext(e, n)
    <2>1. PICK e, n : todo = DelEventNext(e, n) BY <1>2
    <2>2. Head(todo).op = "delEvent" BY <2>1, LedgerRestMoves, WFields
    <2> QED BY <2>2 DEF SyncOps
  <1>3. CASE current = "audit" /\ \E n : todo = DelEntryNext(n)
    <2>1. PICK n : todo = DelEntryNext(n) BY <1>3
    <2>2. Head(todo).op = "delEntry" BY <2>1, WFields DEF DelEntryNext
    <2> QED BY <2>2 DEF SyncOps
  <1>4. CASE current = "append" /\ \E t : todo \in {EventNext(t), EntryNext(t), StateNext(t)}
    <2>1. PICK t : todo \in {EventNext(t), EntryNext(t), StateNext(t)} BY <1>4
    <2>2. Head(todo) \in {W("event", pending), EntryWrite(t), StateWrite(t)} BY <2>1, LedgerRestMoves
    <2>3. Head(todo).op \in {"event", "entry", "state"} BY <2>2, WFields DEF EntryWrite, StateWrite
    <2> QED BY <2>3 DEF SyncOps
  <1>5. CASE current = "rotate" /\ \E t : todo \in {SwapOutNext(t), SwapInNext(t), DropBakNext}
    <2>1. PICK t : todo \in {SwapOutNext(t), SwapInNext(t), DropBakNext} BY <1>5
    <2>2. Head(todo) \in {W("swapOut", None), W("swapIn", t), W("dropBak", None)} BY <2>1, OtherRestMoves
    <2>3. Head(todo).op \in {"swapOut", "swapIn", "dropBak"} BY <2>2, WFields
    <2> QED BY <2>3 DEF SyncOps
  <1>6. CASE current = "anonymize" /\ \E e : todo = RewriteNext(e)
    <2>1. PICK e : todo = RewriteNext(e) BY <1>6
    <2>2. Head(todo).op = "rewrite" BY <2>1, OtherRestMoves, WFields
    <2> QED BY <2>2 DEF SyncOps
  <1>7. CASE current \in {"tokens", "invites", "approvals", "weekly"} /\ todo = ClassNext(current)
    <2>1. Head(todo).op = current BY <1>7, OtherRestMoves, WFields
    <2> QED BY <1>7, <2>1 DEF SyncOps
  <1> QED BY <1>1, <1>2, <1>3, <1>4, <1>5, <1>6, <1>7 DEF ControlInv, Control, TodoForm

\* A crash, or a start that fails, leaves what the next start looks for.
LEMMA UpkeepDown ==
  ASSUME ControlInv, UpkeepInv, SameUpkeep(store, store'), UNCHANGED <<old, intact>>,
         phase' \in {"stopped", "refused"}, ~rested'
  PROVE  UpkeepInv'
  <1> SUFFICES ASSUME intact PROVE ResultsTaken' /\ SourcesTaken' /\ Uploads' /\ Indexes'
    BY DEF UpkeepInv
  <1>1. /\ \A j : JobDue(j)' <=> JobDue(j)
        /\ \A f : FileDue(f)' <=> FileDue(f)
    BY SameDue
  <1>2. ResultsTaken' /\ SourcesTaken' /\ Down'
    BY DEF ResultsTaken, SourcesTaken, Down
  <1>3. Uploads'
    BY <1>1, <1>2 DEF Uploads, UpkeepInv, SameUpkeep
  <1>4. ASSUME Stale(store.projectIdx, store.projects)
        PROVE  (\E j \in DOMAIN store.jobs : JobDue(j)) \/ (\E f \in DOMAIN store.files : FileDue(f))
    <2>1. CASE phase = "working" /\ NextOp = "syncProj"
      <3>1. todo # <<>> /\ Head(todo).op = "syncProj"
        BY <2>1 DEF NextOp
      <3>2. CASE current = "results"
        <4>1. JobDue(NextId)
          BY <2>1, <3>2 DEF UpkeepInv, ResultsTaken
        <4> QED BY <4>1 DEF JobDue
      <3>3. CASE current = "sources"
        <4>1. FileDue(NextId)
          BY <2>1, <3>1, <3>3 DEF UpkeepInv, SourcesTaken
        <4> QED BY <4>1 DEF FileDue
      <3>4. CASE current \notin {"results", "sources"}
        BY <2>1, <3>4, OtherOps DEF SyncOps
      <3> QED BY <3>2, <3>3, <3>4
    <2> QED BY <1>4, <2>1 DEF UpkeepInv, Indexes
  <1>5. Indexes'
    <2>1. /\ MarkedRight(store.jobIdx, store.jobs)' /\ MarkedRight(store.fileIdx, store.files)'
          /\ MarkedRight(store.projectIdx, store.projects)'
      BY DEF UpkeepInv, Indexes, SameUpkeep
    <2>2. Stale(store.projectIdx, store.projects)' =>
              \/ \E j \in DOMAIN store'.jobs : JobDue(j)'
              \/ \E f \in DOMAIN store'.files : FileDue(f)'
      BY <1>1, <1>4 DEF SameUpkeep
    <2> QED BY <1>2, <2>1, <2>2 DEF Indexes
  <1> QED BY <1>2, <1>3, <1>5

\* A start looks at everything again.
LEMMA UpkeepStart ==
  ASSUME ControlInv, UpkeepInv, StartService
  PROVE  UpkeepInv'
  <1>1. /\ phase = "stopped" /\ phase' = "working" /\ kind' = "startup" /\ current' = "startup"
        /\ items' = {} /\ todo' = <<>> /\ failed' = {} /\ rested' = FALSE /\ UNCHANGED <<store, old, intact>>
    BY DEF StartService
  <1> SUFFICES ASSUME intact PROVE ResultsTaken' /\ SourcesTaken' /\ Uploads' /\ Indexes'
    BY <1>1 DEF UpkeepInv
  <1>2. SourcesAhead' /\ Startup({"startup", "audit"})' /\ Startup({"startup", "audit", "results"})'
    BY <1>1 DEF SourcesAhead, Startup
  <1>3. /\ \A j : JobDue(j)' <=> JobDue(j)
        /\ \A f : FileDue(f)' <=> FileDue(f)
        /\ \A f : Ours(f)'
    BY <1>1 DEF JobDue, FileDue, Ours
  <1>4. ResultsTaken' /\ SourcesTaken'
    BY <1>1 DEF ResultsTaken, SourcesTaken
  <1>5. Uploads'
    BY <1>1, <1>2, <1>3 DEF Uploads, UpkeepInv
  <1>6. Indexes'
    <2>1. Stale(store.projectIdx, store.projects) =>
             (\E j \in DOMAIN store.jobs : JobDue(j)) \/ (\E f \in DOMAIN store.files : FileDue(f))
      BY <1>1 DEF UpkeepInv, Indexes, Startup
    <2>2. /\ MarkedRight(store.jobIdx, store.jobs) /\ MarkedRight(store.fileIdx, store.files)
          /\ MarkedRight(store.projectIdx, store.projects)
      BY DEF UpkeepInv, Indexes
    <2> QED BY <1>1, <1>2, <1>3, <2>1, <2>2 DEF Indexes
  <1> QED BY <1>4, <1>5, <1>6

\* A clean stop leaves nothing for the next start.
LEMMA UpkeepStop ==
  ASSUME ControlInv, UpkeepInv, StopService
  PROVE  UpkeepInv'
  <1>1. /\ phase = "idle" /\ phase' = "stopped" /\ rested' = (failed = {})
        /\ UNCHANGED <<store, old, intact, items, todo, failed>>
    BY DEF StopService
  <1> SUFFICES ASSUME intact PROVE ResultsTaken' /\ SourcesTaken' /\ Uploads' /\ Indexes'
    BY <1>1 DEF UpkeepInv
  <1>2. todo = <<>> /\ items = {} /\ ~SourcesAhead
    BY <1>1 DEF ControlInv, Control, SourcesAhead, Startup
  <1>3. /\ ~Stale(store.jobIdx, store.jobs) /\ ~Stale(store.fileIdx, store.files)
        /\ ~Stale(store.projectIdx, store.projects)
        /\ \A f \in DOMAIN store.files \ DOMAIN store.payloads : "sources" \in failed
    BY <1>1, <1>2, AtEase
  <1>4. \A f : FileDue(f)' <=> FileDue(f)
    BY <1>1 DEF FileDue
  <1>5. ResultsTaken' /\ SourcesTaken'
    BY <1>1 DEF ResultsTaken, SourcesTaken
  <1>6. (\E f \in DOMAIN store.files : f \notin DOMAIN store.payloads) => Down'
    BY <1>1, <1>3 DEF Down
  <1>7. Uploads'
    BY <1>1, <1>4, <1>6 DEF Uploads, UpkeepInv
  <1>8. Indexes'
    BY <1>1, <1>3 DEF Indexes, UpkeepInv
  <1> QED BY <1>5, <1>7, <1>8

\* An operation begins or ends.
LEMMA UpkeepTurn ==
  ASSUME ControlInv, UpkeepInv, RunRetention \/ RecordAction \/ AnonymizeAsset \/ Finish
  PROVE  UpkeepInv'
  <1>1. todo = <<>> /\ items = {} /\ phase \in {"idle", "working"}
    BY DEF ControlInv, Control, RunRetention, RecordAction, AnonymizeAsset, Finish
  <1>2. ~rested
    BY <1>1 DEF UpkeepInv
  <1>3. CASE RunRetention
    <2>1. /\ phase = "idle" /\ current = "startup" /\ phase' = "working" /\ kind' = "retention"
          /\ UNCHANGED <<store, old, intact, current, todo, rested>>
      BY <1>3 DEF RunRetention, ControlInv, Control
    <2>2. ~SourcesAhead /\ SourcesAhead' /\ SameUpkeep(store, store')
      BY <1>1, <2>1 DEF SourcesAhead, Startup, SameUpkeep
    <2> QED BY <1>1, <1>2, <2>1, <2>2, UpkeepEase
  <1>4. CASE RecordAction
    <2>1. /\ phase = "idle" /\ current = "startup" /\ phase' = "working" /\ kind' = "record"
          /\ UNCHANGED <<store, old, intact, current, todo, rested, failed>>
      BY <1>4 DEF RecordAction, BeginRecord, ControlInv, Control
    <2>2. ~SourcesAhead /\ SameUpkeep(store, store')
      BY <1>1, <2>1 DEF SourcesAhead, Startup, SameUpkeep
    <2> QED BY <1>1, <1>2, <2>1, <2>2, UpkeepEase
  <1>5. CASE AnonymizeAsset
    <2>1. /\ phase = "idle" /\ current' = "anonymize" /\ phase' = "working" /\ kind' = "anonymize"
          /\ store' = [store EXCEPT !.audit = Ensured(store.audit)]
          /\ UNCHANGED <<old, intact, todo, rested, failed>>
      BY <1>5 DEF AnonymizeAsset
    <2>2. ~SourcesAhead
      BY <1>1, <2>1 DEF SourcesAhead, Startup
    <2>3. SameUpkeep(store, store')
      BY <2>1 DEF SameUpkeep, ControlInv, StoreShape, StoreFields
    <2> QED BY <1>1, <1>2, <2>1, <2>2, <2>3, UpkeepEase
  <1>6. CASE Finish
    <2>1. /\ phase = "working" /\ classes = <<>> /\ current' = "startup"
          /\ phase' = "idle" \/ (phase' = "working" /\ kind' = "record")
          /\ UNCHANGED <<store, old, intact, todo, rested, failed>>
      BY <1>6 DEF Finish, BeginRecord
    <2>2. ~SourcesAhead
      BY <2>1 DEF SourcesAhead, Startup, ControlInv, Control, StartupStage, RetentionStage
    <2>3. SameUpkeep(store, store')
      BY <1>1, <2>1 DEF SameUpkeep
    <2> QED BY <1>1, <1>2, <2>1, <2>2, <2>3, UpkeepEase
  <1> QED BY <1>3, <1>4, <1>5, <1>6

\* A write that fails leaves its class failed, or the start.
LEMMA UpkeepFail ==
  ASSUME ControlInv, UpkeepInv, WriteFails
  PROVE  UpkeepInv'
  <1>1. /\ phase = "working" /\ todo # <<>> /\ Head(todo).op \notin SyncOps /\ store' = Undone(store)
        /\ items' = {} /\ todo' = <<>> /\ UNCHANGED <<old, intact, kind, current, rested>>
        /\ failed' = IF current = "append" THEN failed ELSE failed \cup {current}
        /\ phase' = IF kind = "startup" THEN "stopped" ELSE "working"
    BY DEF WriteFails, SyncOps
  <1>2. SameUpkeep(store, store')
    <2>1. Only(store, store', {"audit"})
      BY <1>1, UndoneIs DEF Only, ControlInv
    <2> QED BY <2>1 DEF Only, SameUpkeep, ControlInv, StoreShape, StoreFields
  <1>3. ~rested
    BY <1>1 DEF UpkeepInv
  <1>4. CASE kind = "startup"
    BY <1>1, <1>2, <1>3, <1>4, UpkeepDown
  <1>5. CASE kind # "startup"
    <2> SUFFICES ASSUME intact PROVE ResultsTaken' /\ SourcesTaken' /\ Uploads' /\ Indexes'
      BY <1>1, <1>3, <1>5 DEF UpkeepInv
    <2>1. \A f : FileDue(f)' <=> FileDue(f)
      BY <1>1, <1>2, SameDue
    <2>2. ResultsTaken' /\ SourcesTaken'
      BY <1>1 DEF ResultsTaken, SourcesTaken, NextOp
    <2>3. ~Down /\ NextOp \notin SyncOps /\ \A S : ~Startup(S)
      BY <1>1, <1>5 DEF Down, NextOp, Startup
    <2>4. Uploads'
      <3>1. ASSUME NEW f \in DOMAIN store'.files \ DOMAIN store'.payloads
            PROVE  FileDue(f)' /\ Ours(f)' /\ (SourcesAhead' \/ "sources" \in failed')
        <4>1. f \in DOMAIN store.files \ DOMAIN store.payloads /\ store'.files[f] = store.files[f]
          BY <1>2 DEF SameUpkeep
        <4>2. /\ FileDue(f) /\ Ours(f)
              /\ SourcesAhead \/ current = "sources" \/ "sources" \in failed
          BY <2>3, <4>1 DEF UpkeepInv, Uploads
        <4>3. SourcesAhead => SourcesAhead'
          BY <1>1, <1>5 DEF SourcesAhead, Startup
        <4> QED BY <1>1, <1>5, <2>1, <4>1, <4>2, <4>3 DEF Ours
      <3> QED BY <1>1, <1>2, <1>5, <3>1 DEF Uploads, UpkeepInv, SameUpkeep
    <2>5. Indexes'
      <3>1. /\ ~Stale(store.jobIdx, store.jobs) /\ ~Stale(store.fileIdx, store.files)
            /\ ~Stale(store.projectIdx, store.projects)
        BY <2>3 DEF UpkeepInv, Indexes, SyncOps
      <3> QED BY <1>2, <3>1 DEF UpkeepInv, Indexes, SameUpkeep
    <2> QED BY <2>2, <2>4, <2>5
  <1> QED BY <1>4, <1>5

\* What is taken up is due, and is now the next to be written.
LEMMA UpkeepTake ==
  ASSUME ControlInv, UpkeepInv, TakeItem
  PROVE  UpkeepInv'
  <1>1. PICK x \in items : items' = items \ {x} /\ todo' = WritesOf(current, store, x)
    BY DEF TakeItem
  <1>2. /\ phase = "working" /\ todo = <<>>
        /\ UNCHANGED <<store, old, intact, phase, kind, current, known, failed, rested>>
    BY DEF TakeItem
  <1> SUFFICES ASSUME intact PROVE ResultsTaken' /\ SourcesTaken' /\ Uploads' /\ Indexes'
    BY <1>2 DEF UpkeepInv
  <1>3. /\ \A j : JobDue(j)' <=> JobDue(j)
        /\ \A f : FileDue(f)' <=> FileDue(f)
        /\ \A f : Ours(f)' <=> Ours(f)
        /\ SourcesAhead' = SourcesAhead /\ ~Down /\ NextOp = "none"
        /\ \A S : Startup(S)' = Startup(S)
    BY <1>2 DEF JobDue, FileDue, Ours, SourcesAhead, Down, Startup, NextOp
  <1>4. current = "results" => todo' # <<>> /\ NextOp' = "advisory" /\ NextId' = x
    BY <1>1, WritesOfIs, JobRestMoves, WFields DEF NextOp, NextId
  <1>5. current = "sources" => todo' # <<>> /\ NextOp' = "markJobs" /\ NextId' = x
    BY <1>1, WritesOfIs, FileRestMoves, WFields DEF NextOp, NextId
  <1>6. ResultsTaken'
    <2> SUFFICES ASSUME current = "results" PROVE ResultsTaken'
      BY <1>2 DEF ResultsTaken
    <2>1. {"jobs", "projects"} \subseteq known /\ \A j \in items : JobDue(j)
      BY <1>1, <1>2 DEF UpkeepInv, ResultsTaken
    <2> QED BY <1>1, <1>2, <1>3, <1>4, <2>1 DEF ResultsTaken
  <1>7. SourcesTaken'
    <2> SUFFICES ASSUME current = "sources" PROVE SourcesTaken'
      BY <1>2 DEF SourcesTaken
    <2>1. {"jobs", "files", "projects"} \subseteq known /\ \A f \in items : FileDue(f) /\ Ours(f)
      BY <1>1, <1>2 DEF UpkeepInv, SourcesTaken
    <2> QED BY <1>1, <1>2, <1>3, <1>5, <2>1 DEF SourcesTaken
  <1>8. Uploads'
    <2>1. ASSUME NEW f \in DOMAIN store.files \ DOMAIN store.payloads
          PROVE  /\ FileDue(f) /\ Ours(f)
                 /\ \/ SourcesAhead
                    \/ current = "sources" /\ (f \in items' \/ (todo' # <<>> /\ f = NextId'))
                    \/ "sources" \in failed
      BY <1>1, <1>2, <1>3, <1>5 DEF UpkeepInv, Uploads
    <2> QED BY <1>2, <1>3, <2>1 DEF Uploads, UpkeepInv
  <1>9. Indexes'
    BY <1>2, <1>3 DEF Indexes, UpkeepInv
  <1> QED BY <1>6, <1>7, <1>8, <1>9

\* Which class begins where.
LEMMA BeginStage ==
  ASSUME Stage, classes # <<>>, phase = "working"
  PROVE  LET c == Head(classes) IN
         \/ c = "audit" /\ kind = "startup" /\ current = "startup"
         \/ c = "results" /\ kind = "startup" /\ current = "audit"
         \/ c = "results" /\ kind = "retention" /\ current = "startup"
         \/ c = "sources" /\ kind \in {"startup", "retention"} /\ current = "results"
         \/ /\ c \in {"audit", "append", "rotate", "tokens", "invites", "approvals", "weekly"}
            /\ kind # "startup" /\ ~SourcesAhead
  <1>1. CASE kind = "startup" /\ StartupStage
    BY <1>1 DEF StartupStage
  <1>2. CASE kind = "retention" /\ RetentionStage
    BY <1>2 DEF RetentionStage, SourcesAhead, Startup
  <1>3. CASE kind = "record" /\ RecordStage
    BY <1>3 DEF RecordStage, SourcesAhead, Startup
  <1>4. CASE kind = "anonymize" /\ AnonymizeStage
    BY <1>4 DEF AnonymizeStage, SourcesAhead, Startup
  <1> QED BY <1>1, <1>2, <1>3, <1>4 DEF Stage

\* Adopting an index makes it right.
LEMMA AdoptedRight ==
  ASSUME NEW idx, NEW recs, MarkedRight(idx, recs)
  PROVE  LET t == EnsureCurrent(idx, recs) IN
         t.rows = recs /\ MarkedRight(t, recs) /\ ~Stale(t, recs)
  BY DEF EnsureCurrent, MarkedRight, Stale

\* The classes that read no index of a record.
LEMMA UpkeepBeginOther ==
  ASSUME ControlInv, UpkeepInv, BeginClass, Head(classes) \notin {"results", "sources"}
  PROVE  UpkeepInv'
  <1> DEFINE c == Head(classes)
  <1>1. /\ phase = "working" /\ todo = <<>> /\ items = {} /\ classes # <<>> /\ Stage
        /\ store' = Prepared(c) /\ current' = c
        /\ UNCHANGED <<old, intact, kind, rested>> /\ failed \subseteq failed'
        /\ phase' = "working" \/ phase' = "refused"
        /\ phase' = "refused" => kind = "startup"
        /\ phase' = "working" /\ kind = "startup" => failed' = failed
    BY BeginClassIs
  <1>2. ~rested
    BY <1>1 DEF UpkeepInv
  <1>3. SameUpkeep(store, store')
    <2>1. Adopted(c) = {}
      BY DEF Adopted
    <2>2. /\ Only(store, store', {"jobIdx", "projectIdx", "fileIdx", "audit"})
          /\ store'.jobIdx = store.jobIdx /\ store'.projectIdx = store.projectIdx /\ store'.fileIdx = store.fileIdx
      BY <1>1, <2>1, PreparedIs DEF ControlInv
    <2> QED BY <2>2 DEF Only, SameUpkeep, ControlInv, StoreShape, StoreFields
  <1>4. CASE phase' = "refused"
    BY <1>1, <1>2, <1>3, <1>4, UpkeepDown
  <1>5. CASE phase' = "working" /\ kind # "startup"
    <2>1. ~SourcesAhead
      BY <1>1, <1>5, BeginStage
    <2> QED BY <1>1, <1>2, <1>3, <1>5, <2>1, UpkeepEase
  <1>6. CASE phase' = "working" /\ kind = "startup"
    <2>1. c = "audit" /\ current = "startup"
      BY <1>1, <1>6, BeginStage
    <2> SUFFICES ASSUME intact PROVE ResultsTaken' /\ SourcesTaken' /\ Uploads' /\ Indexes'
      BY <1>1, <1>2, <1>6 DEF UpkeepInv
    <2>2. /\ \A j : JobDue(j)' <=> JobDue(j)
          /\ \A f : FileDue(f)' <=> FileDue(f)
      BY <1>1, <1>3, SameDue
    <2>3. SourcesAhead' /\ Startup({"startup", "audit"})' /\ Startup({"startup", "audit", "results"})'
      BY <1>1, <1>6, <2>1 DEF SourcesAhead, Startup
    <2>4. ~Down /\ NextOp = "none" /\ \A f : Ours(f)' /\ Ours(f)
      BY <1>1, <1>6 DEF Down, NextOp, Ours
    <2>5. ResultsTaken' /\ SourcesTaken'
      BY <1>1, <2>1 DEF ResultsTaken, SourcesTaken
    <2>6. Uploads'
      BY <1>3, <1>6, <2>2, <2>3, <2>4 DEF Uploads, UpkeepInv, SameUpkeep
    <2>7. Indexes'
      <3>1. Stale(store.projectIdx, store.projects) =>
               (\E j \in DOMAIN store.jobs : JobDue(j)) \/ (\E f \in DOMAIN store.files : FileDue(f))
        BY <2>4 DEF UpkeepInv, Indexes
      <3>2. /\ MarkedRight(store.jobIdx, store.jobs) /\ MarkedRight(store.fileIdx, store.files)
            /\ MarkedRight(store.projectIdx, store.projects)
        BY DEF UpkeepInv, Indexes
      <3> QED BY <1>3, <2>2, <2>3, <3>1, <3>2 DEF Indexes, SameUpkeep
    <2> QED BY <2>5, <2>6, <2>7
  <1> QED BY <1>1, <1>4, <1>5, <1>6

\* Purging results starts from a job index that is right.
LEMMA UpkeepBeginResults ==
  ASSUME ControlInv, UpkeepInv, BeginClass, Head(classes) = "results"
  PROVE  UpkeepInv'
  <1>1. /\ phase = "working" /\ todo = <<>> /\ items = {} /\ classes # <<>> /\ Stage
        /\ store' = Prepared("results") /\ current' = "results" /\ known' = known \cup Adopted("results")
        /\ UNCHANGED <<old, intact, kind, rested>>
        /\ items' = TakenUp("results", store') /\ todo' = Plan("results", store') /\ failed' = failed
        /\ phase' = "working"
    BY BeginClassIs
  <1>2. todo' = <<>> /\ items' = ExpiredJobs(store', Owner)
    BY <1>1, PlanIs
  <1>3. (kind = "startup" /\ current = "audit") \/ (kind = "retention" /\ current = "startup")
    BY <1>1, BeginStage
  <1> SUFFICES ASSUME intact PROVE ResultsTaken' /\ SourcesTaken' /\ Uploads' /\ Indexes'
    BY <1>1 DEF UpkeepInv
  <1>4. /\ MarkedRight(store.jobIdx, store.jobs) /\ MarkedRight(store.fileIdx, store.files)
        /\ MarkedRight(store.projectIdx, store.projects)
    BY DEF UpkeepInv, Indexes
  <1> DEFINE cur == EnsureCurrent(store.jobIdx, store.jobs)
             due == ExpiredJobs([store EXCEPT !.jobIdx = cur], Owner)
  <1>5. Adopted("results") = {"jobs"} \cup (IF due = {} THEN {} ELSE {"projects"})
    BY DEF Adopted
  <1>6. StoreFields \subseteq DOMAIN store
    BY DEF ControlInv, StoreShape
  <1>7. /\ Only(store, store', {"jobIdx", "projectIdx", "fileIdx", "audit"})
        /\ store'.jobIdx = cur /\ store'.fileIdx = store.fileIdx
        /\ store'.projectIdx = IF due = {} THEN store.projectIdx
                               ELSE EnsureCurrent(store.projectIdx, store.projects)
    BY <1>1, <1>5, PreparedIs DEF ControlInv
  <1>8. cur.rows = store.jobs /\ MarkedRight(cur, store.jobs) /\ ~Stale(cur, store.jobs)
    BY <1>4, AdoptedRight
  <1>9. [store EXCEPT !.jobIdx = cur].jobIdx = cur /\ [store EXCEPT !.jobIdx = cur].jobs = store.jobs
    BY <1>6 DEF StoreFields
  <1>10. /\ store'.jobs = store.jobs /\ store'.projects = store.projects /\ store'.files = store.files
         /\ store'.payloads = store.payloads
    BY <1>6, <1>7 DEF Only, StoreFields
  <1> HIDE DEF cur
  <1>11. due = {j \in DOMAIN store.jobs \cap old :
                  /\ store.jobs[j].status \notin ActiveStates
                  /\ Owner # None => store.jobs[j].owner = Owner}
    BY <1>8, <1>9 DEF ExpiredJobs
  <1> HIDE DEF due
  <1>12. items' = due
    BY <1>1, <1>2, <1>7, <1>8, <1>10, <1>11 DEF ExpiredJobs
  <1>13. /\ \A j : JobDue(j)' <=> JobDue(j)
         /\ \A f : FileDue(f)' <=> FileDue(f)
         /\ \A f : Ours(f)' <=> Ours(f)
    BY <1>1, <1>10 DEF JobDue, FileDue, Ours, SourceInUse
  <1>14. \A j \in due : JobDue(j)
    BY <1>11 DEF JobDue
  <1>15. kind = "startup" => \A j \in DOMAIN store.jobs : JobDue(j) => j \in due
    BY <1>11 DEF JobDue, Owner
  <1>16. ResultsTaken' /\ SourcesTaken'
    BY <1>1, <1>2, <1>5, <1>12, <1>13, <1>14 DEF ResultsTaken, SourcesTaken, NextOp
  <1>17. SourcesAhead' /\ ~Down /\ NextOp = "none"
    BY <1>1, <1>3 DEF SourcesAhead, Startup, Down, NextOp
  <1>18. Uploads'
    BY <1>1, <1>10, <1>13, <1>17 DEF Uploads, UpkeepInv
  <1>19. Indexes'
    <2>1. /\ MarkedRight(store'.jobIdx, store'.jobs) /\ ~Stale(store'.jobIdx, store'.jobs)
          /\ MarkedRight(store'.fileIdx, store'.files)
      BY <1>4, <1>7, <1>8, <1>10
    <2>2. Stale(store'.fileIdx, store'.files) => Startup({"startup", "audit", "results"})'
      <3>1. Stale(store.fileIdx, store.files) => kind = "startup"
        BY <1>17 DEF UpkeepInv, Indexes, Startup
      <3> QED BY <1>1, <1>7, <1>10, <3>1 DEF Startup
    <2>3. MarkedRight(store'.projectIdx, store'.projects)
      BY <1>4, <1>7, <1>10, AdoptedRight
    <2>4. Stale(store'.projectIdx, store'.projects) =>
              Startup({"results"})' /\ \E f \in DOMAIN store'.files : FileDue(f)'
      <3> SUFFICES ASSUME Stale(store'.projectIdx, store'.projects)
                   PROVE  kind = "startup" /\ \E f \in DOMAIN store.files : FileDue(f)
        BY <1>1, <1>10, <1>13 DEF Startup
      <3>1. due = {} /\ Stale(store.projectIdx, store.projects)
        BY <1>4, <1>7, <1>10, AdoptedRight
      <3>2. /\ kind = "startup"
            /\ (\E j \in DOMAIN store.jobs : JobDue(j)) \/ (\E f \in DOMAIN store.files : FileDue(f))
        BY <1>17, <3>1 DEF UpkeepInv, Indexes, Startup
      <3> QED BY <1>15, <3>1, <3>2
    <2> QED BY <2>1, <2>2, <2>3, <2>4 DEF Indexes
  <1> QED BY <1>16, <1>18, <1>19

\* Purging sources starts from indexes that are right, and takes up again
\* what an earlier purge was interrupted at.
LEMMA UpkeepBeginSources ==
  ASSUME ControlInv, UpkeepInv, BeginClass, Head(classes) = "sources"
  PROVE  UpkeepInv'
  <1>1. /\ phase = "working" /\ todo = <<>> /\ items = {} /\ classes # <<>> /\ Stage
        /\ store' = Prepared("sources") /\ current' = "sources" /\ known' = known \cup Adopted("sources")
        /\ UNCHANGED <<old, intact, kind, rested>>
        /\ items' = TakenUp("sources", store') /\ todo' = Plan("sources", store') /\ failed' = failed
        /\ phase' = "working"
    BY BeginClassIs
  <1>2. todo' = <<>> /\ items' = ExpiredFiles(store', Owner)
    BY <1>1, PlanIs
  <1>3. kind \in {"startup", "retention"} /\ current = "results"
    BY <1>1, BeginStage
  <1> SUFFICES ASSUME intact PROVE ResultsTaken' /\ SourcesTaken' /\ Uploads' /\ Indexes'
    BY <1>1 DEF UpkeepInv
  <1>4. /\ MarkedRight(store.jobIdx, store.jobs) /\ MarkedRight(store.fileIdx, store.files)
        /\ MarkedRight(store.projectIdx, store.projects)
    BY DEF UpkeepInv, Indexes
  <1> DEFINE cur == EnsureCurrent(store.fileIdx, store.files)
             due == ExpiredFiles([store EXCEPT !.fileIdx = cur], Owner)
  <1>5. Adopted("sources") = {"jobs", "files"} \cup (IF due = {} THEN {} ELSE {"projects"})
    BY DEF Adopted
  <1>6. StoreFields \subseteq DOMAIN store
    BY DEF ControlInv, StoreShape
  <1>7. /\ Only(store, store', {"jobIdx", "projectIdx", "fileIdx", "audit"})
        /\ store'.fileIdx = cur /\ store'.jobIdx = EnsureCurrent(store.jobIdx, store.jobs)
        /\ store'.projectIdx = IF due = {} THEN store.projectIdx
                               ELSE EnsureCurrent(store.projectIdx, store.projects)
    BY <1>1, <1>5, PreparedIs DEF ControlInv
  <1>8. cur.rows = store.files /\ MarkedRight(cur, store.files) /\ ~Stale(cur, store.files)
    BY <1>4, AdoptedRight
  <1>9. /\ [store EXCEPT !.fileIdx = cur].fileIdx = cur /\ [store EXCEPT !.fileIdx = cur].files = store.files
        /\ [store EXCEPT !.fileIdx = cur].jobs = store.jobs
    BY <1>6 DEF StoreFields
  <1>10. /\ store'.jobs = store.jobs /\ store'.projects = store.projects /\ store'.files = store.files
         /\ store'.payloads = store.payloads
    BY <1>6, <1>7 DEF Only, StoreFields
  <1> HIDE DEF cur
  <1>11. due = {f \in DOMAIN store.files \cap old :
                  ~SourceInUse(store, f) /\ (Owner # None => store.files[f].owner = Owner)}
    BY <1>8, <1>9 DEF ExpiredFiles, SourceInUse
  <1> HIDE DEF due
  <1>12. items' = due
    BY <1>1, <1>2, <1>7, <1>8, <1>10, <1>11 DEF ExpiredFiles, SourceInUse
  <1>13. /\ \A j : JobDue(j)' <=> JobDue(j)
         /\ \A f : FileDue(f)' <=> FileDue(f)
         /\ \A f : Ours(f)' <=> Ours(f)
    BY <1>1, <1>10 DEF JobDue, FileDue, Ours, SourceInUse
  <1>14. \A f : f \in due <=> FileDue(f) /\ Ours(f)
    BY <1>1, <1>11 DEF FileDue, Ours, Owner
  <1>16. ResultsTaken' /\ SourcesTaken'
    BY <1>1, <1>2, <1>5, <1>12, <1>13, <1>14 DEF ResultsTaken, SourcesTaken, NextOp
  <1>17. ~Down /\ NextOp = "none" /\ ~Startup({"startup", "audit"})
    BY <1>1, <1>3 DEF Startup, Down, NextOp
  <1>18. Uploads'
    <2>1. ASSUME NEW f \in DOMAIN store.files \ DOMAIN store.payloads
          PROVE  FileDue(f) /\ Ours(f) /\ f \in items'
      BY <1>12, <1>14, <1>17 DEF UpkeepInv, Uploads
    <2> QED BY <1>1, <1>10, <1>13, <2>1 DEF Uploads, UpkeepInv
  <1>19. Indexes'
    <2>1. /\ MarkedRight(store'.jobIdx, store'.jobs) /\ ~Stale(store'.jobIdx, store'.jobs)
          /\ MarkedRight(store'.fileIdx, store'.files) /\ ~Stale(store'.fileIdx, store'.files)
      BY <1>4, <1>7, <1>8, <1>10, AdoptedRight
    <2>2. MarkedRight(store'.projectIdx, store'.projects)
      BY <1>4, <1>7, <1>10, AdoptedRight
    <2>3. ~Stale(store'.projectIdx, store'.projects)
      <3> SUFFICES ASSUME Stale(store'.projectIdx, store'.projects) PROVE FALSE
        OBVIOUS
      <3>1. due = {} /\ Stale(store.projectIdx, store.projects)
        BY <1>4, <1>7, <1>10, AdoptedRight
      <3>2. Startup({"results"}) /\ \E f \in DOMAIN store.files : FileDue(f)
        BY <1>17, <3>1 DEF UpkeepInv, Indexes
      <3>3. \A f : Ours(f)
        BY <1>1, <3>2 DEF Startup, Ours
      <3> QED BY <1>14, <3>1, <3>2, <3>3
    <2> QED BY <2>1, <2>2, <2>3 DEF Indexes
  <1> QED BY <1>16, <1>18, <1>19

\* What a write of the purge of a job has to keep.
LEMMA ResultsGoOn ==
  ASSUME UpkeepInv, intact, phase = "working", current = "results", todo # <<>>, NextOp # "syncFiles",
         UNCHANGED <<intact, phase, kind, current, items, known, failed, rested>>,
         UNCHANGED <<store.files, store.payloads, store.fileIdx>>,
         \A f \in DOMAIN store.files : FileDue(f) => FileDue(f)',
         \A j \in items : JobDue(j)',
         todo' = <<>> \/ NextId' = NextId,
         NextOp' \in {"advisory", "baseline", "syncProj", "job"} => JobDue(NextId)',
         MarkedRight(store.jobIdx, store.jobs)', MarkedRight(store.projectIdx, store.projects)',
         Stale(store.jobIdx, store.jobs)' => NextOp' = "syncJobs",
         Stale(store.projectIdx, store.projects)' =>
             NextOp' = "syncProj" \/ (Stale(store.projectIdx, store.projects) /\ NextOp # "syncProj")
  PROVE  UpkeepInv'
  <1>1. /\ ~Down /\ SourcesAhead' = SourcesAhead /\ \A S : Startup(S)' = Startup(S)
        /\ \A f : Ours(f)' <=> Ours(f)
    BY DEF Down, SourcesAhead, Startup, Ours
  <1>2. ~Startup({"startup", "audit"})
    BY DEF Startup
  <1> SUFFICES ASSUME TRUE PROVE ResultsTaken' /\ SourcesTaken' /\ Uploads' /\ Indexes'
    BY DEF UpkeepInv
  <1>3. SourcesTaken'
    BY DEF SourcesTaken
  <1>4. ResultsTaken'
    <2>1. /\ {"jobs", "projects"} \subseteq known /\ \A j \in items : j # NextId
      BY DEF UpkeepInv, ResultsTaken
    <2> QED BY <2>1 DEF ResultsTaken
  <1>5. Uploads'
    <2>1. ASSUME NEW f \in DOMAIN store.files \ DOMAIN store.payloads
          PROVE  FileDue(f) /\ Ours(f) /\ (SourcesAhead \/ "sources" \in failed)
      BY <1>1 DEF UpkeepInv, Uploads
    <2> QED BY <1>1, <2>1 DEF UpkeepInv, Uploads
  <1>6. Indexes'
    <2>1. MarkedRight(store.fileIdx, store.files) /\ (Stale(store.fileIdx, store.files) => Startup({"startup", "audit", "results"}))
      BY <1>1 DEF UpkeepInv, Indexes
    <2>2. Stale(store.projectIdx, store.projects) /\ NextOp # "syncProj" =>
              Startup({"results"}) /\ \E f \in DOMAIN store.files : FileDue(f)
      BY <1>1, <1>2 DEF UpkeepInv, Indexes
    <2> QED BY <1>1, <2>1, <2>2 DEF Indexes
  <1> QED BY <1>3, <1>4, <1>5, <1>6

\* What a write of the purge of a source has to keep.
LEMMA SourcesGoOn ==
  ASSUME UpkeepInv, intact, phase = "working", current = "sources", todo # <<>>,
         UNCHANGED <<intact, phase, kind, current, items, known, failed, rested>>,
         DOMAIN store'.payloads \subseteq DOMAIN store'.files,
         \A f \in DOMAIN store'.payloads : store'.payloads[f] = store'.files[f].sha,
         \A f \in DOMAIN store'.files \ DOMAIN store'.payloads :
            /\ FileDue(f)' /\ Ours(f)'
            /\ f \in items \/ (todo' # <<>> /\ f = NextId') \/ "sources" \in failed,
         \A f \in items : FileDue(f)' /\ Ours(f)',
         todo' = <<>> \/ NextId' = NextId,
         todo' # <<>> /\ NextOp' # "syncFiles" => FileDue(NextId)' /\ Ours(NextId)',
         NextOp' = "file" => NextId' \notin DOMAIN store'.payloads,
         NextOp' = "syncFiles" => NextId' \notin DOMAIN store'.files,
         MarkedRight(store.jobIdx, store.jobs)', MarkedRight(store.projectIdx, store.projects)',
         MarkedRight(store.fileIdx, store.files)',
         Stale(store.jobIdx, store.jobs)' => NextOp' = "syncJobs",
         Stale(store.projectIdx, store.projects)' => NextOp' = "syncProj",
         Stale(store.fileIdx, store.files)' => NextOp' = "syncFiles"
  PROVE  UpkeepInv'
  <1> SUFFICES ASSUME TRUE PROVE ResultsTaken' /\ SourcesTaken' /\ Uploads' /\ Indexes'
    BY DEF UpkeepInv
  <1>1. ResultsTaken'
    BY DEF ResultsTaken
  <1>2. SourcesTaken'
    <2>1. {"jobs", "files", "projects"} \subseteq known /\ \A f \in items : f # NextId
      BY DEF UpkeepInv, SourcesTaken
    <2> QED BY <2>1 DEF SourcesTaken
  <1>3. Uploads'
    BY DEF Uploads
  <1>4. Indexes'
    BY DEF Indexes
  <1> QED BY <1>1, <1>2, <1>3, <1>4

\* What holds of the indexes while a source is purged.
LEMMA SourcesStale ==
  ASSUME UpkeepInv, intact, phase = "working", current = "sources"
  PROVE  /\ Stale(store.jobIdx, store.jobs) => NextOp = "syncJobs"
         /\ Stale(store.projectIdx, store.projects) => NextOp = "syncProj"
         /\ Stale(store.fileIdx, store.files) => NextOp = "syncFiles"
         /\ MarkedRight(store.jobIdx, store.jobs) /\ MarkedRight(store.projectIdx, store.projects)
         /\ MarkedRight(store.fileIdx, store.files)
  BY DEF UpkeepInv, Indexes, Down, Startup

\* An index without its marker claims nothing.
LEMMA TouchedRight ==
  ASSUME NEW idx, IndexFields \subseteq DOMAIN idx, NEW recs
  PROVE  MarkedRight(Touched(idx), recs)
  BY DEF Touched, MarkedRight, IndexFields

\* An index a process synchronizes is right.
LEMMA SyncedRight ==
  ASSUME NEW idx, NEW recs
  PROVE  MarkedRight(Synced(idx, recs, TRUE), recs) /\ ~Stale(Synced(idx, recs, TRUE), recs)
  BY DEF Synced, MarkedRight, Stale

\* The writes of the other classes.
LEMMA UpkeepWriteOther ==
  ASSUME ControlInv, UpkeepInv, WriteStep, current \notin {"results", "sources"}
  PROVE  UpkeepInv'
  <1>1. /\ phase = "working" /\ todo # <<>> /\ store' = Written(store, Head(todo))
        /\ UNCHANGED <<intact, phase, kind, current, items, known, failed, rested>>
        /\ old' = IF Head(todo).op = "markJobs" THEN old \ Unmarked(store, Head(todo).id) ELSE old
    BY DEF WriteStep
  <1>2. NextOp \notin SyncOps \cup {"markJobs"}
    BY OtherOps
  <1>3. old' = old
    BY <1>1, <1>2 DEF NextOp
  <1>4. SameUpkeep(store, store')
    <2>1. StoreFields \subseteq DOMAIN store /\ {"key", "receipts"} \subseteq DOMAIN store.weekly
      BY DEF ControlInv, StoreShape
    <2>2. CASE current \in LedgerClasses
      <3>1. Only(store, store', {"audit"})
        BY <1>1, <2>2, WriteSides
      <3> QED BY <2>1, <3>1 DEF Only, StoreFields, SameUpkeep
    <2>3. CASE current \in {"tokens", "invites", "approvals", "weekly"}
      <3>1. todo = ClassNext(current)
        BY <1>1, <2>3 DEF ControlInv, Control, TodoForm
      <3>2. Head(todo) = W(current, None)
        BY <3>1, OtherRestMoves
      <3>3. Only(store, store', {"auth", "approvals", "weekly"})
        BY <1>1, <2>1, <2>3, <3>2, WrittenAuth DEF Only
      <3> QED BY <2>1, <3>3 DEF Only, StoreFields, SameUpkeep
    <2> QED BY <1>1, <2>2, <2>3, WriteSides DEF RecordClasses
  <1> SUFFICES ASSUME intact PROVE ResultsTaken' /\ SourcesTaken' /\ Uploads' /\ Indexes'
    BY <1>1 DEF UpkeepInv
  <1>5. /\ \A j : JobDue(j)' <=> JobDue(j)
        /\ \A f : FileDue(f)' <=> FileDue(f)
    BY <1>3, <1>4, SameDue
  <1>6. /\ ~Down /\ SourcesAhead' = SourcesAhead /\ \A S : Startup(S)' = Startup(S)
        /\ \A f : Ours(f)' <=> Ours(f)
    BY <1>1, <1>4 DEF Down, SourcesAhead, Startup, Ours, SameUpkeep
  <1>7. ResultsTaken' /\ SourcesTaken'
    BY <1>1 DEF ResultsTaken, SourcesTaken
  <1>8. Uploads'
    BY <1>1, <1>4, <1>5, <1>6 DEF UpkeepInv, Uploads, SameUpkeep
  <1>9. Indexes'
    BY <1>2, <1>4, <1>5, <1>6 DEF UpkeepInv, Indexes, SameUpkeep, SyncOps
  <1> QED BY <1>7, <1>8, <1>9

\* Purging a job, write by write.
LEMMA UpkeepWriteResults ==
  ASSUME ControlInv, KeptInv, UpkeepInv, WriteStep, current = "results"
  PROVE  UpkeepInv'
  <1>1. /\ phase = "working" /\ todo # <<>> /\ store' = Written(store, Head(todo)) /\ todo' = Tail(todo)
        /\ UNCHANGED <<intact, phase, kind, current, items, known, failed, rested>>
        /\ old' = IF Head(todo).op = "markJobs" THEN old \ Unmarked(store, Head(todo).id) ELSE old
    BY DEF WriteStep
  <1>2. PICK j : todo \in JobRest(j)
    BY <1>1 DEF ControlInv, Control, TodoForm
  <1> SUFFICES ASSUME intact PROVE UpkeepInv'
    BY <1>1 DEF UpkeepInv
  <1>3. StoreFields \subseteq DOMAIN store /\ StoreMaps(store)
    BY DEF ControlInv, StoreShape, KeptInv
  <1>4. /\ IndexFields \subseteq DOMAIN store.jobIdx /\ IndexFields \subseteq DOMAIN store.projectIdx
    BY DEF ControlInv, StoreShape
  <1>5. /\ {"jobs", "projects"} \subseteq known
        /\ \A i \in items : JobDue(i) /\ i # NextId
        /\ NextOp \in {"advisory", "baseline", "syncProj", "job"} => JobDue(NextId)
    BY <1>1 DEF UpkeepInv, ResultsTaken
  <1>6. /\ MarkedRight(store.jobIdx, store.jobs) /\ MarkedRight(store.projectIdx, store.projects)
        /\ Stale(store.jobIdx, store.jobs) => NextOp = "syncJobs"
    BY <1>1 DEF UpkeepInv, Indexes, Down, Startup
  <1>7. ASSUME NEW o \in {"advisory", "baseline", "syncProj", "job", "syncJobs"}, Head(todo) = W(o, j)
        PROVE  NextOp = o /\ NextId = j /\ NextOp # "syncFiles" /\ old' = old
    BY <1>1, <1>7, WFields DEF NextOp, NextId
  <1>8. CASE todo = AdvisoryNext(j)
    <2>1. Head(todo) = W("advisory", j) /\ todo' = BaselineNext(j)
      BY <1>1, <1>8, JobRestMoves
    <2>2. NextOp' = "baseline" /\ NextId' = j
      BY <2>1, JobRestMoves, WFields DEF NextOp, NextId
    <2>3. Only(store, store', {"advisories"})
      BY <1>1, <1>3, <2>1, WrittenAdvisory
    <2>4. SameUpkeep(store, store')
      BY <1>3, <2>3 DEF Only, StoreFields, SameUpkeep
    <2>5. /\ \A i : JobDue(i)' <=> JobDue(i)
          /\ \A f : FileDue(f)' <=> FileDue(f)
      BY <1>7, <2>1, <2>4, SameDue
    <2>6. JobDue(NextId)'
      BY <1>5, <1>7, <2>1, <2>2, <2>5
    <2> QED BY <1>1, <1>5, <1>6, <1>7, <2>1, <2>2, <2>4, <2>5, <2>6, ResultsGoOn DEF SameUpkeep
  <1>9. CASE todo = BaselineNext(j)
    <2>1. Head(todo) = W("baseline", j) /\ todo' = SyncProjNext(j)
      BY <1>1, <1>9, JobRestMoves
    <2>2. NextOp' = "syncProj" /\ NextId' = j
      BY <2>1, JobRestMoves, WFields DEF NextOp, NextId
    <2>3. /\ Only(store, store', {"projects", "projectIdx"})
          /\ store'.projects = [p \in DOMAIN store.projects |->
                 IF store.projects[p].baseline = j THEN [store.projects[p] EXCEPT !.baseline = None]
                 ELSE store.projects[p]]
          /\ store'.projectIdx = IF \E p \in DOMAIN store.projects : store.projects[p].baseline = j
                                 THEN Touched(store.projectIdx) ELSE store.projectIdx
      BY <1>1, <1>3, <2>1, WrittenBaseline
    <2>4. /\ store'.jobs = store.jobs /\ store'.jobIdx = store.jobIdx
          /\ UNCHANGED <<store.files, store.payloads, store.fileIdx>>
      BY <1>3, <2>3 DEF Only, StoreFields
    <2>5. /\ \A i : JobDue(i)' <=> JobDue(i)
          /\ \A f : FileDue(f)' <=> FileDue(f)
      BY <1>7, <2>1, <2>4 DEF JobDue, FileDue, SourceInUse
    <2>6. JobDue(NextId)'
      BY <1>5, <1>7, <2>1, <2>2, <2>5
    <2>7. MarkedRight(store.projectIdx, store.projects)'
      <3>1. CASE \E p \in DOMAIN store.projects : store.projects[p].baseline = j
        BY <1>4, <2>3, <3>1, TouchedRight
      <3>2. CASE \A p \in DOMAIN store.projects : store.projects[p].baseline # j
        <4>1. store'.projects = [p \in DOMAIN store.projects |-> store.projects[p]]
          BY <2>3, <3>2
        <4>2. store'.projects = store.projects
          BY <1>3, <4>1 DEF StoreMaps, Mapping
        <4> QED BY <1>6, <2>3, <3>2, <4>2
      <3> QED BY <3>1, <3>2
    <2> QED BY <1>1, <1>5, <1>6, <1>7, <2>1, <2>2, <2>4, <2>5, <2>6, <2>7, ResultsGoOn
  <1>10. CASE todo = SyncProjNext(j)
    <2>1. Head(todo) = W("syncProj", j) /\ todo' = JobNext(j)
      BY <1>1, <1>10, JobRestMoves
    <2>2. NextOp' = "job" /\ NextId' = j
      BY <2>1, JobRestMoves, WFields DEF NextOp, NextId
    <2>3. /\ Only(store, store', {"projectIdx"})
          /\ store'.projectIdx = Synced(store.projectIdx, store.projects, TRUE)
      BY <1>1, <1>3, <1>5, <2>1, WrittenSync
    <2>4. /\ store'.jobs = store.jobs /\ store'.jobIdx = store.jobIdx /\ store'.projects = store.projects
          /\ UNCHANGED <<store.files, store.payloads, store.fileIdx>>
      BY <1>3, <2>3 DEF Only, StoreFields
    <2>5. /\ \A i : JobDue(i)' <=> JobDue(i)
          /\ \A f : FileDue(f)' <=> FileDue(f)
      BY <1>7, <2>1, <2>4 DEF JobDue, FileDue, SourceInUse
    <2>6. JobDue(NextId)'
      BY <1>5, <1>7, <2>1, <2>2, <2>5
    <2>7. MarkedRight(store.projectIdx, store.projects)' /\ ~Stale(store.projectIdx, store.projects)'
      BY <2>3, <2>4, SyncedRight
    <2> QED BY <1>1, <1>5, <1>6, <1>7, <2>1, <2>2, <2>4, <2>5, <2>6, <2>7, ResultsGoOn
  <1>11. CASE todo = JobNext(j)
    <2>1. Head(todo) = W("job", j) /\ todo' = SyncJobsNext(j)
      BY <1>1, <1>11, JobRestMoves
    <2>2. NextOp' = "syncJobs" /\ NextId' = j
      BY <2>1, JobRestMoves, WFields DEF NextOp, NextId
    <2>3. /\ Only(store, store', {"jobs", "jobIdx"})
          /\ store'.jobs = Without(store.jobs, j) /\ store'.jobIdx = Touched(store.jobIdx)
      BY <1>1, <1>3, <2>1, WrittenJob
    <2>4. /\ store'.projects = store.projects /\ store'.projectIdx = store.projectIdx
          /\ UNCHANGED <<store.files, store.payloads, store.fileIdx>>
      BY <1>3, <2>3 DEF Only, StoreFields
    <2>5. /\ DOMAIN store'.jobs = DOMAIN store.jobs \ {j}
          /\ \A i \in DOMAIN store'.jobs : store'.jobs[i] = store.jobs[i]
      BY <2>3 DEF Without, Drop
    <2>6. \A i \in items : JobDue(i)'
      BY <1>5, <1>7, <2>1, <2>5 DEF JobDue
    <2>7. \A f \in DOMAIN store.files : FileDue(f) => FileDue(f)'
      BY <1>7, <2>1, <2>4, <2>5 DEF FileDue, SourceInUse
    <2>8. MarkedRight(store.jobIdx, store.jobs)'
      BY <1>4, <2>3, TouchedRight
    <2> QED BY <1>1, <1>5, <1>6, <1>7, <2>1, <2>2, <2>4, <2>6, <2>7, <2>8, ResultsGoOn
  <1>12. CASE todo = SyncJobsNext(j)
    <2>1. Head(todo) = W("syncJobs", j) /\ todo' = <<>>
      BY <1>1, <1>12, JobRestMoves
    <2>2. NextOp' = "none"
      BY <2>1 DEF NextOp
    <2>3. /\ Only(store, store', {"jobIdx"})
          /\ store'.jobIdx = Synced(store.jobIdx, store.jobs, TRUE)
      BY <1>1, <1>3, <1>5, <2>1, WrittenSync
    <2>4. /\ store'.jobs = store.jobs /\ store'.projectIdx = store.projectIdx /\ store'.projects = store.projects
          /\ UNCHANGED <<store.files, store.payloads, store.fileIdx>>
      BY <1>3, <2>3 DEF Only, StoreFields
    <2>5. /\ \A i : JobDue(i)' <=> JobDue(i)
          /\ \A f : FileDue(f)' <=> FileDue(f)
      BY <1>7, <2>1, <2>4 DEF JobDue, FileDue, SourceInUse
    <2>7. MarkedRight(store.jobIdx, store.jobs)' /\ ~Stale(store.jobIdx, store.jobs)'
      BY <2>3, <2>4, SyncedRight
    <2> QED BY <1>1, <1>5, <1>6, <1>7, <2>1, <2>2, <2>4, <2>5, <2>7, ResultsGoOn
  <1> QED BY <1>2, <1>8, <1>9, <1>10, <1>11, <1>12 DEF JobRest

\* Purging a source, write by write.
LEMMA UpkeepWriteSources ==
  ASSUME ControlInv, KeptInv, UpkeepInv, WriteStep, current = "sources"
  PROVE  UpkeepInv'
  <1>1. /\ phase = "working" /\ todo # <<>> /\ store' = Written(store, Head(todo)) /\ todo' = Tail(todo)
        /\ UNCHANGED <<intact, phase, kind, current, items, known, failed, rested>>
        /\ old' = IF Head(todo).op = "markJobs" THEN old \ Unmarked(store, Head(todo).id) ELSE old
    BY DEF WriteStep
  <1>2. PICK f : todo \in FileRest(f)
    BY <1>1 DEF ControlInv, Control, TodoForm
  <1> SUFFICES ASSUME intact PROVE UpkeepInv'
    BY <1>1 DEF UpkeepInv
  <1>3. StoreFields \subseteq DOMAIN store /\ StoreMaps(store)
    BY DEF ControlInv, StoreShape, KeptInv
  <1>4. /\ IndexFields \subseteq DOMAIN store.jobIdx /\ IndexFields \subseteq DOMAIN store.projectIdx
        /\ IndexFields \subseteq DOMAIN store.fileIdx
    BY DEF ControlInv, StoreShape
  <1>5. /\ {"jobs", "files", "projects"} \subseteq known
        /\ \A g \in items : FileDue(g) /\ Ours(g) /\ g # NextId
        /\ NextOp # "syncFiles" => FileDue(NextId) /\ Ours(NextId)
        /\ NextOp = "file" => NextId \notin DOMAIN store.payloads
        /\ NextOp = "syncFiles" => NextId \notin DOMAIN store.files
    BY <1>1 DEF UpkeepInv, SourcesTaken
  <1>6. /\ Stale(store.jobIdx, store.jobs) => NextOp = "syncJobs"
        /\ Stale(store.projectIdx, store.projects) => NextOp = "syncProj"
        /\ Stale(store.fileIdx, store.files) => NextOp = "syncFiles"
        /\ MarkedRight(store.jobIdx, store.jobs) /\ MarkedRight(store.projectIdx, store.projects)
        /\ MarkedRight(store.fileIdx, store.files)
    BY <1>1, SourcesStale
  <1>7. ASSUME NEW o, Head(todo) = W(o, f)
        PROVE  NextOp = o /\ NextId = f /\ (o # "markJobs" => old' = old)
    BY <1>1, <1>7, WFields DEF NextOp, NextId
  <1>8. /\ DOMAIN store.payloads \subseteq DOMAIN store.files
        /\ \A g \in DOMAIN store.payloads : store.payloads[g] = store.files[g].sha
        /\ \A g \in DOMAIN store.files \ DOMAIN store.payloads :
              FileDue(g) /\ Ours(g) /\ (g \in items \/ g = NextId \/ "sources" \in failed)
    BY <1>1 DEF UpkeepInv, Uploads, SourcesAhead, Startup, Down
  <1>9. ASSUME UNCHANGED <<store.files, store.payloads, store.fileIdx>>, \A g : FileDue(g)' <=> FileDue(g),
               NextOp' \notin {"none", "file", "syncFiles"}, NextOp \notin {"file", "syncFiles"},
               todo' # <<>>, NextId' = f, NextId = f,
               MarkedRight(store.jobIdx, store.jobs)', MarkedRight(store.projectIdx, store.projects)',
               Stale(store.jobIdx, store.jobs)' => NextOp' = "syncJobs",
               Stale(store.projectIdx, store.projects)' => NextOp' = "syncProj"
        PROVE  UpkeepInv'
    <2>1. \A g : Ours(g)' <=> Ours(g)
      BY <1>1, <1>9 DEF Ours
    <2>2. FileDue(NextId)' /\ Ours(NextId)'
      BY <1>5, <1>9, <2>1
    <2>3. ~Stale(store.fileIdx, store.files)' /\ MarkedRight(store.fileIdx, store.files)'
      BY <1>6, <1>9
    <2> QED BY <1>1, <1>5, <1>8, <1>9, <2>1, <2>2, <2>3, SourcesGoOn
  <1>10. CASE todo = MarkJobsNext(f)
    <2>1. Head(todo) = W("markJobs", f) /\ todo' = MarksSyncNext(f)
      BY <1>1, <1>10, FileRestMoves
    <2>2. NextOp' = "syncJobs" /\ NextId' = f /\ todo' # <<>>
      BY <2>1, FileRestMoves, WFields DEF NextOp, NextId
    <2>3. /\ Only(store, store', {"jobs", "jobIdx"})
          /\ store'.jobs = [j \in DOMAIN store.jobs |->
                 IF j \in Unmarked(store, f) THEN [store.jobs[j] EXCEPT !.gone = TRUE] ELSE store.jobs[j]]
          /\ store'.jobIdx = IF Unmarked(store, f) = {} THEN store.jobIdx ELSE Touched(store.jobIdx)
      BY <1>1, <1>3, <2>1, WrittenMarkJobs
    <2>4. /\ store'.projects = store.projects /\ store'.projectIdx = store.projectIdx
          /\ UNCHANGED <<store.files, store.payloads, store.fileIdx>>
      BY <1>3, <2>3 DEF Only, StoreFields
    <2>5. /\ DOMAIN store'.jobs = DOMAIN store.jobs
          /\ \A j \in DOMAIN store.jobs : /\ store'.jobs[j].file = store.jobs[j].file
                                          /\ store'.jobs[j].status = store.jobs[j].status
      <3>1. \A j \in DOMAIN store.jobs : JobFields \subseteq DOMAIN store.jobs[j]
        BY DEF ControlInv, StoreShape
      <3>2. ASSUME NEW j \in DOMAIN store.jobs
            PROVE  store'.jobs[j].file = store.jobs[j].file /\ store'.jobs[j].status = store.jobs[j].status
        BY <2>3, <3>1 DEF JobFields
      <3> QED BY <2>3, <3>2
    <2>6. old' = old \ Unmarked(store, f)
      BY <1>1, <2>1, WFields
    <2>7. Unmarked(store, f) \cap DOMAIN store.files = {}
      BY <1>3 DEF Unmarked, StoreMaps
    <2>8. \A g : SourceInUse(store', g) <=> SourceInUse(store, g)
      BY <2>5 DEF SourceInUse
    <2>9. \A g : FileDue(g)' <=> FileDue(g)
      BY <2>4, <2>6, <2>7, <2>8 DEF FileDue
    <2>10. MarkedRight(store.jobIdx, store.jobs)'
      <3>1. CASE Unmarked(store, f) # {}
        BY <1>4, <2>3, <3>1, TouchedRight
      <3>2. CASE Unmarked(store, f) = {}
        <4>1. store'.jobs = [j \in DOMAIN store.jobs |-> store.jobs[j]]
          BY <2>3, <3>2
        <4>2. store'.jobs = store.jobs
          BY <1>3, <4>1 DEF StoreMaps, Mapping
        <4> QED BY <1>6, <2>3, <3>2, <4>2
      <3> QED BY <3>1, <3>2
    <2>11. NextOp = "markJobs" /\ NextId = f
      BY <1>7, <2>1
    <2> QED BY <1>6, <1>9, <2>2, <2>4, <2>9, <2>10, <2>11
  <1>11. CASE todo = MarksSyncNext(f)
    <2>1. Head(todo) = W("syncJobs", f) /\ todo' = MarkProjNext(f)
      BY <1>1, <1>11, FileRestMoves
    <2>2. NextOp' = "markProj" /\ NextId' = f /\ todo' # <<>>
      BY <2>1, FileRestMoves, WFields DEF NextOp, NextId
    <2>3. /\ Only(store, store', {"jobIdx"})
          /\ store'.jobIdx = Synced(store.jobIdx, store.jobs, TRUE)
      BY <1>1, <1>3, <1>5, <2>1, WrittenSync
    <2>4. /\ store'.jobs = store.jobs /\ store'.projectIdx = store.projectIdx /\ store'.projects = store.projects
          /\ UNCHANGED <<store.files, store.payloads, store.fileIdx>>
      BY <1>3, <2>3 DEF Only, StoreFields
    <2>5. NextOp = "syncJobs" /\ NextId = f /\ old' = old
      BY <1>7, <2>1
    <2>6. \A g : FileDue(g)' <=> FileDue(g)
      BY <2>4, <2>5 DEF FileDue, SourceInUse
    <2>7. MarkedRight(store.jobIdx, store.jobs)' /\ ~Stale(store.jobIdx, store.jobs)'
      BY <2>3, <2>4, SyncedRight
    <2> QED BY <1>6, <1>9, <2>2, <2>4, <2>5, <2>6, <2>7
  <1>12. CASE todo = MarkProjNext(f)
    <2>1. Head(todo) = W("markProj", f) /\ todo' = SnapsSyncNext(f)
      BY <1>1, <1>12, FileRestMoves
    <2>2. NextOp' = "syncProj" /\ NextId' = f /\ todo' # <<>>
      BY <2>1, FileRestMoves, WFields DEF NextOp, NextId
    <2> DEFINE some == \E p \in DOMAIN store.projects : \E n \in store.projects[p].snaps : n.file = f /\ ~n.gone
    <2>3. /\ Only(store, store', {"projects", "projectIdx"})
          /\ store'.projectIdx = IF some THEN Touched(store.projectIdx) ELSE store.projectIdx
      <3>1. store' = Written(store, W("markProj", f)) /\ StoreFields \subseteq DOMAIN store
        BY <1>1, <1>3, <2>1
      <3> QED BY <3>1, WrittenMarkProj, Zenon
    <2>4. ~some => store'.projects = store.projects
      BY <1>1, <1>3, <2>1, MarkProjShrinks DEF ControlInv
    <2> HIDE DEF some
    <2>5. /\ store'.jobs = store.jobs /\ store'.jobIdx = store.jobIdx
          /\ UNCHANGED <<store.files, store.payloads, store.fileIdx>>
      BY <1>3, <2>3 DEF Only, StoreFields
    <2>6. NextOp = "markProj" /\ NextId = f /\ old' = old
      BY <1>7, <2>1
    <2>7. \A g : FileDue(g)' <=> FileDue(g)
      BY <2>5, <2>6 DEF FileDue, SourceInUse
    <2>8. MarkedRight(store.projectIdx, store.projects)'
      <3>1. CASE some
        BY <1>4, <2>3, <3>1, TouchedRight
      <3>2. CASE ~some
        BY <1>6, <2>3, <2>4, <3>2
      <3> QED BY <3>1, <3>2
    <2> QED BY <1>6, <1>9, <2>2, <2>5, <2>6, <2>7, <2>8
  <1>13. CASE todo = SnapsSyncNext(f)
    <2>1. Head(todo) = W("syncProj", f) /\ todo' = PayloadNext(f)
      BY <1>1, <1>13, FileRestMoves
    <2>2. NextOp' = "payload" /\ NextId' = f /\ todo' # <<>>
      BY <2>1, FileRestMoves, WFields DEF NextOp, NextId
    <2>3. /\ Only(store, store', {"projectIdx"})
          /\ store'.projectIdx = Synced(store.projectIdx, store.projects, TRUE)
      BY <1>1, <1>3, <1>5, <2>1, WrittenSync
    <2>4. /\ store'.jobs = store.jobs /\ store'.jobIdx = store.jobIdx /\ store'.projects = store.projects
          /\ UNCHANGED <<store.files, store.payloads, store.fileIdx>>
      BY <1>3, <2>3 DEF Only, StoreFields
    <2>5. NextOp = "syncProj" /\ NextId = f /\ old' = old
      BY <1>7, <2>1
    <2>6. \A g : FileDue(g)' <=> FileDue(g)
      BY <2>4, <2>5 DEF FileDue, SourceInUse
    <2>7. MarkedRight(store.projectIdx, store.projects)' /\ ~Stale(store.projectIdx, store.projects)'
      BY <2>3, <2>4, SyncedRight
    <2> QED BY <1>6, <1>9, <2>2, <2>4, <2>5, <2>6, <2>7
  <1>14. CASE todo = PayloadNext(f)
    <2>1. Head(todo) = W("payload", f) /\ todo' = FileNext(f)
      BY <1>1, <1>14, FileRestMoves
    <2>2. NextOp' = "file" /\ NextId' = f /\ todo' # <<>>
      BY <2>1, FileRestMoves, WFields DEF NextOp, NextId
    <2>3. Only(store, store', {"payloads"}) /\ store'.payloads = Without(store.payloads, f)
      BY <1>1, <1>3, <2>1, WrittenPayload
    <2>4. /\ store'.jobs = store.jobs /\ store'.jobIdx = store.jobIdx /\ store'.projects = store.projects
          /\ store'.projectIdx = store.projectIdx /\ store'.files = store.files /\ store'.fileIdx = store.fileIdx
      BY <1>3, <2>3 DEF Only, StoreFields
    <2>5. NextOp = "payload" /\ NextId = f /\ old' = old
      BY <1>7, <2>1
    <2>6. /\ \A g : FileDue(g)' <=> FileDue(g)
          /\ \A g : Ours(g)' <=> Ours(g)
      BY <1>1, <2>4, <2>5 DEF FileDue, SourceInUse, Ours
    <2>7. /\ DOMAIN store'.payloads = DOMAIN store.payloads \ {f}
          /\ \A g \in DOMAIN store'.payloads : store'.payloads[g] = store.payloads[g]
      BY <2>3 DEF Without, Drop
    <2>8. FileDue(NextId)' /\ Ours(NextId)'
      BY <1>5, <2>2, <2>5, <2>6
    <2>9. \A g \in DOMAIN store'.files \ DOMAIN store'.payloads :
             FileDue(g)' /\ Ours(g)' /\ (g \in items \/ g = NextId' \/ "sources" \in failed)
      BY <1>5, <1>8, <2>2, <2>4, <2>5, <2>6, <2>7
    <2>10. /\ DOMAIN store'.payloads \subseteq DOMAIN store'.files
           /\ \A g \in DOMAIN store'.payloads : store'.payloads[g] = store'.files[g].sha
      BY <1>8, <2>4, <2>7
    <2>11. /\ MarkedRight(store.jobIdx, store.jobs)' /\ MarkedRight(store.projectIdx, store.projects)'
           /\ MarkedRight(store.fileIdx, store.files)' /\ ~Stale(store.jobIdx, store.jobs)'
           /\ ~Stale(store.projectIdx, store.projects)' /\ ~Stale(store.fileIdx, store.files)'
      BY <1>6, <2>4, <2>5
    <2>12. NextId' \notin DOMAIN store'.payloads
      BY <2>2, <2>7
    <2> QED BY <1>1, <1>5, <2>2, <2>5, <2>6, <2>8, <2>9, <2>10, <2>11, <2>12, SourcesGoOn
  <1>15. CASE todo = FileNext(f)
    <2>1. Head(todo) = W("file", f) /\ todo' = SyncFilesNext(f)
      BY <1>1, <1>15, FileRestMoves
    <2>2. NextOp' = "syncFiles" /\ NextId' = f /\ todo' # <<>>
      BY <2>1, FileRestMoves, WFields DEF NextOp, NextId
    <2>3. /\ Only(store, store', {"files", "fileIdx"}) /\ store'.files = Without(store.files, f)
          /\ store'.fileIdx = Touched(store.fileIdx)
      BY <1>1, <1>3, <2>1, WrittenFile
    <2>4. /\ store'.jobs = store.jobs /\ store'.jobIdx = store.jobIdx /\ store'.projects = store.projects
          /\ store'.projectIdx = store.projectIdx /\ store'.payloads = store.payloads
      BY <1>3, <2>3 DEF Only, StoreFields
    <2>5. NextOp = "file" /\ NextId = f /\ old' = old
      BY <1>7, <2>1
    <2>6. /\ DOMAIN store'.files = DOMAIN store.files \ {f}
          /\ \A g \in DOMAIN store'.files : store'.files[g] = store.files[g]
      BY <2>3 DEF Without, Drop
    <2>7. \A g \in DOMAIN store'.files : (FileDue(g) => FileDue(g)') /\ (Ours(g) => Ours(g)')
      BY <1>1, <2>4, <2>5, <2>6 DEF FileDue, SourceInUse, Ours
    <2>8. \A g \in items : FileDue(g)' /\ Ours(g)'
      BY <1>5, <2>5, <2>6, <2>7 DEF FileDue
    <2>9. \A g \in DOMAIN store'.files \ DOMAIN store'.payloads :
             FileDue(g)' /\ Ours(g)' /\ (g \in items \/ "sources" \in failed)
      BY <1>8, <2>4, <2>5, <2>6, <2>7
    <2>10. /\ DOMAIN store'.payloads \subseteq DOMAIN store'.files
           /\ \A g \in DOMAIN store'.payloads : store'.payloads[g] = store'.files[g].sha
      BY <1>5, <1>8, <2>4, <2>5, <2>6
    <2>11. /\ MarkedRight(store.jobIdx, store.jobs)' /\ MarkedRight(store.projectIdx, store.projects)'
           /\ ~Stale(store.jobIdx, store.jobs)' /\ ~Stale(store.projectIdx, store.projects)'
      BY <1>6, <2>4, <2>5
    <2>12. MarkedRight(store.fileIdx, store.files)'
      BY <1>4, <2>3, TouchedRight
    <2>13. NextId' \notin DOMAIN store'.files
      BY <2>2, <2>6
    <2> QED BY <1>1, <1>5, <2>2, <2>5, <2>8, <2>9, <2>10, <2>11, <2>12, <2>13, SourcesGoOn
  <1>16. CASE todo = SyncFilesNext(f)
    <2>1. Head(todo) = W("syncFiles", f) /\ todo' = <<>>
      BY <1>1, <1>16, FileRestMoves
    <2>2. NextOp' = "none"
      BY <2>1 DEF NextOp
    <2>3. /\ Only(store, store', {"fileIdx"})
          /\ store'.fileIdx = Synced(store.fileIdx, store.files, TRUE)
      BY <1>1, <1>3, <1>5, <2>1, WrittenSync
    <2>4. /\ store'.jobs = store.jobs /\ store'.jobIdx = store.jobIdx /\ store'.projects = store.projects
          /\ store'.projectIdx = store.projectIdx /\ store'.files = store.files /\ store'.payloads = store.payloads
      BY <1>3, <2>3 DEF Only, StoreFields
    <2>5. NextOp = "syncFiles" /\ NextId = f /\ old' = old
      BY <1>7, <2>1
    <2>6. /\ \A g : FileDue(g)' <=> FileDue(g)
          /\ \A g : Ours(g)' <=> Ours(g)
      BY <1>1, <2>4, <2>5 DEF FileDue, SourceInUse, Ours
    <2>7. \A g \in DOMAIN store'.files \ DOMAIN store'.payloads :
             FileDue(g)' /\ Ours(g)' /\ (g \in items \/ "sources" \in failed)
      BY <1>5, <1>8, <2>4, <2>5, <2>6
    <2>8. /\ DOMAIN store'.payloads \subseteq DOMAIN store'.files
          /\ \A g \in DOMAIN store'.payloads : store'.payloads[g] = store'.files[g].sha
      BY <1>8, <2>4
    <2>9. /\ MarkedRight(store.jobIdx, store.jobs)' /\ MarkedRight(store.projectIdx, store.projects)'
          /\ ~Stale(store.jobIdx, store.jobs)' /\ ~Stale(store.projectIdx, store.projects)'
      BY <1>6, <2>4, <2>5
    <2>10. MarkedRight(store.fileIdx, store.files)' /\ ~Stale(store.fileIdx, store.files)'
      BY <2>3, <2>4, SyncedRight
    <2> QED BY <1>1, <1>5, <2>1, <2>2, <2>6, <2>7, <2>8, <2>9, <2>10, SourcesGoOn
  <1> QED BY <1>2, <1>10, <1>11, <1>12, <1>13, <1>14, <1>15, <1>16 DEF FileRest

\* Every step keeps the bytes, the indexes and what is due.
LEMMA UpkeepStep ==
  ASSUME ControlInv, KeptInv, UpkeepInv, [Next]_vars
  PROVE  UpkeepInv'
  <1>1. CASE WriteStep
    BY <1>1, UpkeepWriteResults, UpkeepWriteSources, UpkeepWriteOther
  <1>2. CASE BeginClass
    BY <1>2, UpkeepBeginOther, UpkeepBeginResults, UpkeepBeginSources
  <1>3. CASE Crash
    <2>1. /\ phase' = "stopped" /\ rested' = FALSE /\ UNCHANGED <<store, old, intact>>
      BY <1>3 DEF Crash
    <2> QED BY <2>1, UpkeepDown DEF SameUpkeep
  <1>4. CASE LateWrite
    <2>1. UNCHANGED <<old, intact, phase, kind, current, items, todo, known, failed, rested>>
      BY <1>4 DEF LateWrite, Idle
    <2>2. SameUpkeep(store, store')
      <3>1. StoreFields \subseteq DOMAIN store
        BY DEF ControlInv, StoreShape
      <3>2. CASE \E j \in DOMAIN store.jobs : store' = [store EXCEPT !.advisories = @ \cup {j}]
        BY <3>1, <3>2 DEF StoreFields, SameUpkeep
      <3>3. CASE \E u \in store.auth.users : store' = [store EXCEPT !.auth.sessions = @ \cup {u}]
        BY <3>1, <3>3 DEF StoreFields, SameUpkeep
      <3> QED BY <1>4, <3>2, <3>3 DEF LateWrite
    <2> QED BY <2>1, <2>2, UpkeepQuiet
  <1>5. CASE \/ Tick \/ BackupBegin \/ BackupSeal \/ ToolFails \/ BundleDecays \/ RestoreBegin \/ RestoreCopy
             \/ RestorePublish \/ UNCHANGED vars
    <2>1. UNCHANGED <<store, old, intact, phase, kind, current, items, todo, known, failed, rested>>
      BY <1>5 DEF Tick, BackupBegin, BackupSeal, ToolFails, BundleDecays, RestoreBegin, RestoreCopy,
                  RestorePublish, vars, Idle
    <2> QED BY <2>1, UpkeepQuiet DEF SameUpkeep
  <1> QED BY <1>1, <1>2, <1>3, <1>4, <1>5, UpkeepStart, UpkeepStop, UpkeepTurn, UpkeepTake, UpkeepFail DEF Next

Rank(S, e) == Cardinality({x \in S : x <= e})

\* The numbers of a finite set are told apart by their rank, and every rank is taken.
LEMMA RanksTaken ==
  ASSUME NEW S, S \subseteq Int, IsFiniteSet(S)
  PROVE  /\ Cardinality(S) \in Nat
         /\ \A e \in S : Rank(S, e) \in 1..Cardinality(S)
         /\ \A e, f \in S : e < f => Rank(S, e) < Rank(S, f)
         /\ \A i \in 1..Cardinality(S) : \E e \in S : Rank(S, e) = i
  <1> DEFINE N == Cardinality(S)
  <1>1. N \in Nat
    BY FS_CardinalityType
  <1>2. ASSUME NEW e \in S
        PROVE  Rank(S, e) \in 1..N /\ IsFiniteSet({x \in S : x <= e})
    <2> DEFINE B == {x \in S : x <= e}
    <2>1. B \in SUBSET S /\ e \in B
      OBVIOUS
    <2>2. IsFiniteSet(B) /\ Cardinality(B) <= N
      BY <2>1, FS_Subset
    <2>3. Cardinality(B) \in Nat /\ Cardinality(B) # 0
      BY <2>1, <2>2, FS_CardinalityType, FS_EmptySet
    <2> QED BY <1>1, <2>2, <2>3 DEF Rank
  <1>9. \A e \in S : Rank(S, e) \in Int
    <2> TAKE e \in S
    <2>1. Rank(S, e) \in 1..N
      BY <1>2
    <2> QED BY <1>1, <2>1
  <1>3. ASSUME NEW e \in S, NEW f \in S, e < f
        PROVE  Rank(S, e) < Rank(S, f)
    <2> DEFINE B == {x \in S : x <= e}
               C == {x \in S : x <= f}
    <2>0. e \in Int /\ f \in Int /\ \A x \in S : x \in Int
      OBVIOUS
    <2>1. B \in SUBSET C /\ f \in C /\ f \notin B
      <3>1. \A x \in S : x <= e => x <= f
        BY <1>3, <2>0
      <3>2. B \subseteq C
        BY <3>1
      <3>3. f <= f /\ ~(f <= e)
        BY <1>3, <2>0
      <3> QED BY <3>2, <3>3
    <2>2. IsFiniteSet(C) /\ Cardinality(B) \in Nat /\ Cardinality(C) \in Nat
      BY <1>2 DEF Rank
    <2>3. Cardinality(B) <= Cardinality(C) /\ Cardinality(B) # Cardinality(C)
      BY <2>1, <2>2, FS_Subset
    <2> QED BY <2>2, <2>3 DEF Rank
  <1> DEFINE r == [e \in S |-> Rank(S, e)]
  <1>4. r \in Injection(S, 1..N)
    <2>1. r \in [S -> 1..N]
      BY <1>2
    <2>2. \A a, b \in S : r[a] = r[b] => a = b
      <3> TAKE a, b \in S
      <3>1. a \in Int /\ b \in Int /\ Rank(S, a) \in Int /\ Rank(S, b) \in Int
        BY <1>9
      <3>2. r[a] = Rank(S, a) /\ r[b] = Rank(S, b)
        OBVIOUS
      <3>3. CASE a < b
        BY <1>3, <3>1, <3>2, <3>3
      <3>4. CASE b < a
        BY <1>3, <3>1, <3>2, <3>4
      <3> QED BY <3>1, <3>3, <3>4
    <2> QED BY <2>1, <2>2, Fun_IsInj
  <1>5. IsFiniteSet(1..N) /\ Cardinality(1..N) = N
    BY <1>1, FS_Interval
  <1> HIDE DEF r
  <1>6. r \in Surjection(S, 1..N)
    BY <1>4, <1>5, FS_Injection
  <1>7. \A i \in 1..N : \E e \in S : r[e] = i
    BY <1>6, Fun_SurjectionProperties
  <1>8. \A i \in 1..N : \E e \in S : Rank(S, e) = i
    BY <1>7 DEF r
  <1> QED BY <1>1, <1>2, <1>3, <1>8

\* InOrder lists a finite set of numbers, all of them, in increasing order.
LEMMA InOrderLists ==
  ASSUME NEW S, S \subseteq Int, IsFiniteSet(S)
  PROVE  LET N == Cardinality(S)  q == InOrder(S) IN
         /\ N \in Nat /\ q \in [1..N -> S] /\ Len(q) = N
         /\ \A i, j \in 1..N : i < j => q[i] < q[j]
         /\ \A e \in S : \E i \in 1..N : q[i] = e
  <1> DEFINE N == Cardinality(S)
             q == InOrder(S)
  <1>1. /\ N \in Nat
        /\ \A e \in S : Rank(S, e) \in 1..N
        /\ \A e, f \in S : e < f => Rank(S, e) < Rank(S, f)
        /\ \A i \in 1..N : \E e \in S : Rank(S, e) = i
    BY RanksTaken
  <1>2. q = [i \in 1..N |-> CHOOSE e \in S : Rank(S, e) = i]
    BY DEF InOrder, Rank
  <1> HIDE DEF q, N
  <1>3. \A i \in 1..N : q[i] \in S /\ Rank(S, q[i]) = i
    BY <1>1, <1>2
  <1>4. q \in [1..N -> S] /\ Len(q) = N
    <2>1. q \in [1..N -> S]
      BY <1>2, <1>3
    <2>2. q \in Seq(S)
      BY <1>1, <2>1
    <2> QED BY <1>1, <2>1, <2>2
  <1>5. \A e \in S : e \in Int /\ Rank(S, e) \in Int
    BY <1>1
  <1>6. ASSUME NEW i \in 1..N, NEW j \in 1..N, i < j
        PROVE  q[i] < q[j]
    <2>1. q[i] \in S /\ q[j] \in S /\ Rank(S, q[i]) = i /\ Rank(S, q[j]) = j
      BY <1>3
    <2>2. q[i] \in Int /\ q[j] \in Int /\ i \in Int /\ j \in Int
      BY <1>1, <1>5, <2>1
    <2>3. CASE q[j] < q[i]
      <3>1. j < i
        BY <1>1, <2>1, <2>3
      <3> QED BY <1>6, <2>2, <3>1
    <2>4. CASE q[j] = q[i]
      BY <1>6, <2>1, <2>2, <2>4
    <2> QED BY <2>2, <2>3, <2>4
  <1>7. ASSUME NEW e \in S
        PROVE  \E i \in 1..N : q[i] = e
    <2>1. PICK i \in 1..N : i = Rank(S, e)
      BY <1>1
    <2>2. q[i] \in S /\ Rank(S, q[i]) = Rank(S, e)
      BY <1>3, <2>1
    <2>3. q[i] \in Int /\ e \in Int /\ Rank(S, e) \in Int
      BY <1>5, <2>2
    <2>4. ~(q[i] < e) /\ ~(e < q[i])
      BY <1>1, <2>2, <2>3
    <2> QED BY <2>3, <2>4
  <1> QED BY <1>1, <1>4, <1>6, <1>7 DEF q, N

\* A finite set of numbers that is not empty has a greatest element.
LEMMA Greatest ==
  ASSUME NEW S, S \subseteq Int, IsFiniteSet(S), S # {}
  PROVE  \E m \in S : \A x \in S : x <= m
  <1> DEFINE N == Cardinality(S)
  <1>1. N \in Nat /\ \A i \in 1..N : \E e \in S : Rank(S, e) = i
    BY RanksTaken
  <1>2. N # 0
    BY FS_EmptySet
  <1>3. PICK m \in S : Rank(S, m) = N
    BY <1>1, <1>2
  <1>4. {x \in S : x <= m} = S
    <2>1. {x \in S : x <= m} \in SUBSET S
      OBVIOUS
    <2> QED BY <1>3, <2>1, FS_Subset DEF Rank
  <1> QED BY <1>4

Bodies == {"full", "anonymous"}
Link == (Nat \X Nat \X Nat \X Bodies) \cup {"rotation"}
Digest == Seq(Link)
StateFields == {"gen", "parent", "anchor", "anchorDigest", "head", "headDigest", "count"}

StateType(t) ==
    /\ StateFields \subseteq DOMAIN t
    /\ t.gen \in Nat \ {0} /\ t.anchor \in Nat /\ t.head \in Nat /\ t.count \in Int
    /\ t.parent \in Digest /\ t.anchorDigest \in Digest /\ t.headDigest \in Digest

(* The events are numbered up to k. *)
EventsType(ev, k) == ev \in [DOMAIN ev -> Bodies] /\ DOMAIN ev \subseteq 1..k

EntriesType(en, k) ==
    /\ en = [n \in DOMAIN en |-> en[n]]
    /\ DOMAIN en \subseteq Nat
    /\ \A n \in DOMAIN en : en[n].event \in 1..k /\ en[n].digest \in Digest
    /\ \A n, m \in DOMAIN en : n < m => en[n].event < en[m].event

(* validate_product_audit_integrity_directory, of events, entries and state. *)
Chain(ev, en, t) ==
    /\ ValidChainState(t)
    /\ DOMAIN en = (t.anchor + 1)..t.head
    /\ \A n \in DOMAIN en :
          /\ en[n].event \in DOMAIN ev
          /\ en[n] = ChainEntry(t.gen, n, en[n].event, ev[en[n].event],
                                IF n = t.anchor + 1 THEN t.anchorDigest ELSE en[n - 1].digest)
    /\ {en[n].event : n \in DOMAIN en} = DOMAIN ev
    /\ t.headDigest = IF t.count = 0 THEN t.anchorDigest ELSE en[t.head].digest

\* A ledger verifies when it is there and its entries chain its events.
LEMMA ValidIsChain ==
  ASSUME NEW a
  PROVE  ValidLedger(a) <=> a.dir # None /\ Chain(a.events, a.dir.entries, a.dir.state)
  BY DEF ValidLedger, Chain

\* The fields of a chain entry.
LEMMA EntryIs ==
  ASSUME NEW g, NEW n, NEW e, NEW b, NEW p
  PROVE  LET c == ChainEntry(g, n, e, b, p) IN
         /\ c.gen = g /\ c.event = e /\ c.body = b /\ c.previous = p
         /\ c.digest = Append(p, <<g, n, e, b>>)
  BY DEF ChainEntry

\* The digest of an entry is a digest, and not that of nothing.
LEMMA DigestGrows ==
  ASSUME NEW p \in Digest, NEW g \in Nat, NEW n \in Nat, NEW e \in Nat, NEW b \in Bodies
  PROVE  Append(p, <<g, n, e, b>>) \in Digest /\ Append(p, <<g, n, e, b>>) # <<>>
  <1>1. <<g, n, e, b>> \in Link
    BY DEF Link
  <1> QED BY <1>1 DEF Digest

\* Removing the expired prefix of a valid chain, state first, leaves a valid chain.
LEMMA PurgeChain ==
  ASSUME NEW k \in Nat, NEW ev, EventsType(ev, k), NEW en, EntriesType(en, k), NEW t, StateType(t),
         Chain(ev, en, t), NEW gone, gone # {}, gone \subseteq DOMAIN en,
         \A n \in gone : \A m \in DOMAIN en : m <= n => m \in gone
  PROVE  LET u == PurgedState(t, en, gone) IN
         /\ StateType(u)
         /\ Chain(Drop(ev, {en[n].event : n \in gone}), Drop(en, gone), u)
  <1> DEFINE last == CHOOSE n \in gone : \A m \in gone : m <= n
             u == PurgedState(t, en, gone)
  <1>1. t.anchor \in Nat /\ t.head \in Nat /\ DOMAIN en = (t.anchor + 1)..t.head
    BY DEF StateType, Chain
  <1>2. gone \subseteq Int /\ IsFiniteSet(gone)
    <2>0. t.anchor + 1 \in Int /\ t.head \in Int
      BY <1>1
    <2>1. IsFiniteSet(DOMAIN en)
      BY <1>1, <2>0, FS_Interval
    <2> QED BY <1>1, <2>1, FS_Subset
  <1>3. last \in gone /\ \A m \in gone : m <= last
    BY <1>2, Greatest
  <1> HIDE DEF last
  <1>4. last \in (t.anchor + 1)..t.head /\ last \in Nat
    BY <1>1, <1>3
  <1>5. gone = (t.anchor + 1)..last
    <2>1. \A m \in (t.anchor + 1)..last : m \in DOMAIN en /\ m <= last
      BY <1>1, <1>4
    <2>2. \A m \in gone : m \in (t.anchor + 1)..last
      BY <1>1, <1>2, <1>3, <1>4
    <2> QED BY <1>3, <2>1, <2>2
  <1>6. Cardinality(gone) = last - t.anchor
    <2>1. t.anchor + 1 \in Int /\ last \in Int /\ ~(t.anchor + 1 > last)
      BY <1>1, <1>4
    <2>2. Cardinality((t.anchor + 1)..last) = last - (t.anchor + 1) + 1
      BY <2>1, FS_Interval
    <2> QED BY <1>1, <1>4, <1>5, <2>2
  <1>7. u = [t EXCEPT !.anchor = last, !.anchorDigest = en[last].digest,
                      !.count = t.count - Cardinality(gone)]
    BY DEF PurgedState, last
  <1> HIDE DEF u
  <1>8. /\ StateFields \subseteq DOMAIN u
        /\ u.gen = t.gen /\ u.parent = t.parent /\ u.anchor = last /\ u.anchorDigest = en[last].digest
        /\ u.head = t.head /\ u.headDigest = t.headDigest /\ u.count = t.count - (last - t.anchor)
    BY <1>6, <1>7 DEF StateType, StateFields
  <1>9. en[last].digest \in Digest
    BY <1>3 DEF EntriesType
  <1>10. StateType(u)
    BY <1>1, <1>4, <1>8, <1>9 DEF StateType
  <1>11. t.count = t.head - t.anchor /\ t.headDigest = en[t.head].digest /\ u.count = t.head - last
    BY <1>1, <1>4, <1>8 DEF Chain, ValidChainState
  <1>12. ValidChainState(u)
    <2>1. u.anchor \in 0..u.head /\ u.count = u.head - u.anchor
      BY <1>1, <1>4, <1>8, <1>11
    <2>2. u.count = 0 => u.headDigest = u.anchorDigest
      BY <1>1, <1>4, <1>8, <1>11
    <2>3. u.anchor # 0
      BY <1>1, <1>4, <1>8
    <2> QED BY <2>1, <2>2, <2>3 DEF ValidChainState
  <1> DEFINE fv == Drop(ev, {en[n].event : n \in gone})
             fn == Drop(en, gone)
  <1>13. DOMAIN fn = (u.anchor + 1)..u.head /\ \A n \in DOMAIN fn : fn[n] = en[n] /\ n \in DOMAIN en /\ n \notin gone
    <2>1. DOMAIN fn = DOMAIN en \ gone /\ \A n \in DOMAIN fn : fn[n] = en[n] /\ n \in DOMAIN en /\ n \notin gone
      BY DEF Drop
    <2>2. ((t.anchor + 1)..t.head) \ ((t.anchor + 1)..last) = (last + 1)..t.head
      BY <1>1, <1>4
    <2> QED BY <1>1, <1>5, <1>8, <2>1, <2>2
  <1>14. \A n, m \in DOMAIN en : en[n].event = en[m].event => n = m
    <2> TAKE n, m \in DOMAIN en
    <2>1. n \in Int /\ m \in Int /\ en[n].event \in Int /\ en[m].event \in Int
      BY DEF EntriesType
    <2>2. n < m => en[n].event < en[m].event
      BY DEF EntriesType
    <2>3. m < n => en[m].event < en[n].event
      BY DEF EntriesType
    <2> QED BY <2>1, <2>2, <2>3
  <1>15. DOMAIN fv = DOMAIN ev \ {en[n].event : n \in gone} /\ \A e \in DOMAIN fv : fv[e] = ev[e]
    BY DEF Drop
  <1>16. \A n \in DOMAIN fn : fn[n].event \in DOMAIN fv
    <2> TAKE n \in DOMAIN fn
    <2>1. fn[n] = en[n] /\ n \in DOMAIN en /\ n \notin gone
      BY <1>13
    <2>2. en[n].event \in DOMAIN ev
      BY <2>1 DEF Chain
    <2>3. \A m \in gone : en[n].event # en[m].event
      BY <1>14, <2>1
    <2> QED BY <1>15, <2>1, <2>2, <2>3
  <1>17. {fn[n].event : n \in DOMAIN fn} = DOMAIN fv
    <2>1. ASSUME NEW e \in DOMAIN fv
          PROVE  \E n \in DOMAIN fn : fn[n].event = e
      <3>1. e \in DOMAIN ev /\ e \notin {en[n].event : n \in gone}
        BY <1>15
      <3>2. PICK n \in DOMAIN en : en[n].event = e
        BY <3>1 DEF Chain
      <3>3. n \in DOMAIN fn
        BY <3>1, <3>2 DEF Drop
      <3> QED BY <1>13, <3>2, <3>3
    <2> QED BY <1>16, <2>1
  <1>18. ASSUME NEW n \in DOMAIN fn
         PROVE  fn[n] = ChainEntry(u.gen, n, fn[n].event, fv[fn[n].event],
                                   IF n = u.anchor + 1 THEN u.anchorDigest ELSE fn[n - 1].digest)
    <2>1. fn[n] = en[n] /\ n \in DOMAIN en /\ n \in (last + 1)..t.head
      BY <1>8, <1>13
    <2>2. en[n] = ChainEntry(t.gen, n, en[n].event, ev[en[n].event],
                             IF n = t.anchor + 1 THEN t.anchorDigest ELSE en[n - 1].digest)
      BY <2>1 DEF Chain
    <2>3. n # t.anchor + 1
      BY <1>1, <1>4, <2>1
    <2>4. fv[fn[n].event] = ev[en[n].event]
      BY <1>15, <1>16, <2>1
    <2>5. CASE n = last + 1
      <3>1. n - 1 = last
        BY <1>4, <2>5
      <3> QED BY <1>8, <2>1, <2>2, <2>3, <2>4, <2>5, <3>1
    <2>6. CASE n # last + 1
      <3>1. n - 1 \in DOMAIN fn
        BY <1>1, <1>4, <1>8, <1>13, <2>1, <2>6
      <3>2. fn[n - 1] = en[n - 1]
        BY <1>13, <3>1
      <3> QED BY <1>8, <2>1, <2>2, <2>3, <2>4, <2>6, <3>2
    <2> QED BY <2>5, <2>6
  <1>19. u.headDigest = IF u.count = 0 THEN u.anchorDigest ELSE fn[u.head].digest
    <2>1. CASE u.count = 0
      BY <1>12, <2>1 DEF ValidChainState
    <2>2. CASE u.count # 0
      <3>1. u.head \in DOMAIN fn
        BY <1>1, <1>4, <1>8, <1>11, <1>13, <2>2
      <3> QED BY <1>8, <1>11, <1>13, <2>2, <3>1
    <2> QED BY <2>1, <2>2
  <1> HIDE DEF fv, fn
  <1>20. Chain(fv, fn, u)
    BY <1>12, <1>13, <1>16, <1>17, <1>18, <1>19 DEF Chain
  <1> QED BY <1>10, <1>20 DEF u, fv, fn

\* Appending an event later than all others to a valid chain leaves a valid chain.
LEMMA AppendChain ==
  ASSUME NEW k \in Nat, NEW ev, EventsType(ev, k), NEW en, EntriesType(en, k), NEW t, StateType(t),
         Chain(ev, en, t), k \notin DOMAIN ev, k > 0,
         NEW fv, fv = With(ev, k, "full"),
         NEW fn, fn = With(en, t.head + 1, AppendedEntry(t, k, "full"))
  PROVE  LET u == AppendedState(t, k, "full") IN
         StateType(u) /\ EntriesType(fn, k) /\ EventsType(fv, k) /\ Chain(fv, fn, u)
  <1> DEFINE new == AppendedEntry(t, k, "full")
             u == AppendedState(t, k, "full")
             h == t.head + 1
  <1>1. t.anchor \in Nat /\ t.head \in Nat /\ t.gen \in Nat /\ h \in Nat /\ DOMAIN en = (t.anchor + 1)..t.head
    BY DEF StateType, Chain
  <1>2. /\ new.event = k /\ new.digest = Append(t.headDigest, <<t.gen, h, k, "full">>)
        /\ new = ChainEntry(t.gen, h, k, "full", t.headDigest)
    BY EntryIs DEF AppendedEntry
  <1>3. new.digest \in Digest
    BY <1>1, <1>2, DigestGrows DEF StateType, Bodies
  <1>4. u = [t EXCEPT !.head = h, !.headDigest = new.digest, !.count = t.count + 1]
    BY DEF AppendedState
  <1> HIDE DEF u, new
  <1>5. /\ StateFields \subseteq DOMAIN u
        /\ u.gen = t.gen /\ u.parent = t.parent /\ u.anchor = t.anchor /\ u.anchorDigest = t.anchorDigest
        /\ u.head = h /\ u.headDigest = new.digest /\ u.count = t.count + 1
    BY <1>4 DEF StateType, StateFields
  <1>6. StateType(u)
    BY <1>1, <1>3, <1>5 DEF StateType
  <1>7. t.anchor \in 0..t.head /\ t.count = t.head - t.anchor
    BY DEF Chain, ValidChainState
  <1>8. ValidChainState(u)
    <2>1. u.anchor \in 0..u.head /\ u.count = u.head - u.anchor /\ u.count # 0
      BY <1>1, <1>5, <1>7
    <2> QED BY <1>5, <2>1 DEF Chain, ValidChainState
  <1>9. h \notin DOMAIN en /\ DOMAIN en \cup {h} = (u.anchor + 1)..u.head
    BY <1>1, <1>5, <1>7
  <1>10. /\ DOMAIN fn = (u.anchor + 1)..u.head /\ fn[h] = new /\ h \in DOMAIN fn
         /\ \A n \in DOMAIN en : n \in DOMAIN fn /\ fn[n] = en[n]
         /\ \A n \in DOMAIN fn : n \in DOMAIN en \/ n = h
         /\ fn = [n \in DOMAIN fn |-> fn[n]]
    BY <1>9 DEF With, new
  <1>11. /\ DOMAIN fv = DOMAIN ev \cup {k} /\ fv[k] = "full" /\ \A e \in DOMAIN ev : fv[e] = ev[e]
         /\ fv = [e \in DOMAIN fv |-> fv[e]]
    BY DEF With
  <1>12. EventsType(fv, k)
    BY <1>11 DEF EventsType, Bodies
  <1>13. \A n \in DOMAIN en : en[n].event \in DOMAIN ev /\ en[n].event \in 1..k /\ en[n].event < k
    <2> TAKE n \in DOMAIN en
    <2>1. en[n].event \in DOMAIN ev /\ en[n].event \in 1..k
      BY DEF Chain, EntriesType
    <2>2. en[n].event # k
      BY <2>1
    <2> QED BY <2>1, <2>2
  <1>14. EntriesType(fn, k)
    <2>1. DOMAIN fn \subseteq Nat
      BY <1>1, <1>5, <1>10
    <2>2. \A n \in DOMAIN fn : fn[n].event \in 1..k /\ fn[n].digest \in Digest
      <3> TAKE n \in DOMAIN fn
      <3>1. CASE n \in DOMAIN en
        <4>1. en[n].event \in 1..k /\ en[n].digest \in Digest
          BY <3>1 DEF EntriesType
        <4> QED BY <1>10, <3>1, <4>1
      <3>2. CASE n = h
        <4>1. fn[n] = new
          BY <1>10, <3>2
        <4>2. new.event = k /\ k \in 1..k
          BY <1>2
        <4> QED BY <1>3, <4>1, <4>2
      <3> QED BY <1>10, <3>1, <3>2
    <2>3. \A n, m \in DOMAIN fn : n < m => fn[n].event < fn[m].event
      <3> TAKE n, m \in DOMAIN fn
      <3> HAVE n < m
      <3>1. n \in DOMAIN en
        BY <1>1, <1>10, <2>1
      <3>2. CASE m \in DOMAIN en
        BY <1>10, <3>1, <3>2 DEF EntriesType
      <3>3. CASE m = h
        BY <1>2, <1>10, <1>13, <3>1, <3>3
      <3> QED BY <1>10, <3>2, <3>3
    <2> QED BY <1>10, <2>1, <2>2, <2>3 DEF EntriesType
  <1>15. ASSUME NEW n \in DOMAIN fn
         PROVE  /\ fn[n].event \in DOMAIN fv
                /\ fn[n] = ChainEntry(u.gen, n, fn[n].event, fv[fn[n].event],
                                      IF n = u.anchor + 1 THEN u.anchorDigest ELSE fn[n - 1].digest)
    <2>1. CASE n \in DOMAIN en
      <3>1. fn[n] = en[n] /\ en[n].event \in DOMAIN ev /\ fv[en[n].event] = ev[en[n].event]
        BY <1>10, <1>11, <1>13, <2>1
      <3>2. en[n] = ChainEntry(t.gen, n, en[n].event, ev[en[n].event],
                               IF n = t.anchor + 1 THEN t.anchorDigest ELSE en[n - 1].digest)
        BY <2>1 DEF Chain
      <3>3. n # t.anchor + 1 => fn[n - 1] = en[n - 1]
        BY <1>1, <1>10, <2>1
      <3> QED BY <1>5, <1>11, <3>1, <3>2, <3>3
    <2>2. CASE n = h
      <3>1. fn[n] = new /\ new.event = k /\ fv[k] = "full" /\ k \in DOMAIN fv
        BY <1>2, <1>10, <1>11, <2>2
      <3>2. t.headDigest = IF n = u.anchor + 1 THEN u.anchorDigest ELSE fn[n - 1].digest
        <4>1. CASE t.count = 0
          <5>1. t.headDigest = t.anchorDigest /\ n = u.anchor + 1
            BY <1>1, <1>5, <1>7, <2>2, <4>1 DEF Chain
          <5> QED BY <1>5, <5>1
        <4>2. CASE t.count # 0
          <5>1. t.headDigest = en[t.head].digest
            BY <4>2 DEF Chain
          <5>2. n # u.anchor + 1 /\ n - 1 = t.head /\ t.head \in DOMAIN en
            BY <1>1, <1>5, <1>7, <2>2, <4>2
          <5> QED BY <1>10, <5>1, <5>2
        <4> QED BY <4>1, <4>2
      <3> QED BY <1>2, <1>5, <2>2, <3>1, <3>2
    <2> QED BY <1>10, <2>1, <2>2
  <1>16. {fn[n].event : n \in DOMAIN fn} = DOMAIN fv
    <2>1. ASSUME NEW e \in DOMAIN fv
          PROVE  \E n \in DOMAIN fn : fn[n].event = e
      <3>1. CASE e = k
        BY <1>2, <1>10, <3>1
      <3>2. CASE e \in DOMAIN ev
        <4>1. PICK n \in DOMAIN en : en[n].event = e
          BY <3>2 DEF Chain
        <4> QED BY <1>10, <4>1
      <3> QED BY <1>11, <3>1, <3>2
    <2>2. \A n \in DOMAIN fn : fn[n].event \in DOMAIN fv
      BY <1>15
    <2> QED BY <2>1, <2>2
  <1>17. u.headDigest = IF u.count = 0 THEN u.anchorDigest ELSE fn[u.head].digest
    BY <1>1, <1>5, <1>7, <1>10
  <1>18. Chain(fv, fn, u)
    BY <1>8, <1>10, <1>15, <1>16, <1>17 DEF Chain
  <1> QED BY <1>6, <1>12, <1>14, <1>18 DEF u

\* A list extended by one element.
LEMMA ListGrows ==
  ASSUME NEW S, NEW p \in Seq(S), NEW N \in Nat, NEW b \in [1..N -> S], NEW n \in 1..N
  PROVE  /\ p \o [i \in 1..n |-> b[i]] = Append(p \o [i \in 1..(n - 1) |-> b[i]], b[n])
         /\ p \o [i \in 1..n |-> b[i]] \in Seq(S)
         /\ p \o [i \in 1..(n - 1) |-> b[i]] \in Seq(S)
  <1> DEFINE f == [i \in 1..n |-> b[i]]
             g == [i \in 1..(n - 1) |-> b[i]]
  <1>1. n \in Nat /\ n - 1 \in Nat
    OBVIOUS
  <1>2. f \in Seq(S) /\ Len(f) = n
    BY <1>1
  <1>3. g \in Seq(S) /\ Len(g) = n - 1
    BY <1>1
  <1>4. \A i \in 1..n : f[i] = b[i]
    OBVIOUS
  <1>5. \A i \in 1..(n - 1) : g[i] = b[i]
    OBVIOUS
  <1> HIDE DEF f, g
  <1>6. b[n] \in S
    OBVIOUS
  <1>7. p \o f \in Seq(S) /\ p \o g \in Seq(S) /\ Append(p \o g, b[n]) \in Seq(S)
    BY <1>2, <1>3, <1>6
  <1>8. Len(p \o f) = Len(p) + n /\ Len(Append(p \o g, b[n])) = Len(p) + n /\ Len(p) \in Nat
    <2>1. Len(p \o f) = Len(p) + Len(f) /\ Len(p \o g) = Len(p) + Len(g) /\ Len(p) \in Nat
      BY <1>2, <1>3, ConcatProperties, LenProperties
    <2>2. Len(Append(p \o g, b[n])) = Len(p \o g) + 1
      BY <1>6, <1>7
    <2> QED BY <1>1, <1>2, <1>3, <2>1, <2>2
  <1>9. \A i \in 1..(Len(p) + n) : (p \o f)[i] = Append(p \o g, b[n])[i]
    <2> TAKE i \in 1..(Len(p) + n)
    <2>1. CASE i <= Len(p)
      BY <1>1, <1>2, <1>3, <1>6, <1>7, <1>8, <2>1
    <2>2. CASE i > Len(p) /\ i < Len(p) + n
      <3>1. i - Len(p) \in 1..(n - 1) /\ i - Len(p) \in 1..n
        BY <1>1, <1>8, <2>2
      <3> QED BY <1>1, <1>2, <1>3, <1>4, <1>5, <1>6, <1>7, <1>8, <2>2, <3>1
    <2>3. CASE i = Len(p) + n
      BY <1>1, <1>2, <1>3, <1>4, <1>6, <1>7, <1>8, <2>3
    <2> QED BY <1>8, <2>1, <2>2, <2>3
  <1>10. p \o f = Append(p \o g, b[n])
    <2> DEFINE v == p \o f
               w == Append(p \o g, b[n])
    <2>1. v \in Seq(S) /\ w \in Seq(S) /\ Len(v) = Len(w) /\ \A i \in 1..Len(v) : v[i] = w[i]
      BY <1>7, <1>8, <1>9
    <2> HIDE DEF v, w
    <2>2. v = w
      BY <2>1, SeqEqual
    <2> QED BY <2>2 DEF v, w
  <1> QED BY <1>7, <1>10 DEF f, g

\* The digest of nothing or of a rotated ledger starts a chain.
Starts(g, parent, anchor) ==
    \/ g = 1 /\ parent = ChainZero /\ anchor = ChainZero
    \/ g > 1 /\ parent # ChainZero /\ anchor = RotationSeed(parent)

\* A ledger built over the event files is a valid chain.
LEMMA BuildChain ==
  ASSUME NEW k \in Nat, NEW ev, EventsType(ev, k), NEW g \in Nat \ {0}, NEW parent \in Digest,
         NEW anchor \in Digest, Starts(g, parent, anchor)
  PROVE  LET d == BuildTree(ev, g, parent, anchor) IN
         /\ DOMAIN d = {"entries", "state"}
         /\ StateType(d.state) /\ EntriesType(d.entries, k) /\ Chain(ev, d.entries, d.state)
  <1> DEFINE S == DOMAIN ev
             N == Cardinality(S)
             q == InOrder(S)
             b == [i \in 1..N |-> <<g, i, q[i], ev[q[i]]>>]
             chain(n) == anchor \o [i \in 1..n |-> <<g, i, q[i], ev[q[i]]>>]
             d == BuildTree(ev, g, parent, anchor)
  <1>1. S \subseteq Int /\ IsFiniteSet(S) /\ S \subseteq Nat
    <2>1. IsFiniteSet(1..k)
      BY FS_Interval
    <2> QED BY <2>1, FS_Subset DEF EventsType
  <1>2. /\ N \in Nat /\ q \in [1..N -> S] /\ Len(q) = N
        /\ \A i, j \in 1..N : i < j => q[i] < q[j]
        /\ \A e \in S : \E i \in 1..N : q[i] = e
    BY <1>1, InOrderLists
  <1>3. d = [entries |-> [n \in 1..Len(q) |-> ChainEntry(g, n, q[n], ev[q[n]], chain(n - 1))],
             state |-> [gen |-> g, parent |-> parent, anchor |-> 0, anchorDigest |-> anchor,
                        head |-> Len(q), headDigest |-> chain(Len(q)), count |-> Len(q)]]
    BY DEF BuildTree
  <1> HIDE DEF q, d, N
  <1>4. \A i \in 1..N : i \in Nat /\ q[i] \in S /\ q[i] \in Nat /\ ev[q[i]] \in Bodies
    BY <1>1, <1>2 DEF EventsType
  <1>5. b \in [1..N -> Link]
    BY <1>4 DEF Link
  <1>6. \A n \in 0..N : chain(n) = anchor \o [i \in 1..n |-> b[i]]
    <2> TAKE n \in 0..N
    <2>1. \A i \in 1..n : i \in 1..N
      BY <1>2
    <2>2. [i \in 1..n |-> b[i]] = [i \in 1..n |-> <<g, i, q[i], ev[q[i]]>>]
      BY <2>1
    <2> QED BY <2>2
  <1>7. ASSUME NEW n \in 1..N
        PROVE  /\ chain(n) = Append(chain(n - 1), <<g, n, q[n], ev[q[n]]>>)
               /\ chain(n) \in Digest /\ chain(n - 1) \in Digest
    <2>1. n \in 0..N /\ n - 1 \in 0..N
      BY <1>2
    <2>2. b[n] = <<g, n, q[n], ev[q[n]]>>
      OBVIOUS
    <2> HIDE DEF b
    <2>3. /\ anchor \o [i \in 1..n |-> b[i]] = Append(anchor \o [i \in 1..(n - 1) |-> b[i]], b[n])
          /\ anchor \o [i \in 1..n |-> b[i]] \in Digest
          /\ anchor \o [i \in 1..(n - 1) |-> b[i]] \in Digest
      BY <1>2, <1>5, ListGrows DEF Digest
    <2>4. chain(n) = anchor \o [i \in 1..n |-> b[i]] /\ chain(n - 1) = anchor \o [i \in 1..(n - 1) |-> b[i]]
      BY <1>6, <2>1
    <2> HIDE DEF chain
    <2> QED BY <2>2, <2>3, <2>4
  <1>8. chain(0) = anchor
    <2>1. [i \in 1..0 |-> <<g, i, q[i], ev[q[i]]>>] = <<>>
      OBVIOUS
    <2> QED BY <2>1, ConcatEmptySeq DEF Digest
  <1> HIDE DEF chain, b
  <1> DEFINE en == d.entries
             t == d.state
  <1>9. /\ DOMAIN d = {"entries", "state"}
        /\ en = [n \in 1..N |-> ChainEntry(g, n, q[n], ev[q[n]], chain(n - 1))]
        /\ t = [gen |-> g, parent |-> parent, anchor |-> 0, anchorDigest |-> anchor,
                head |-> N, headDigest |-> chain(N), count |-> N]
    BY <1>2, <1>3
  <1> HIDE DEF en, t
  <1>10. chain(N) \in Digest
    <2>1. CASE N = 0
      BY <1>8, <2>1
    <2>2. CASE N # 0
      BY <1>2, <1>7, <2>2
    <2> QED BY <2>1, <2>2
  <1>11. StateType(t)
    BY <1>2, <1>9, <1>10 DEF StateType, StateFields
  <1>12. DOMAIN en = 1..N /\ \A n \in 1..N : /\ en[n] = ChainEntry(g, n, q[n], ev[q[n]], chain(n - 1))
                                            /\ en[n].event = q[n] /\ en[n].digest = chain(n)
    <2>1. DOMAIN en = 1..N /\ \A n \in 1..N : en[n] = ChainEntry(g, n, q[n], ev[q[n]], chain(n - 1))
      BY <1>9
    <2>2. \A n \in 1..N : en[n].event = q[n] /\ en[n].digest = chain(n)
      <3> TAKE n \in 1..N
      <3>1. en[n].event = q[n] /\ en[n].digest = Append(chain(n - 1), <<g, n, q[n], ev[q[n]]>>)
        BY <2>1, EntryIs
      <3> QED BY <1>7, <3>1
    <2> QED BY <2>1, <2>2
  <1>13. EntriesType(en, k)
    <2>1. en = [n \in DOMAIN en |-> en[n]] /\ DOMAIN en \subseteq Nat
      BY <1>2, <1>9
    <2>2. \A n \in DOMAIN en : en[n].event \in 1..k /\ en[n].digest \in Digest
      <3> TAKE n \in DOMAIN en
      <3>1. n \in 1..N /\ en[n].event = q[n] /\ en[n].digest = chain(n)
        BY <1>12
      <3>2. q[n] \in 1..k
        BY <1>4, <3>1 DEF EventsType
      <3> QED BY <1>7, <3>1, <3>2
    <2>3. \A n, m \in DOMAIN en : n < m => en[n].event < en[m].event
      <3> TAKE n, m \in DOMAIN en
      <3>1. n \in 1..N /\ m \in 1..N /\ en[n].event = q[n] /\ en[m].event = q[m]
        BY <1>12
      <3> QED BY <1>2, <3>1
    <2> QED BY <2>1, <2>2, <2>3 DEF EntriesType
  <1>14. Chain(ev, en, t)
    <2>1. ValidChainState(t)
      BY <1>2, <1>8, <1>9 DEF ValidChainState, Starts
    <2>2. DOMAIN en = (t.anchor + 1)..t.head
      BY <1>9, <1>12
    <2>3. ASSUME NEW n \in DOMAIN en
          PROVE  /\ en[n].event \in DOMAIN ev
                 /\ en[n] = ChainEntry(t.gen, n, en[n].event, ev[en[n].event],
                                       IF n = t.anchor + 1 THEN t.anchorDigest ELSE en[n - 1].digest)
      <3>1. en[n].event = q[n] /\ q[n] \in DOMAIN ev
        BY <1>4, <1>12
      <3>2. t.gen = g /\ t.anchor = 0 /\ t.anchorDigest = anchor
        BY <1>9
      <3>3. chain(n - 1) = IF n = 1 THEN anchor ELSE en[n - 1].digest
        <4>1. CASE n = 1
          BY <1>8, <4>1
        <4>2. CASE n # 1
          <5>1. n - 1 \in 1..N
            BY <1>2, <1>12, <4>2
          <5> QED BY <1>12, <4>2, <5>1
        <4> QED BY <4>1, <4>2
      <3> QED BY <1>12, <3>1, <3>2, <3>3
    <2>4. {en[n].event : n \in DOMAIN en} = DOMAIN ev
      <3>1. \A n \in DOMAIN en : en[n].event \in DOMAIN ev
        BY <2>3
      <3>2. \A e \in DOMAIN ev : \E n \in DOMAIN en : en[n].event = e
        <4> TAKE e \in DOMAIN ev
        <4>1. PICK n \in 1..N : q[n] = e
          BY <1>2
        <4> QED BY <1>12, <4>1
      <3> QED BY <3>1, <3>2
    <2>5. t.headDigest = IF t.count = 0 THEN t.anchorDigest ELSE en[t.head].digest
      BY <1>2, <1>8, <1>9, <1>12
    <2> QED BY <2>1, <2>2, <2>3, <2>4, <2>5 DEF Chain
  <1> QED BY <1>9, <1>11, <1>13, <1>14 DEF d, en, t

(***************************************************************************)
(* The ledger is a chain again once the writes at work are made.           *)
(***************************************************************************)
Tree(d) == TreeFields \subseteq DOMAIN d /\ StateType(d.state) /\ EntriesType(d.entries, pending)
Linked(a) == Tree(a.dir) /\ Chain(a.events, a.dir.entries, a.dir.state)

FilesNumbered ==
    /\ EventsType(store.audit.events, pending)
    /\ store.audit.dir # None => Tree(store.audit.dir)
    /\ store.audit.bak # None => Tree(store.audit.bak)

(* An event has no file before its recording writes one. *)
Fresh ==
    phase = "working" /\ kind = "record" /\ (current # "append" \/ NextOp = "event") =>
        pending \notin DOMAIN store.audit.events

(* What the ledger will be once the purge, the append or the rotation at   *)
(* work has made its remaining writes.                                     *)
Events(en, S) == {en[n].event : n \in S}
PurgeLeaves(a) ==
    LET ev == a.events
        en == a.dir.entries
        t == a.dir.state
    IN  /\ Tree(a.dir) /\ items \subseteq DOMAIN en
        /\ \/ todo = <<>> /\ Chain(Drop(ev, Events(en, items)), Drop(en, items), t)
           \/ /\ todo = PurgeNext(PurgedState(t, en, items)) /\ Chain(ev, en, t) /\ items # {}
              /\ \A n \in items : \A m \in DOMAIN en : m <= n => m \in items
           \/ \E n \in DOMAIN en \ items :
                 /\ todo = DelEventNext(en[n].event, n)
                 /\ Chain(Drop(ev, Events(en, items \cup {n})), Drop(en, items \cup {n}), t)
           \/ \E n \in DOMAIN en \ items :
                 /\ todo = DelEntryNext(n)
                 /\ Chain(Drop(ev, Events(en, items)), Drop(en, items \cup {n}), t)
AppendLeaves(a) ==
    LET ev == a.events
        en == a.dir.entries
        t == a.dir.state
        recorded == pending \in DOMAIN ev /\ ev[pending] = "full"
    IN  /\ Tree(a.dir)
        /\ \/ todo \in {<<>>, EventNext(t)} /\ Chain(ev, en, t)
           \/ todo = EntryNext(t) /\ recorded /\ Chain(Drop(ev, {pending}), en, t)
           \/ /\ todo = StateNext(t) /\ recorded
              /\ t.head + 1 \in DOMAIN en /\ en[t.head + 1] = AppendedEntry(t, pending, "full")
              /\ Chain(Drop(ev, {pending}), Drop(en, {t.head + 1}), t)
Rotatable(t) == StateType(t) /\ t.headDigest # ChainZero
RotateLeaves(a) ==
    \/ todo \in {<<>>, DropBakNext} /\ Linked(a)
    \/ \E t : todo \in {SwapOutNext(t), SwapInNext(t)} /\ Rotatable(t)

LedgerLeaves(a) ==
    /\ current = "audit" => PurgeLeaves(a)
    /\ current = "append" => AppendLeaves(a)
    /\ current = "anonymize" => Tree(a.dir) /\ Rotatable(a.dir.state) /\ classes = <<"rotate">>
    /\ current = "rotate" => RotateLeaves(a)
    /\ current \notin LedgerClasses => Linked(a)

(* A ledger class that failed may leave a broken chain; one at work began  *)
(* with a chain that was whole.                                            *)
Trusted ==
    /\ phase \in {"idle", "working"}
    /\ \/ failed \cap LedgerClasses = {} /\ ~Startup({"startup"})
       \/ current \in LedgerClasses /\ (todo # <<>> \/ items # {})
       \/ current = "anonymize" /\ classes = <<"rotate">>

LedgerInv ==
    /\ FilesNumbered /\ Fresh
    /\ Trusted => LedgerLeaves(store.audit)
    /\ rested => Linked(store.audit)

-----------------------------------------------------------------------------
\* Removing and writing files.
LEMMA DropIs ==
  ASSUME NEW f, f = [x \in DOMAIN f |-> f[x]]
  PROVE  /\ \A S : S \cap DOMAIN f = {} => Drop(f, S) = f
         /\ \A S, T : Drop(Drop(f, S), T) = Drop(f, S \cup T)
         /\ \A x, c : x \notin DOMAIN f => Drop(With(f, x, c), {x}) = f
         /\ \A x \in DOMAIN f : With(Drop(f, {x}), x, f[x]) = f
  <1>1. ASSUME NEW S, S \cap DOMAIN f = {} PROVE Drop(f, S) = f
    <2>1. DOMAIN f \ S = DOMAIN f
      BY <1>1
    <2> QED BY <2>1 DEF Drop
  <1>2. ASSUME NEW S, NEW T PROVE Drop(Drop(f, S), T) = Drop(f, S \cup T)
    <2>1. (DOMAIN f \ S) \ T = DOMAIN f \ (S \cup T)
      OBVIOUS
    <2> QED BY <2>1 DEF Drop
  <1>3. ASSUME NEW x, NEW c, x \notin DOMAIN f PROVE Drop(With(f, x, c), {x}) = f
    <2>1. (DOMAIN f \cup {x}) \ {x} = DOMAIN f
      BY <1>3
    <2> QED BY <1>3, <2>1 DEF Drop, With
  <1>4. ASSUME NEW x \in DOMAIN f PROVE With(Drop(f, {x}), x, f[x]) = f
    <2>1. (DOMAIN f \ {x}) \cup {x} = DOMAIN f
      OBVIOUS
    <2> QED BY <2>1 DEF Drop, With
  <1> QED BY <1>1, <1>2, <1>3, <1>4

\* Removing files keeps the type of what is left.
LEMMA DropTyped ==
  ASSUME NEW k, NEW S
  PROVE  /\ \A ev : EventsType(ev, k) => EventsType(Drop(ev, S), k) /\ ev = [e \in DOMAIN ev |-> ev[e]]
         /\ \A en : EntriesType(en, k) => EntriesType(Drop(en, S), k)
  <1>1. ASSUME NEW ev, EventsType(ev, k) PROVE EventsType(Drop(ev, S), k) /\ ev = [e \in DOMAIN ev |-> ev[e]]
    BY <1>1 DEF EventsType, Drop
  <1>2. ASSUME NEW en, EntriesType(en, k) PROVE EntriesType(Drop(en, S), k)
    BY <1>2 DEF EntriesType, Drop
  <1> QED BY <1>1, <1>2

\* One more event may be numbered.
LEMMA RoomForOne ==
  ASSUME NEW k \in Nat
  PROVE  /\ \A ev : EventsType(ev, k) => EventsType(ev, k + 1) /\ k + 1 \notin DOMAIN ev
         /\ \A en : EntriesType(en, k) => EntriesType(en, k + 1)
  <1>1. ASSUME NEW ev, EventsType(ev, k) PROVE EventsType(ev, k + 1) /\ k + 1 \notin DOMAIN ev
    BY <1>1 DEF EventsType
  <1>2. ASSUME NEW en, EntriesType(en, k) PROVE EntriesType(en, k + 1)
    <2>1. \A n \in DOMAIN en : en[n].event \in 1..(k + 1)
      BY <1>2 DEF EntriesType
    <2> QED BY <1>2, <2>1 DEF EntriesType
  <1> QED BY <1>1, <1>2

\* A chain over at least one event has a head to go on from.
LEMMA ChainHead ==
  ASSUME NEW k \in Nat, NEW ev, EventsType(ev, k), NEW en, EntriesType(en, k), NEW t, StateType(t),
         Chain(ev, en, t), DOMAIN ev # {}
  PROVE  Rotatable(t)
  <1>1. PICK m \in DOMAIN en : TRUE
    BY DEF Chain
  <1>2. t.anchor \in Nat /\ t.head \in Nat /\ DOMAIN en = (t.anchor + 1)..t.head /\ t.count = t.head - t.anchor
    BY DEF StateType, Chain, ValidChainState
  <1>3. t.head \in DOMAIN en /\ t.count # 0
    BY <1>1, <1>2
  <1> DEFINE h == t.head
             p == IF h = t.anchor + 1 THEN t.anchorDigest ELSE en[h - 1].digest
  <1>4. /\ t.headDigest = en[h].digest /\ en[h].event \in DOMAIN ev
        /\ en[h] = ChainEntry(t.gen, h, en[h].event, ev[en[h].event], p)
    BY <1>3 DEF Chain
  <1>5. p \in Digest
    <2>1. CASE h = t.anchor + 1
      BY <2>1 DEF StateType
    <2>2. CASE h # t.anchor + 1
      <3>1. h - 1 \in DOMAIN en
        BY <1>2, <1>3, <2>2
      <3> QED BY <2>2, <3>1 DEF EntriesType
    <2> QED BY <2>1, <2>2
  <1>6. en[h].event \in Nat /\ ev[en[h].event] \in Bodies /\ t.gen \in Nat
    BY <1>4 DEF EventsType, StateType
  <1> HIDE DEF p
  <1>7. en[h].digest = Append(p, <<t.gen, h, en[h].event, ev[en[h].event]>>)
    BY <1>4, EntryIs
  <1>8. en[h].digest # <<>>
    BY <1>2, <1>5, <1>6, <1>7, DigestGrows
  <1> QED BY <1>4, <1>8 DEF Rotatable, ChainZero

\* A directory before its first audited operation has an empty ledger.
LEMMA LedgerInit ==
  ASSUME Init
  PROVE  LedgerInv
  <1>1. store.audit = [events |-> <<>>, dir |-> None, bak |-> None] /\ phase = "stopped" /\ ~rested /\ pending = 0
    BY SeedsAssumption DEF Init
  <1>2. store.audit.dir = None /\ store.audit.bak = None /\ store.audit.events = <<>>
    BY <1>1
  <1>3. EventsType(<<>>, 0)
    BY DEF EventsType
  <1> QED BY <1>1, <1>2, <1>3 DEF LedgerInv, FilesNumbered, Fresh, Trusted

\* With nothing left to write, the ledger is whole.
LEMMA LedgerRests ==
  ASSUME LedgerInv, Trusted, todo = <<>>, items = {}, current # "anonymize"
  PROVE  Linked(store.audit)
  <1> DEFINE a == store.audit
  <1>1. LedgerLeaves(a) /\ EventsType(a.events, pending)
    BY DEF LedgerInv, FilesNumbered
  <1>2. CASE current = "audit"
    <2>1. Tree(a.dir) /\ Chain(Drop(a.events, Events(a.dir.entries, {})), Drop(a.dir.entries, {}), a.dir.state)
      BY <1>1, <1>2, LedgerRestMoves DEF LedgerLeaves, PurgeLeaves
    <2>2. Events(a.dir.entries, {}) = {}
      BY DEF Events
    <2>3. Drop(a.events, {}) = a.events
      BY <1>1, DropIs, DropTyped
    <2>4. Drop(a.dir.entries, {}) = a.dir.entries
      BY <2>1, DropIs DEF Tree, EntriesType
    <2> QED BY <2>1, <2>2, <2>3, <2>4 DEF Linked
  <1>3. CASE current = "append"
    BY <1>1, <1>3, LedgerRestMoves DEF LedgerLeaves, AppendLeaves, Linked
  <1>4. CASE current = "rotate"
    BY <1>1, <1>4, OtherRestMoves DEF LedgerLeaves, RotateLeaves
  <1>5. CASE current \notin LedgerClasses
    BY <1>1, <1>5 DEF LedgerLeaves
  <1> QED BY <1>2, <1>3, <1>4, <1>5 DEF LedgerClasses

\* The steps that change neither the ledger nor the operation at work.
LEMMA LedgerSame ==
  ASSUME LedgerInv, store'.audit = store.audit,
         UNCHANGED <<pending, phase, kind, classes, current, items, todo, failed, rested>>
  PROVE  LedgerInv'
  <1>1. \A d : Tree(d)' <=> Tree(d)
    BY DEF Tree
  <1>2. FilesNumbered' /\ Fresh' /\ (rested' => Linked(store.audit)')
    BY <1>1 DEF LedgerInv, FilesNumbered, Fresh, Linked, NextOp
  <1>3. Trusted' => Trusted
    BY DEF Trusted, Startup
  <1>4. LedgerLeaves(store.audit) => LedgerLeaves(store.audit)'
    <2>1. PurgeLeaves(store.audit) => PurgeLeaves(store.audit)'
      BY <1>1 DEF PurgeLeaves
    <2>2. AppendLeaves(store.audit) => AppendLeaves(store.audit)'
      BY <1>1 DEF AppendLeaves, EventNext, EntryNext, StateNext, EntryWrite, StateWrite
    <2>3. RotateLeaves(store.audit) => RotateLeaves(store.audit)'
      BY <1>1 DEF RotateLeaves, Linked
    <2> QED BY <1>1, <2>1, <2>2, <2>3 DEF LedgerLeaves, Linked
  <1> QED BY <1>2, <1>3, <1>4 DEF LedgerInv

\* The process goes down.
LEMMA LedgerDown ==
  ASSUME LedgerInv, store'.audit = store.audit, pending' = pending, phase' \in {"stopped", "refused"}, ~rested'
  PROVE  LedgerInv'
  <1>1. \A d : Tree(d)' <=> Tree(d)
    BY DEF Tree
  <1>2. FilesNumbered' /\ Fresh' /\ ~Trusted'
    BY <1>1 DEF LedgerInv, FilesNumbered, Fresh, Trusted
  <1> QED BY <1>2 DEF LedgerInv

\* An operation begins or ends with a ledger that is whole, or was refused.
LEMMA LedgerTurns ==
  ASSUME HistoryInv, LedgerInv, store'.audit = store.audit, ~rested',
         pending' = pending \/ pending' = pending + 1,
         phase' = "working" /\ kind' = "record" => pending' = pending + 1,
         Trusted' => Linked(store.audit) /\ current' \notin LedgerClasses
  PROVE  LedgerInv'
  <1>1. pending \in Nat
    BY DEF HistoryInv
  <1>2. \A d : Tree(d) => Tree(d)'
    BY <1>1, RoomForOne DEF Tree
  <1>3. FilesNumbered'
    BY <1>1, <1>2, RoomForOne DEF LedgerInv, FilesNumbered
  <1>4. Fresh'
    BY <1>1, RoomForOne DEF LedgerInv, FilesNumbered, Fresh
  <1>5. Trusted' => LedgerLeaves(store.audit)'
    BY <1>2 DEF LedgerLeaves, Linked, LedgerClasses
  <1> QED BY <1>3, <1>4, <1>5 DEF LedgerInv

\* Retention, a recording and the end of an operation.
LEMMA LedgerTurn ==
  ASSUME ControlInv, HistoryInv, UpkeepInv, LedgerInv, RunRetention \/ RecordAction \/ Finish
  PROVE  LedgerInv'
  <1>1. todo = <<>> /\ items = {} /\ phase \in {"idle", "working"} /\ store' = store /\ rested' = rested
    BY DEF ControlInv, Control, RunRetention, RecordAction, Finish
  <1>2. ~rested'
    BY <1>1 DEF UpkeepInv
  <1>3. CASE RunRetention
    <2>1. /\ phase = "idle" /\ current = "startup" /\ current' = current /\ kind' = "retention"
          /\ failed' = failed \ {"results", "sources"} /\ pending' = pending
      BY <1>3 DEF RunRetention, ControlInv, Control, ledgerVars
    <2>2. Trusted' => Trusted
      BY <2>1 DEF Trusted, Startup, LedgerClasses
    <2>3. Trusted' => Linked(store.audit) /\ current' \notin LedgerClasses
      BY <1>1, <2>1, <2>2, LedgerRests DEF LedgerClasses
    <2> QED BY <1>1, <1>2, <2>1, <2>3, LedgerTurns
  <1>4. CASE RecordAction
    <2>1. /\ phase = "idle" /\ current = "startup" /\ current' = current /\ kind' = "record"
          /\ failed' = failed /\ pending' = pending + 1
      BY <1>4 DEF RecordAction, BeginRecord, ControlInv, Control
    <2>2. Trusted' => Trusted
      BY <2>1 DEF Trusted, Startup, LedgerClasses
    <2>3. Trusted' => Linked(store.audit) /\ current' \notin LedgerClasses
      BY <1>1, <2>1, <2>2, LedgerRests DEF LedgerClasses
    <2> QED BY <1>1, <1>2, <2>1, <2>3, LedgerTurns
  <1>5. CASE Finish
    <2>1. /\ phase = "working" /\ classes = <<>> /\ current' = "startup" /\ failed' = failed
          /\ \/ phase' = "working" /\ kind' = "record" /\ pending' = pending + 1
             \/ phase' = "idle" /\ pending' = pending
      BY <1>5 DEF Finish, BeginRecord
    <2>2. ~Startup({"startup"})
      BY <2>1 DEF Startup, ControlInv, Control, StartupStage
    <2>3. Trusted' => Trusted
      BY <1>1, <2>1, <2>2 DEF Trusted, LedgerClasses
    <2>4. Trusted => current # "anonymize"
      BY <2>1 DEF LedgerInv, LedgerLeaves
    <2>5. Trusted' => Linked(store.audit) /\ current' \notin LedgerClasses
      BY <1>1, <2>1, <2>3, <2>4, LedgerRests DEF LedgerClasses
    <2> QED BY <1>1, <1>2, <2>1, <2>5, LedgerTurns
  <1> QED BY <1>3, <1>4, <1>5

\* A ledger bootstrapped over the event files is one of their type.
LEMMA EnsuredTyped ==
  ASSUME ControlInv, HistoryInv, FilesNumbered
  PROVE  LET a == Ensured(store.audit) IN
         /\ a.events = store.audit.events /\ a.bak = store.audit.bak
         /\ a.dir # None => Tree(a.dir)
  <1> DEFINE a == Ensured(store.audit)
  <1>1. AuditFields \subseteq DOMAIN store.audit /\ pending \in Nat
    BY DEF ControlInv, StoreShape, AuditFields, HistoryInv
  <1>2. a.events = store.audit.events /\ a.bak = store.audit.bak
    BY <1>1, EnsuredShape DEF Only, AuditFields
  <1>3. CASE store.audit.dir # None
    BY <1>2, <1>3 DEF Ensured, FilesNumbered
  <1>4. CASE store.audit.dir = None
    <2> DEFINE d == BuildTree(store.audit.events, 1, ChainZero, ChainZero)
    <2>1. a.dir = d
      BY <1>1, <1>4 DEF Ensured, AuditFields
    <2>2. ChainZero \in Digest /\ Starts(1, ChainZero, ChainZero)
      BY DEF ChainZero, Digest, Starts
    <2>3. /\ DOMAIN d = {"entries", "state"}
          /\ StateType(d.state) /\ EntriesType(d.entries, pending)
      BY <1>1, <2>2, BuildChain DEF FilesNumbered
    <2> HIDE DEF d
    <2> QED BY <1>2, <2>1, <2>3 DEF Tree, TreeFields
  <1> QED BY <1>3, <1>4

\* The invariant once the ledger is known, its type and what it leads to.
LEMMA LedgerGoesOn ==
  ASSUME pending' = pending, EventsType(store'.audit.events, pending), ~rested',
         store'.audit.dir # None => Tree(store'.audit.dir),
         store'.audit.bak # None => Tree(store'.audit.bak),
         Fresh', Trusted' => LedgerLeaves(store.audit)'
  PROVE  LedgerInv'
  <1>1. \A d : Tree(d)' <=> Tree(d)
    BY DEF Tree
  <1> QED BY <1>1 DEF LedgerInv, FilesNumbered

\* The asset's events are to be rewritten in a ledger that verified.
LEMMA LedgerAnonymize ==
  ASSUME ControlInv, HistoryInv, UpkeepInv, LedgerInv, AnonymizeAsset
  PROVE  LedgerInv'
  <1> DEFINE a == Ensured(store.audit)
  <1>1. /\ phase = "idle" /\ current' = "anonymize" /\ classes' = <<"rotate">> /\ kind' = "anonymize"
        /\ store' = [store EXCEPT !.audit = a] /\ ValidLedger(a) /\ DOMAIN a.events # {}
        /\ pending' = pending /\ rested' = rested
    BY DEF AnonymizeAsset, ledgerVars
  <1>2. ~rested' /\ FilesNumbered /\ pending \in Nat
    BY <1>1 DEF UpkeepInv, LedgerInv, HistoryInv
  <1>3. store'.audit = a
    BY <1>1 DEF ControlInv, StoreShape, StoreFields
  <1> HIDE DEF a
  <1>4. /\ a.events = store.audit.events /\ a.bak = store.audit.bak
        /\ a.dir # None => Tree(a.dir)
    BY <1>2, EnsuredTyped DEF a
  <1>5. a.dir # None /\ Chain(a.events, a.dir.entries, a.dir.state)
    BY <1>1, ValidIsChain
  <1>6. Tree(a.dir) /\ Rotatable(a.dir.state)
    <2>1. Tree(a.dir) /\ EventsType(a.events, pending)
      BY <1>2, <1>4, <1>5 DEF FilesNumbered
    <2> QED BY <1>1, <1>2, <1>5, <2>1, ChainHead DEF Tree
  <1>8. LedgerLeaves(store.audit)'
    <2>1. Tree(store.audit.dir)'
      BY <1>1, <1>3, <1>6 DEF Tree
    <2>2. Rotatable(store.audit.dir.state)'
      BY <1>3, <1>6 DEF Rotatable, StateType
    <2> QED BY <1>1, <2>1, <2>2 DEF LedgerLeaves, LedgerClasses
  <1>9. Fresh'
    BY <1>1 DEF Fresh
  <1> QED BY <1>1, <1>2, <1>3, <1>4, <1>6, <1>8, <1>9, LedgerGoesOn DEF FilesNumbered

\* The next entry to go, or the next event to rewrite, is taken up.
LEMMA LedgerTake ==
  ASSUME ControlInv, HistoryInv, UpkeepInv, LedgerInv, TakeItem
  PROVE  LedgerInv'
  <1>1. PICK x \in items : items' = items \ {x} /\ todo' = WritesOf(current, store, x)
    BY DEF TakeItem
  <1>2. /\ phase = "working" /\ todo = <<>>
        /\ UNCHANGED <<store, phase, kind, classes, current, failed, rested, pending>>
    BY DEF TakeItem, ledgerVars
  <1>3. ~rested' /\ FilesNumbered /\ current \in {"results", "sources", "audit", "anonymize"}
    BY <1>1, <1>2 DEF UpkeepInv, LedgerInv, ControlInv, Control
  <1>4. Fresh'
    BY <1>2, <1>3 DEF Fresh, LedgerInv
  <1>5. Trusted' => Trusted
    BY <1>1, <1>2 DEF Trusted, Startup
  <1>6. \A d : Tree(d)' <=> Tree(d)
    BY <1>2 DEF Tree
  <1> DEFINE a == store.audit
  <1>7. ASSUME Trusted
        PROVE  LedgerLeaves(a)'
    <2>1. LedgerLeaves(a)
      BY <1>7 DEF LedgerInv
    <2>2. CASE current = "audit"
      <3>1. /\ Tree(a.dir) /\ items \subseteq DOMAIN a.dir.entries
            /\ Chain(Drop(a.events, Events(a.dir.entries, items)), Drop(a.dir.entries, items), a.dir.state)
        BY <1>2, <2>1, <2>2, LedgerRestMoves DEF LedgerLeaves, PurgeLeaves
      <3>2. todo' = DelEventNext(a.dir.entries[x].event, x)
        BY <1>1, <2>2, WritesOfIs
      <3>3. items' \cup {x} = items /\ x \in DOMAIN a.dir.entries \ items' /\ items' \subseteq DOMAIN a.dir.entries
        BY <1>1, <3>1
      <3>4. PurgeLeaves(a)'
        BY <1>2, <1>6, <3>1, <3>2, <3>3 DEF PurgeLeaves
      <3> QED BY <1>2, <2>2, <3>4 DEF LedgerLeaves, LedgerClasses
    <2>3. CASE current = "anonymize"
      BY <1>2, <1>6, <2>1, <2>3 DEF LedgerLeaves, LedgerClasses
    <2>4. CASE current \notin LedgerClasses
      BY <1>2, <1>6, <2>1, <2>4 DEF LedgerLeaves, LedgerClasses, Linked
    <2> QED BY <1>3, <2>2, <2>3, <2>4 DEF LedgerClasses
  <1> QED BY <1>2, <1>3, <1>4, <1>5, <1>7, LedgerGoesOn DEF FilesNumbered

\* Where a class that reads or writes the ledger begins.
LEMMA LedgerStage ==
  ASSUME Stage, classes # <<>>, phase = "working"
  PROVE  LET c == Head(classes) IN
         /\ kind = "record" => current # "append" /\ c \in {"audit", "append"}
         /\ c = "rotate" => current = "anonymize" /\ classes = <<"rotate">>
         /\ c \notin {"audit", "append", "rotate"} => ~Startup({"startup"}) /\ current # "anonymize"
         /\ c \in RecordClasses \cup {"audit", "append", "rotate"}
  <1>1. CASE kind = "startup" /\ StartupStage
    BY <1>1 DEF StartupStage, Startup, RecordClasses
  <1>2. CASE kind = "retention" /\ RetentionStage
    BY <1>2 DEF RetentionStage, Startup, RecordClasses
  <1>3. CASE kind = "record" /\ RecordStage
    BY <1>3 DEF RecordStage, Startup, RecordClasses
  <1>4. CASE kind = "anonymize" /\ AnonymizeStage
    BY <1>4 DEF AnonymizeStage, Startup, RecordClasses
  <1> QED BY <1>1, <1>2, <1>3, <1>4 DEF Stage

\* What is left to purge at the start is a prefix of the chain.
LEMMA PurgeBegins ==
  ASSUME NEW a, Tree(a.dir), EventsType(a.events, pending),
         Chain(a.events, a.dir.entries, a.dir.state), pending' = pending,
         items' = ExpiredPrefix(a, cutoff), todo' = PurgeLedger(a), store'.audit = a
  PROVE  PurgeLeaves(store.audit)'
  <1> DEFINE en == a.dir.entries
             ev == a.events
             t == a.dir.state
             gone == ExpiredPrefix(a, cutoff)
  <1>1. /\ gone \subseteq DOMAIN en
        /\ \A n \in gone : \A m \in DOMAIN en : m <= n => m \in gone
    <2>1. gone \subseteq DOMAIN en
      BY DEF ExpiredPrefix
    <2>2. ASSUME NEW n \in gone, NEW m \in DOMAIN en, m <= n
          PROVE  m \in gone
      <3>1. \A k \in DOMAIN en : k \in Nat
        BY DEF Tree, EntriesType
      <3>2. n \in DOMAIN en /\ \A k \in DOMAIN en : k <= n => en[k].event < cutoff
        BY DEF ExpiredPrefix
      <3>3. \A k \in DOMAIN en : k <= m => k <= n
        BY <2>2, <3>1, <3>2
      <3> QED BY <3>2, <3>3 DEF ExpiredPrefix
    <2> QED BY <2>1, <2>2
  <1>3. Tree(store.audit.dir)'
    BY DEF Tree
  <1>4. CASE gone = {}
    <2>1. todo' = <<>> /\ items' = {}
      BY <1>4 DEF PurgeLedger
    <2>2. Events(en, {}) = {}
      BY DEF Events
    <2>3. ev = [e \in DOMAIN ev |-> ev[e]] /\ en = [n \in DOMAIN en |-> en[n]]
      BY DEF EventsType, Tree, EntriesType
    <2> HIDE DEF ev, en
    <2>5. Drop(ev, {}) = ev /\ Drop(en, {}) = en
      BY <2>3, DropIs
    <2>4. Chain(Drop(ev, Events(en, {})), Drop(en, {}), t)
      BY <2>2, <2>5 DEF ev, en
    <2> QED BY <1>3, <2>1, <2>4 DEF PurgeLeaves, ev, en
  <1>5. CASE gone # {}
    <2>1. todo' = PurgeNext(PurgedState(t, en, gone))
      BY <1>5 DEF PurgeLedger, PurgeNext
    <2> QED BY <1>1, <1>3, <1>5, <2>1 DEF PurgeLeaves
  <1> QED BY <1>4, <1>5

\* A class begins with a ledger that verified, or leaves it as it was.
LEMMA LedgerBegin ==
  ASSUME ControlInv, HistoryInv, UpkeepInv, LedgerInv, BeginClass
  PROVE  LedgerInv'
  <1> DEFINE c == Head(classes)
             a == IF c \in {"audit", "append"} THEN Ensured(store.audit) ELSE store.audit
  <1>1. /\ phase = "working" /\ todo = <<>> /\ items = {} /\ classes # <<>> /\ Stage
        /\ store' = Prepared(c) /\ current' = c
        /\ UNCHANGED <<kind, rested, pending, cutoff>>
    BY BeginClassIs DEF ledgerVars
  <1>2. store'.audit = a
    BY <1>1, PreparedIs DEF ControlInv
  <1>3. ~rested' /\ FilesNumbered /\ Fresh /\ pending \in Nat
    BY <1>1 DEF UpkeepInv, LedgerInv, HistoryInv
  <1>4. /\ kind = "record" => current # "append" /\ c \in {"audit", "append"}
        /\ c = "rotate" => current = "anonymize" /\ classes = <<"rotate">>
        /\ c \notin {"audit", "append", "rotate"} => ~Startup({"startup"}) /\ current # "anonymize"
        /\ c \in RecordClasses \cup {"audit", "append", "rotate"}
    BY <1>1, LedgerStage
  <1>5. \/ /\ items' = TakenUp(c, Prepared(c)) /\ todo' = Plan(c, Prepared(c)) /\ failed' = failed
           /\ phase' = "working" /\ classes' = Tail(classes)
           /\ c \in {"audit", "append"} => ValidLedger(a)
        \/ /\ items' = {} /\ todo' = <<>> /\ c \in {"audit", "append"}
           /\ failed' = IF ValidLedger(a) THEN failed ELSE failed \cup {c}
           /\ ValidLedger(a) => c = "append"
    BY <1>1, <1>2, BeginClassIs
  <1>6. /\ a.events = store.audit.events /\ a.bak = store.audit.bak
        /\ a.dir # None => Tree(a.dir)
        /\ EventsType(a.events, pending)
    BY <1>3, EnsuredTyped DEF FilesNumbered
  <1>7. ValidLedger(a) => Tree(a.dir) /\ Chain(a.events, a.dir.entries, a.dir.state)
    BY <1>6, ValidIsChain
  <1> HIDE DEF c, a
  <1>8. Fresh'
    <2>1. kind = "record" => pending \notin DOMAIN store.audit.events
      BY <1>1, <1>3, <1>4 DEF Fresh
    <2> QED BY <1>1, <1>2, <1>6, <2>1 DEF Fresh
  <1>9. Tree(a.dir) => Tree(store.audit.dir)'
    BY <1>1, <1>2 DEF Tree
  <1>10. ASSUME Trusted'
         PROVE  LedgerLeaves(store.audit)'
    <2>1. CASE c = "audit"
      <3>1. ValidLedger(a) /\ items' = TakenUp(c, Prepared(c)) /\ todo' = Plan(c, Prepared(c))
        <4>1. SUFFICES ASSUME ~ValidLedger(a) PROVE FALSE
          BY <1>5, <2>1
        <4>2. items' = {} /\ todo' = <<>> /\ failed' = failed \cup {c}
          BY <1>5, <2>1, <4>1
        <4>4. "audit" \in failed' \cap LedgerClasses
          BY <2>1, <4>2 DEF LedgerClasses
        <4>5. current' # "anonymize"
          BY <1>1, <2>1
        <4> QED BY <1>10, <4>2, <4>4, <4>5 DEF Trusted
      <3>2. items' = ExpiredPrefix(a, cutoff) /\ todo' = PurgeLedger(a)
        BY <1>1, <1>2, <2>1, <3>1 DEF TakenUp, Plan
      <3>3. PurgeLeaves(store.audit)'
        BY <1>1, <1>2, <1>6, <1>7, <3>1, <3>2, PurgeBegins
      <3> QED BY <1>1, <2>1, <3>3 DEF LedgerLeaves, LedgerClasses
    <2>2. CASE c = "append"
      <3>1. ValidLedger(a)
        <4>1. SUFFICES ASSUME ~ValidLedger(a) PROVE FALSE
          OBVIOUS
        <4>2. items' = {} /\ todo' = <<>> /\ failed' = failed \cup {c}
          BY <1>5, <2>2, <4>1
        <4>4. "append" \in failed' \cap LedgerClasses
          BY <2>2, <4>2 DEF LedgerClasses
        <4>5. current' # "anonymize"
          BY <1>1, <2>2
        <4> QED BY <1>10, <4>2, <4>4, <4>5 DEF Trusted
      <3>2. todo' = <<>> \/ todo' = EventNext(a.dir.state)
        BY <1>1, <1>2, <1>5, <2>2, PlanIs
      <3>3. EventNext(a.dir.state) = EventNext(store.audit.dir.state)'
        BY <1>1, <1>2 DEF EventNext, EntryWrite, StateWrite
      <3>4. Tree(store.audit.dir)' /\ Chain(store.audit.events, store.audit.dir.entries, store.audit.dir.state)'
        BY <1>2, <1>7, <1>9, <3>1
      <3>5. AppendLeaves(store.audit)'
        BY <3>2, <3>3, <3>4 DEF AppendLeaves
      <3> QED BY <1>1, <2>2, <3>5 DEF LedgerLeaves, LedgerClasses
    <2>3. CASE c = "rotate"
      <3>1. a = store.audit /\ todo' = SwapOutNext(store'.audit.dir.state)
        BY <1>1, <1>2, <1>5, <2>3, PlanIs DEF a
      <3>2. Trusted
        BY <1>1, <1>4, <2>3 DEF Trusted, LedgerClasses
      <3>3. Rotatable(a.dir.state)
        BY <1>4, <2>3, <3>1, <3>2 DEF LedgerInv, LedgerLeaves
      <3>4. RotateLeaves(store.audit)'
        <4>1. Rotatable(store.audit.dir.state)'
          BY <1>2, <3>3
        <4> QED BY <3>1, <4>1 DEF RotateLeaves
      <3> QED BY <1>1, <2>3, <3>4 DEF LedgerLeaves, LedgerClasses
    <2>4. CASE c \in RecordClasses
      <3>1. a = store.audit /\ failed' = failed /\ c \notin LedgerClasses
        BY <1>5, <2>4 DEF a, RecordClasses, LedgerClasses
      <3>2. Trusted
        BY <1>1, <1>4, <1>10, <2>4, <3>1 DEF Trusted, RecordClasses
      <3>3. Linked(store.audit)
        BY <1>1, <1>4, <2>4, <3>2, LedgerRests DEF RecordClasses
      <3>4. Linked(store.audit)'
        BY <1>2, <1>9, <3>1, <3>3 DEF Linked
      <3> QED BY <1>1, <3>1, <3>4 DEF LedgerLeaves, LedgerClasses
    <2> QED BY <1>4, <2>1, <2>2, <2>3, <2>4
  <1> QED BY <1>1, <1>2, <1>3, <1>6, <1>8, <1>10, LedgerGoesOn DEF FilesNumbered

\* A failed append takes back what it had written.
LEMMA UnappendedIs ==
  ASSUME HistoryInv, LedgerInv, phase = "working", current = "append", todo # <<>>, kind = "record"
  PROVE  LET a == store.audit
             ev == Without(a.events, pending)
             en == Without(a.dir.entries, a.dir.state.head + 1)
         IN  /\ Tree(a.dir) /\ EventsType(ev, pending) /\ EntriesType(en, pending)
             /\ Chain(ev, en, a.dir.state)
  <1> DEFINE a == store.audit
             t == a.dir.state
             h == t.head + 1
             ev == a.events
             en == a.dir.entries
             xv == Without(ev, pending)
             xn == Without(en, h)
  <1>1. AppendLeaves(a) /\ EventsType(ev, pending) /\ Fresh
    BY DEF LedgerInv, Trusted, LedgerClasses, LedgerLeaves, FilesNumbered
  <1>2. Tree(a.dir) /\ StateType(t) /\ EntriesType(en, pending)
    BY <1>1 DEF AppendLeaves, Tree
  <1>3. EventsType(xv, pending) /\ EntriesType(xn, pending)
    BY <1>1, <1>2, DropTyped DEF Without
  <1>4. t.head \in Nat /\ ev = [e \in DOMAIN ev |-> ev[e]] /\ en = [n \in DOMAIN en |-> en[n]]
    BY <1>1, <1>2 DEF StateType, EventsType, EntriesType
  <1> HIDE DEF ev, en, t
  <1>5. ASSUME NEW fv, Chain(fv, en, t)
        PROVE  Drop(en, {h}) = en
    <2>1. h \notin DOMAIN en
      BY <1>4, <1>5 DEF Chain, ValidChainState
    <2>2. {h} \cap DOMAIN en = {}
      BY <2>1
    <2> QED BY <1>4, <2>2, DropIs
  <1>6. CASE todo = EventNext(t) /\ Chain(ev, en, t)
    <2>1. NextOp = "event"
      <3>1. EventNext(t) # <<>> /\ Head(EventNext(t)) = W("event", pending)
        BY LedgerRestMoves
      <3> QED BY <1>6, <3>1, WFields DEF NextOp
    <2>2. {pending} \cap DOMAIN ev = {}
      BY <1>1, <2>1 DEF Fresh, ev
    <2>3. Drop(ev, {pending}) = ev
      BY <1>4, <2>2, DropIs
    <2>4. Drop(en, {h}) = en
      BY <1>5, <1>6
    <2> QED BY <1>2, <1>3, <1>6, <2>3, <2>4 DEF Without, ev, en, t
  <1>7. CASE todo = EntryNext(t) /\ Chain(Drop(ev, {pending}), en, t)
    <2>1. Drop(en, {h}) = en
      BY <1>5, <1>7
    <2> QED BY <1>2, <1>3, <1>7, <2>1 DEF Without, ev, en, t
  <1>8. CASE todo = StateNext(t) /\ Chain(Drop(ev, {pending}), Drop(en, {h}), t)
    BY <1>2, <1>3, <1>8 DEF Without, ev, en, t
  <1> QED BY <1>1, <1>6, <1>7, <1>8 DEF AppendLeaves, ev, en, t

\* A write raises.
LEMMA LedgerFail ==
  ASSUME ControlInv, HistoryInv, UpkeepInv, LedgerInv, WriteFails
  PROVE  LedgerInv'
  <1>1. /\ UNCHANGED <<kind, current, pending, rested>> /\ phase = "working"
        /\ todo # <<>> /\ items' = {} /\ todo' = <<>> /\ store' = Undone(store)
        /\ failed' = IF current = "append" THEN failed ELSE failed \cup {current}
        /\ phase' = IF kind = "startup" THEN "stopped" ELSE "working"
        /\ classes' = IF kind = "retention" THEN classes ELSE <<>>
    BY DEF WriteFails, ledgerVars
  <1>2. ~rested' /\ FilesNumbered /\ Fresh
    BY <1>1 DEF UpkeepInv, LedgerInv
  <1>3. StoreShape(store) /\ AuditFields \subseteq DOMAIN store.audit
    BY DEF ControlInv, StoreShape, AuditFields
  <1>4. /\ current \in RecordClasses \cup LedgerClasses
        /\ current = "append" => kind = "record"
        /\ current \in {"anonymize", "rotate"} => kind = "anonymize"
    <2>1. current \in RecordClasses \cup LedgerClasses
      BY <1>1, WriteSides
    <2> QED BY <1>1, <2>1 DEF ControlInv, Control, StartupStage, RetentionStage, RecordStage, AnonymizeStage
  <1> DEFINE a == store.audit  b == store'.audit
  <1>5. CASE current = "append"
    <2> DEFINE h == a.dir.state.head + 1
    <2>1. /\ Only(a, b, {"events", "dir"}) /\ b.events = Without(a.events, pending)
          /\ b.dir = [a.dir EXCEPT !.entries = Without(@, h)]
      BY <1>1, <1>3, <1>5, UndoneIs
    <2>2. /\ Tree(a.dir) /\ EventsType(b.events, pending) /\ EntriesType(Without(a.dir.entries, h), pending)
          /\ Chain(b.events, Without(a.dir.entries, h), a.dir.state)
      BY <1>1, <1>4, <1>5, <2>1, UnappendedIs
    <2>3. b.bak = a.bak
      BY <1>3, <2>1 DEF Only, AuditFields
    <2>4. /\ DOMAIN b.dir = DOMAIN a.dir /\ b.dir.entries = Without(a.dir.entries, h)
          /\ b.dir.state = a.dir.state
      BY <2>1, <2>2 DEF Tree, TreeFields
    <2>5. Tree(b.dir)
      BY <2>2, <2>4 DEF Tree
    <2>6. AppendLeaves(store.audit)'
      <3>1. Tree(store.audit.dir)'
        BY <1>1, <2>5 DEF Tree
      <3> QED BY <1>1, <2>2, <2>4, <3>1 DEF AppendLeaves
    <2>7. LedgerLeaves(store.audit)'
      BY <1>1, <1>5, <2>6 DEF LedgerLeaves, LedgerClasses
    <2>8. Fresh'
      BY <1>1, <1>5 DEF Fresh, NextOp
    <2> QED BY <1>1, <1>2, <2>2, <2>3, <2>5, <2>7, <2>8, LedgerGoesOn DEF FilesNumbered
  <1>6. ASSUME current \in {"audit", "anonymize", "rotate"} PROVE ~Trusted'
    BY <1>1, <1>4, <1>6 DEF Trusted, LedgerClasses
  <1>7. CASE current = "rotate" /\ a.dir = None
    <2>1. Only(a, b, {"dir", "bak"}) /\ b.dir = a.bak /\ b.bak = None
      BY <1>1, <1>3, <1>7, UndoneIs
    <2>2. b.events = a.events
      BY <1>3, <2>1 DEF Only, AuditFields
    <2>3. Fresh'
      BY <1>1, <1>4, <1>7 DEF Fresh
    <2> QED BY <1>1, <1>2, <1>6, <1>7, <2>1, <2>2, <2>3, LedgerGoesOn DEF FilesNumbered
  <1>8. CASE current # "append" /\ ~(current = "rotate" /\ a.dir = None)
    <2>1. store' = store
      BY <1>1, <1>3, <1>8, UndoneIs
    <2>2. Fresh'
      BY <1>1, <1>2, <1>8, <2>1 DEF Fresh
    <2>3. ASSUME Trusted' PROVE LedgerLeaves(store.audit)'
      <3>1. current \in RecordClasses
        BY <1>4, <1>6, <1>8, <2>3 DEF LedgerClasses
      <3>2. Trusted /\ current \notin LedgerClasses
        BY <1>1, <2>3, <3>1 DEF Trusted, Startup, RecordClasses, LedgerClasses
      <3>3. Linked(a)
        BY <3>2 DEF LedgerInv, LedgerLeaves
      <3>4. Linked(store.audit)'
        BY <1>1, <2>1, <3>3 DEF Linked, Tree
      <3> QED BY <1>1, <3>2, <3>4 DEF LedgerLeaves, LedgerClasses
    <2> QED BY <1>1, <1>2, <2>1, <2>2, <2>3, LedgerGoesOn DEF FilesNumbered
  <1> QED BY <1>5, <1>7, <1>8

\* A write of the purge: the state, an event file or an entry.
LEMMA LedgerWriteAudit ==
  ASSUME ControlInv, HistoryInv, UpkeepInv, LedgerInv, WriteStep, current = "audit"
  PROVE  LedgerInv'
  <1>1. /\ UNCHANGED <<phase, kind, classes, current, items, pending, failed, rested>> /\ phase = "working"
        /\ todo # <<>> /\ todo' = Tail(todo) /\ store' = Written(store, Head(todo))
    BY DEF WriteStep
  <1>2. StoreFields \subseteq DOMAIN store /\ AuditFields \subseteq DOMAIN store.audit
    BY DEF ControlInv, StoreShape, AuditFields
  <1> DEFINE a == store.audit  b == store'.audit
             ev == a.events
             en == a.dir.entries
             t == a.dir.state
  <1>3. ~rested' /\ FilesNumbered /\ Fresh /\ PurgeLeaves(a) /\ pending \in Nat
    BY <1>1 DEF UpkeepInv, LedgerInv, Trusted, LedgerClasses, LedgerLeaves, HistoryInv
  <1>4. /\ Tree(a.dir) /\ items \subseteq DOMAIN en /\ EventsType(ev, pending)
        /\ EntriesType(en, pending) /\ StateType(t) /\ TreeFields \subseteq DOMAIN a.dir
    BY <1>3 DEF PurgeLeaves, FilesNumbered, Tree
  <1>5. ev = [e \in DOMAIN ev |-> ev[e]] /\ en = [n \in DOMAIN en |-> en[n]]
    BY <1>4 DEF EventsType, EntriesType
  <1>6. ASSUME EventsType(b.events, pending), DOMAIN b.events \subseteq DOMAIN ev, b.bak = a.bak, Tree(b.dir),
               PurgeLeaves(store.audit)'
        PROVE  LedgerInv'
    <2>1. Fresh'
      BY <1>1, <1>3, <1>6 DEF Fresh
    <2>2. LedgerLeaves(store.audit)'
      BY <1>1, <1>6 DEF LedgerLeaves, LedgerClasses
    <2> QED BY <1>1, <1>3, <1>6, <2>1, <2>2, LedgerGoesOn DEF FilesNumbered
  <1>7. CASE /\ todo = PurgeNext(PurgedState(t, en, items)) /\ Chain(ev, en, t) /\ items # {}
             /\ \A n \in items : \A m \in DOMAIN en : m <= n => m \in items
    <2> DEFINE u == PurgedState(t, en, items)
    <2>1. Head(todo) = W("state", u) /\ todo' = <<>>
      BY <1>1, <1>7, LedgerRestMoves
    <2>2. StateType(u) /\ Chain(Drop(ev, Events(en, items)), Drop(en, items), u)
      BY <1>3, <1>4, <1>7, PurgeChain DEF Events
    <2> HIDE DEF u
    <2>3. Only(a, b, {"dir"}) /\ b.dir = [a.dir EXCEPT !.state = u]
      <3> DEFINE w == Written(store, W("state", u))
      <3>1. Only(store.audit, w.audit, {"dir"}) /\ w.audit.dir = [store.audit.dir EXCEPT !.state = u]
        BY <1>2, WrittenLedger
      <3> QED BY <1>1, <2>1, <3>1
    <2>4. b.events = ev /\ b.bak = a.bak
      BY <1>2, <2>3 DEF Only, AuditFields
    <2>5. b.dir.entries = en /\ b.dir.state = u /\ DOMAIN b.dir = DOMAIN a.dir
      BY <1>4, <2>3 DEF TreeFields
    <2>6. Tree(b.dir) /\ Tree(store.audit.dir)'
      BY <1>1, <1>4, <2>2, <2>5 DEF Tree
    <2>7. PurgeLeaves(store.audit)'
      BY <1>1, <1>4, <2>1, <2>2, <2>4, <2>5, <2>6 DEF PurgeLeaves
    <2> QED BY <1>4, <1>6, <2>4, <2>6, <2>7
  <1>8. ASSUME NEW n \in DOMAIN en \ items, todo = DelEventNext(en[n].event, n),
               Chain(Drop(ev, Events(en, items \cup {n})), Drop(en, items \cup {n}), t)
        PROVE  LedgerInv'
    <2> DEFINE e == en[n].event
    <2>1. Head(todo) = W("delEvent", e) /\ todo' = DelEntryNext(n)
      BY <1>1, <1>8, LedgerRestMoves
    <2>2. Only(a, b, {"events"}) /\ b.events = Without(ev, e)
      BY <1>1, <1>2, <2>1, WrittenEvents
    <2>3. b.dir = a.dir /\ b.bak = a.bak
      BY <1>2, <2>2 DEF Only, AuditFields
    <2>4. EventsType(b.events, pending) /\ DOMAIN b.events \subseteq DOMAIN ev
      <3>1. b.events = Drop(ev, {e})
        BY <2>2 DEF Without
      <3>2. EventsType(Drop(ev, {e}), pending)
        BY <1>4, DropTyped
      <3>3. DOMAIN Drop(ev, {e}) \subseteq DOMAIN ev
        BY DEF Drop
      <3> QED BY <3>1, <3>2, <3>3
    <2>5. Drop(b.events, Events(en, items)) = Drop(ev, Events(en, items \cup {n}))
      <3>1. {e} \cup Events(en, items) = Events(en, items \cup {n})
        BY DEF Events
      <3>2. Drop(Drop(ev, {e}), Events(en, items)) = Drop(ev, {e} \cup Events(en, items))
        <4> HIDE DEF ev, en, e
        <4> QED BY <1>5, DropIs
      <3> QED BY <2>2, <3>1, <3>2 DEF Without
    <2>6. Tree(store.audit.dir)'
      BY <1>1, <1>4, <2>3 DEF Tree
    <2>7. PurgeLeaves(store.audit)'
      <3>1. Chain(Drop(b.events, Events(b.dir.entries, items)), Drop(b.dir.entries, items \cup {n}), b.dir.state)
        BY <1>8, <2>3, <2>5
      <3> QED BY <1>1, <1>4, <1>8, <2>1, <2>3, <2>6, <3>1 DEF PurgeLeaves
    <2> QED BY <1>4, <1>6, <2>3, <2>4, <2>7
  <1>9. ASSUME NEW n \in DOMAIN en \ items, todo = DelEntryNext(n),
               Chain(Drop(ev, Events(en, items)), Drop(en, items \cup {n}), t)
        PROVE  LedgerInv'
    <2>1. Head(todo) = W("delEntry", n) /\ todo' = <<>>
      BY <1>1, <1>9 DEF DelEntryNext
    <2>2. Only(a, b, {"dir"}) /\ b.dir = [a.dir EXCEPT !.entries = Without(@, n)]
      <3> DEFINE w == Written(store, W("delEntry", n))
      <3>1. /\ Only(store.audit, w.audit, {"dir"})
            /\ w.audit.dir = [store.audit.dir EXCEPT !.entries = Without(@, n)]
        BY <1>2, WrittenLedger
      <3> QED BY <1>1, <2>1, <3>1
    <2>3. b.events = ev /\ b.bak = a.bak
      BY <1>2, <2>2 DEF Only, AuditFields
    <2> DEFINE xn == Drop(en, {n})
    <2>4. b.dir.entries = xn /\ b.dir.state = t /\ DOMAIN b.dir = DOMAIN a.dir
      BY <1>4, <2>2 DEF TreeFields, Without
    <2>5. EntriesType(xn, pending)
      BY <1>4, DropTyped
    <2>6. Tree(b.dir) /\ Tree(store.audit.dir)'
      BY <1>1, <1>4, <2>4, <2>5 DEF Tree
    <2>7. items \subseteq DOMAIN xn /\ \A m \in items : xn[m] = en[m]
      BY <1>4, <1>9 DEF Drop
    <2>8. Events(xn, items) = Events(en, items)
      BY <2>7 DEF Events
    <2>9. Drop(xn, items) = Drop(en, items \cup {n})
      <3>1. {n} \cup items = items \cup {n}
        OBVIOUS
      <3>2. Drop(Drop(en, {n}), items) = Drop(en, {n} \cup items)
        <4> HIDE DEF en
        <4> QED BY <1>5, DropIs
      <3> QED BY <3>1, <3>2
    <2> HIDE DEF xn
    <2>10. PurgeLeaves(store.audit)'
      <3>1. Chain(Drop(b.events, Events(b.dir.entries, items)), Drop(b.dir.entries, items), b.dir.state)
        BY <1>9, <2>3, <2>4, <2>8, <2>9
      <3> QED BY <1>1, <2>1, <2>4, <2>6, <2>7, <3>1 DEF PurgeLeaves
    <2> QED BY <1>4, <1>6, <2>3, <2>6, <2>10
  <1> QED BY <1>1, <1>3, <1>7, <1>8, <1>9 DEF PurgeLeaves

\* A write of a recording: the event file, its entry or the state.
LEMMA LedgerWriteAppend ==
  ASSUME ControlInv, HistoryInv, UpkeepInv, LedgerInv, WriteStep, current = "append"
  PROVE  LedgerInv'
  <1>1. /\ UNCHANGED <<phase, kind, classes, current, items, pending, failed, rested>> /\ phase = "working"
        /\ todo # <<>> /\ todo' = Tail(todo) /\ store' = Written(store, Head(todo))
    BY DEF WriteStep
  <1>2. StoreFields \subseteq DOMAIN store /\ AuditFields \subseteq DOMAIN store.audit
    BY DEF ControlInv, StoreShape, AuditFields
  <1> DEFINE a == store.audit  b == store'.audit
             ev == a.events
             en == a.dir.entries
             t == a.dir.state
             h == t.head + 1
             X == AppendedEntry(t, pending, "full")
  <1>3. ~rested' /\ FilesNumbered /\ Fresh /\ AppendLeaves(a) /\ kind = "record"
    BY <1>1 DEF UpkeepInv, LedgerInv, Trusted, LedgerClasses, LedgerLeaves, ControlInv, Control,
                StartupStage, RetentionStage, RecordStage, AnonymizeStage
  <1>4. pending \in Nat /\ pending > 0
    BY <1>1, <1>3 DEF HistoryInv, Unacknowledged
  <1>5. /\ Tree(a.dir) /\ EventsType(ev, pending)
        /\ EntriesType(en, pending) /\ StateType(t) /\ TreeFields \subseteq DOMAIN a.dir
    BY <1>3 DEF AppendLeaves, FilesNumbered, Tree
  <1>6. ev = [e \in DOMAIN ev |-> ev[e]] /\ en = [n \in DOMAIN en |-> en[n]] /\ t.head \in Nat
    BY <1>5 DEF EventsType, EntriesType, StateType
  <1>7. /\ EventNext(t) # <<>> /\ Head(EventNext(t)) = W("event", pending) /\ Tail(EventNext(t)) = EntryNext(t)
        /\ EntryNext(t) # <<>> /\ Head(EntryNext(t)) = EntryWrite(t) /\ Tail(EntryNext(t)) = StateNext(t)
        /\ StateNext(t) # <<>> /\ Head(StateNext(t)) = StateWrite(t) /\ Tail(StateNext(t)) = <<>>
    BY LedgerRestMoves
  <1>8. ASSUME EventsType(b.events, pending), b.bak = a.bak, Tree(b.dir), NextOp' # "event",
               AppendLeaves(store.audit)'
        PROVE  LedgerInv'
    <2>1. Fresh'
      BY <1>1, <1>8 DEF Fresh
    <2>2. LedgerLeaves(store.audit)'
      BY <1>1, <1>8 DEF LedgerLeaves, LedgerClasses
    <2> QED BY <1>1, <1>3, <1>8, <2>1, <2>2, LedgerGoesOn DEF FilesNumbered
  <1>9. ASSUME NEW s, s = store'.audit.dir.state
        PROVE  /\ EntryNext(s) = EntryNext(store.audit.dir.state)'
               /\ StateNext(s) = StateNext(store.audit.dir.state)'
    BY <1>1, <1>9 DEF EntryNext, StateNext, EntryWrite, StateWrite
  <1>10. CASE todo = EventNext(t) /\ Chain(ev, en, t)
    <2>1. Head(todo) = W("event", pending) /\ todo' = EntryNext(t)
      BY <1>1, <1>7, <1>10
    <2>2. pending \notin DOMAIN ev
      <3>1. NextOp = "event"
        BY <1>1, <2>1, WFields DEF NextOp
      <3> QED BY <1>1, <1>3, <3>1 DEF Fresh
    <2>3. Only(a, b, {"events"}) /\ b.events = With(ev, pending, "full")
      BY <1>1, <1>2, <2>1, WrittenEvents
    <2>4. b.dir = a.dir /\ b.bak = a.bak
      BY <1>2, <2>3 DEF Only, AuditFields
    <2>5. /\ EventsType(b.events, pending)
          /\ pending \in DOMAIN b.events /\ b.events[pending] = "full"
      BY <1>4, <1>5, <2>3 DEF EventsType, Bodies, With
    <2>6. Drop(b.events, {pending}) = ev
      <3>1. Drop(With(ev, pending, "full"), {pending}) = ev
        <4> HIDE DEF ev
        <4> QED BY <1>6, <2>2, DropIs
      <3> QED BY <2>3, <3>1
    <2>7. Tree(b.dir) /\ Tree(store.audit.dir)'
      BY <1>1, <1>5, <2>4 DEF Tree
    <2>8. NextOp' # "event"
      BY <1>7, <2>1, WFields DEF NextOp, EntryWrite
    <2>9. todo' = EntryNext(store.audit.dir.state)'
      BY <1>9, <2>1, <2>4
    <2>10. AppendLeaves(store.audit)'
      <3>1. Chain(Drop(b.events, {pending}), b.dir.entries, b.dir.state)
        BY <1>10, <2>4, <2>6
      <3> QED BY <1>1, <2>5, <2>7, <2>9, <3>1 DEF AppendLeaves
    <2> QED BY <1>8, <2>4, <2>5, <2>7, <2>8, <2>10
  <1>11. CASE /\ todo = EntryNext(t) /\ pending \in DOMAIN ev /\ ev[pending] = "full"
              /\ Chain(Drop(ev, {pending}), en, t)
    <2>1. Head(todo) = W("entry", [n |-> h, entry |-> X]) /\ todo' = StateNext(t)
      BY <1>1, <1>7, <1>11 DEF EntryWrite
    <2>2. Only(a, b, {"dir"}) /\ b.dir = [a.dir EXCEPT !.entries = With(@, h, X)]
      <3>0. PICK r : r = [n |-> h, entry |-> X]
        OBVIOUS
      <3> DEFINE w == Written(store, W("entry", r))
      <3>1. /\ Only(store.audit, w.audit, {"dir"})
            /\ w.audit.dir = [store.audit.dir EXCEPT !.entries = With(@, r.n, r.entry)]
        BY <1>2, WrittenLedger
      <3>2. r.n = h /\ r.entry = X
        BY <3>0
      <3> QED BY <1>1, <2>1, <3>0, <3>1, <3>2
    <2>3. b.events = ev /\ b.bak = a.bak
      BY <1>2, <2>2 DEF Only, AuditFields
    <2> DEFINE fn == With(en, h, X)
    <2>4. b.dir.entries = fn /\ b.dir.state = t /\ DOMAIN b.dir = DOMAIN a.dir
      BY <1>5, <2>2 DEF TreeFields
    <2>5. EntriesType(fn, pending)
      <3>1. EventsType(Drop(ev, {pending}), pending)
        BY <1>5, DropTyped
      <3>2. pending \notin DOMAIN Drop(ev, {pending})
        BY DEF Drop
      <3> QED BY <1>4, <1>5, <1>11, <3>1, <3>2, AppendChain
    <2>6. Tree(b.dir) /\ Tree(store.audit.dir)'
      BY <1>1, <1>5, <2>4, <2>5 DEF Tree
    <2>7. h \notin DOMAIN en
      <3> HIDE DEF en, t
      <3>1. DOMAIN en = (t.anchor + 1)..t.head /\ t.anchor \in 0..t.head
        BY <1>11 DEF Chain, ValidChainState
      <3> QED BY <1>6, <3>1
    <2>8. h \in DOMAIN fn /\ fn[h] = X /\ Drop(fn, {h}) = en
      <3>1. Drop(With(en, h, X), {h}) = en
        <4> HIDE DEF en, h, X
        <4> QED BY <1>6, <2>7, DropIs
      <3> QED BY <3>1 DEF With
    <2> HIDE DEF fn
    <2>9. NextOp' # "event"
      BY <1>7, <2>1, WFields DEF NextOp, StateWrite
    <2>10. todo' = StateNext(store.audit.dir.state)'
      BY <1>9, <2>1, <2>4
    <2>11. AppendLeaves(store.audit)'
      <3> DEFINE s == b.dir.state
      <3>1. /\ s.head + 1 = h /\ AppendedEntry(s, pending', "full") = X
            /\ Chain(Drop(b.events, {pending}), Drop(b.dir.entries, {h}), s)
        BY <1>1, <1>11, <2>3, <2>4, <2>8
      <3> QED BY <1>1, <1>11, <2>3, <2>4, <2>6, <2>8, <2>10, <3>1 DEF AppendLeaves
    <2> QED BY <1>5, <1>8, <2>3, <2>6, <2>9, <2>11
  <1>12. CASE /\ todo = StateNext(t) /\ pending \in DOMAIN ev /\ ev[pending] = "full"
              /\ h \in DOMAIN en /\ en[h] = X /\ Chain(Drop(ev, {pending}), Drop(en, {h}), t)
    <2> DEFINE u == AppendedState(t, pending, "full")
               xv == Drop(ev, {pending})
               xn == Drop(en, {h})
    <2>1. Head(todo) = W("state", u) /\ todo' = <<>>
      BY <1>1, <1>7, <1>12 DEF StateWrite
    <2>2. With(xv, pending, "full") = ev /\ With(xn, h, X) = en
      <3>1. With(Drop(ev, {pending}), pending, ev[pending]) = ev
        <4> HIDE DEF ev
        <4> QED BY <1>6, <1>12, DropIs
      <3>2. With(Drop(en, {h}), h, en[h]) = en
        <4> HIDE DEF en, h
        <4> QED BY <1>6, <1>12, DropIs
      <3> QED BY <1>12, <3>1, <3>2
    <2>3. EventsType(xv, pending) /\ EntriesType(xn, pending) /\ pending \notin DOMAIN xv
      <3>1. EventsType(xv, pending) /\ EntriesType(xn, pending)
        BY <1>5, DropTyped
      <3> QED BY <3>1 DEF Drop
    <2> HIDE DEF xv, xn
    <2>4. StateType(u) /\ Chain(ev, en, u)
      BY <1>4, <1>5, <1>12, <2>2, <2>3, AppendChain DEF xv, xn
    <2> HIDE DEF u
    <2>5. Only(a, b, {"dir"}) /\ b.dir = [a.dir EXCEPT !.state = u]
      <3> DEFINE w == Written(store, W("state", u))
      <3>1. Only(store.audit, w.audit, {"dir"}) /\ w.audit.dir = [store.audit.dir EXCEPT !.state = u]
        BY <1>2, WrittenLedger
      <3> QED BY <1>1, <2>1, <3>1
    <2>6. b.events = ev /\ b.bak = a.bak
      BY <1>2, <2>5 DEF Only, AuditFields
    <2>7. b.dir.entries = en /\ b.dir.state = u /\ DOMAIN b.dir = DOMAIN a.dir
      BY <1>5, <2>5 DEF TreeFields
    <2>8. Tree(b.dir) /\ Tree(store.audit.dir)'
      BY <1>1, <1>5, <2>4, <2>7 DEF Tree
    <2>9. NextOp' # "event"
      BY <2>1 DEF NextOp
    <2>10. AppendLeaves(store.audit)'
      BY <2>1, <2>4, <2>6, <2>7, <2>8 DEF AppendLeaves
    <2> QED BY <1>5, <1>8, <2>6, <2>8, <2>9, <2>10
  <1> QED BY <1>1, <1>3, <1>10, <1>11, <1>12 DEF AppendLeaves

\* A write of the rotation: the old ledger goes aside, the next one is built.
LEMMA LedgerWriteRotate ==
  ASSUME ControlInv, HistoryInv, UpkeepInv, LedgerInv, WriteStep, current = "rotate"
  PROVE  LedgerInv'
  <1>1. /\ UNCHANGED <<phase, kind, classes, current, items, pending, failed, rested>> /\ phase = "working"
        /\ todo # <<>> /\ todo' = Tail(todo) /\ store' = Written(store, Head(todo))
    BY DEF WriteStep
  <1>2. StoreFields \subseteq DOMAIN store /\ AuditFields \subseteq DOMAIN store.audit
    BY DEF ControlInv, StoreShape, AuditFields
  <1> DEFINE a == store.audit  b == store'.audit
  <1>3. ~rested' /\ FilesNumbered /\ RotateLeaves(a) /\ kind = "anonymize" /\ pending \in Nat
    BY <1>1 DEF UpkeepInv, LedgerInv, Trusted, LedgerClasses, LedgerLeaves, HistoryInv, ControlInv, Control,
                StartupStage, RetentionStage, RecordStage, AnonymizeStage
  <1>4. EventsType(a.events, pending)
    BY <1>3 DEF FilesNumbered
  <1>5. ASSUME b.events = a.events, b.dir # None => Tree(b.dir), b.bak # None => Tree(b.bak),
               RotateLeaves(store.audit)'
        PROVE  LedgerInv'
    <2>1. Fresh'
      BY <1>1, <1>3 DEF Fresh
    <2>2. LedgerLeaves(store.audit)'
      BY <1>1, <1>5 DEF LedgerLeaves, LedgerClasses
    <2> QED BY <1>1, <1>3, <1>4, <1>5, <2>1, <2>2, LedgerGoesOn
  <1>6. ASSUME NEW t, todo = SwapOutNext(t), Rotatable(t) PROVE LedgerInv'
    <2>1. Head(todo) = W("swapOut", None) /\ todo' = SwapInNext(t)
      BY <1>1, <1>6, OtherRestMoves
    <2>2. Only(a, b, {"dir", "bak"}) /\ b.dir = None /\ b.bak = a.dir
      BY <1>1, <1>2, <2>1, WrittenSwap
    <2>3. b.events = a.events
      BY <1>2, <2>2 DEF Only, AuditFields
    <2>4. RotateLeaves(store.audit)'
      BY <1>6, <2>1 DEF RotateLeaves
    <2> QED BY <1>3, <1>5, <2>2, <2>3, <2>4 DEF FilesNumbered
  <1>7. ASSUME NEW t, todo = SwapInNext(t), Rotatable(t) PROVE LedgerInv'
    <2>1. Head(todo) = W("swapIn", t) /\ todo' = DropBakNext
      BY <1>1, <1>7, OtherRestMoves
    <2>2. Only(a, b, {"dir"}) /\ b.dir = RotatedTree(a, t)
      BY <1>1, <1>2, <2>1, WrittenSwap
    <2>3. b.events = a.events /\ b.bak = a.bak
      BY <1>2, <2>2 DEF Only, AuditFields
    <2> DEFINE g == t.gen + 1
               parent == t.headDigest
               anchor == RotationSeed(parent)
               d == BuildTree(a.events, g, parent, anchor)
    <2>4. g \in Nat \ {0} /\ g > 1 /\ parent \in Digest /\ parent # ChainZero
      BY <1>7 DEF Rotatable, StateType
    <2>5. anchor \in Digest /\ Starts(g, parent, anchor)
      <3>1. "rotation" \in Link
        BY DEF Link
      <3>2. Append(parent, "rotation") \in Digest
        BY <2>4, <3>1 DEF Digest
      <3> QED BY <2>4, <3>2 DEF RotationSeed, Starts
    <2> HIDE DEF g, parent, anchor
    <2>6. /\ DOMAIN d = {"entries", "state"}
          /\ StateType(d.state) /\ EntriesType(d.entries, pending) /\ Chain(a.events, d.entries, d.state)
      BY <1>3, <1>4, <2>4, <2>5, BuildChain
    <2>7. b.dir = d
      BY <2>2 DEF RotatedTree, g, parent, anchor
    <2> HIDE DEF d
    <2>8. Tree(b.dir) /\ Linked(store.audit)'
      BY <1>1, <2>3, <2>6, <2>7 DEF Tree, TreeFields, Linked
    <2>9. RotateLeaves(store.audit)'
      BY <2>1, <2>8 DEF RotateLeaves
    <2> QED BY <1>3, <1>5, <2>3, <2>8, <2>9 DEF FilesNumbered
  <1>8. CASE todo = DropBakNext /\ Linked(a)
    <2>1. Head(todo) = W("dropBak", None) /\ todo' = <<>>
      BY <1>1, <1>8, OtherRestMoves
    <2>2. Only(a, b, {"bak"}) /\ b.bak = None
      BY <1>1, <1>2, <2>1, WrittenSwap
    <2>3. b.events = a.events /\ b.dir = a.dir
      BY <1>2, <2>2 DEF Only, AuditFields
    <2>4. RotateLeaves(store.audit)'
      BY <1>1, <1>8, <2>1, <2>3 DEF RotateLeaves, Linked, Tree
    <2> QED BY <1>3, <1>5, <2>2, <2>3, <2>4 DEF FilesNumbered
  <1> QED BY <1>1, <1>3, <1>6, <1>7, <1>8 DEF RotateLeaves

\* A write of the other classes: an event rewritten, or nothing of the ledger.
LEMMA LedgerWriteOther ==
  ASSUME ControlInv, HistoryInv, UpkeepInv, LedgerInv, WriteStep, current \notin {"audit", "append", "rotate"}
  PROVE  LedgerInv'
  <1>1. /\ UNCHANGED <<phase, kind, classes, current, items, pending, failed, rested>> /\ phase = "working"
        /\ todo # <<>> /\ todo' = Tail(todo) /\ store' = Written(store, Head(todo))
    BY DEF WriteStep
  <1>2. StoreFields \subseteq DOMAIN store /\ AuditFields \subseteq DOMAIN store.audit
    BY DEF ControlInv, StoreShape, AuditFields
  <1> DEFINE a == store.audit  b == store'.audit
  <1>3. ~rested' /\ FilesNumbered /\ Fresh /\ current \in RecordClasses \cup LedgerClasses
    BY <1>1, WriteSides DEF UpkeepInv, LedgerInv
  <1>4. CASE current = "anonymize"
    <2>1. PICK e : todo = RewriteNext(e)
      BY <1>1, <1>4 DEF ControlInv, Control, TodoForm
    <2>2. Head(todo) = W("rewrite", e)
      BY <2>1, OtherRestMoves
    <2>3. Only(a, b, {"events"}) /\ b.events = [a.events EXCEPT ![e] = "anonymous"]
      BY <1>1, <1>2, <2>2, WrittenEvents
    <2>4. b.dir = a.dir /\ b.bak = a.bak
      BY <1>2, <2>3 DEF Only, AuditFields
    <2>5. EventsType(b.events, pending)
      BY <1>3, <2>3 DEF FilesNumbered, EventsType, Bodies
    <2>6. Tree(a.dir) /\ Rotatable(a.dir.state) /\ classes = <<"rotate">> /\ kind = "anonymize"
      BY <1>1, <1>4 DEF LedgerInv, Trusted, LedgerClasses, LedgerLeaves, ControlInv, Control, StartupStage,
                        RetentionStage, RecordStage, AnonymizeStage
    <2>7. Tree(store.audit.dir)' /\ Rotatable(store.audit.dir.state)'
      BY <1>1, <2>4, <2>6 DEF Tree
    <2>8. LedgerLeaves(store.audit)' /\ Fresh'
      BY <1>1, <1>4, <2>6, <2>7 DEF LedgerLeaves, LedgerClasses, Fresh
    <2> QED BY <1>1, <1>3, <2>4, <2>5, <2>6, <2>8, LedgerGoesOn DEF FilesNumbered
  <1>5. CASE current \in RecordClasses
    <2>1. b = a /\ current \notin LedgerClasses
      BY <1>1, <1>5, WriteSides DEF RecordClasses, LedgerClasses
    <2>2. Fresh'
      BY <1>1, <1>3, <1>5, <2>1 DEF Fresh, RecordClasses
    <2>3. ASSUME Trusted' PROVE LedgerLeaves(store.audit)'
      <3>1. Trusted
        BY <1>1, <2>1, <2>3 DEF Trusted, Startup
      <3>2. Linked(a)
        BY <2>1, <3>1 DEF LedgerInv, LedgerLeaves
      <3>3. Linked(store.audit)'
        BY <1>1, <2>1, <3>2 DEF Linked, Tree
      <3> QED BY <1>1, <2>1, <3>3 DEF LedgerLeaves, LedgerClasses
    <2> QED BY <1>1, <1>3, <2>1, <2>2, <2>3, LedgerGoesOn DEF FilesNumbered
  <1> QED BY <1>3, <1>4, <1>5 DEF LedgerClasses

\* Every step leaves a ledger that is whole, on its way to it, or known to have failed.
LEMMA LedgerStep ==
  ASSUME ControlInv, HistoryInv, UpkeepInv, LedgerInv, [Next]_vars
  PROVE  LedgerInv'
  <1>1. CASE StartService
    <2>1. /\ phase' = "working" /\ kind' = "startup" /\ current' = "startup" /\ store' = store
          /\ pending' = pending /\ ~rested'
      BY <1>1 DEF StartService, ledgerVars
    <2>2. ~Trusted'
      BY <2>1 DEF Trusted, Startup, LedgerClasses
    <2> QED BY <2>1, <2>2, LedgerTurns
  <1>2. CASE StopService
    <2>1. /\ phase = "idle" /\ phase' = "stopped" /\ rested' = (failed = {}) /\ store' = store /\ pending' = pending
          /\ current = "startup" /\ todo = <<>> /\ items = {}
      BY <1>2 DEF StopService, ledgerVars, ControlInv, Control
    <2>2. \A d : Tree(d)' <=> Tree(d)
      BY <2>1 DEF Tree
    <2>3. FilesNumbered' /\ Fresh' /\ ~Trusted'
      BY <2>1, <2>2 DEF LedgerInv, FilesNumbered, Fresh, Trusted
    <2>4. ASSUME rested' PROVE Linked(store.audit)'
      <3>1. Trusted
        BY <2>1, <2>4 DEF Trusted, Startup
      <3>2. Linked(store.audit)
        BY <2>1, <3>1, LedgerRests
      <3> QED BY <2>1, <2>2, <3>2 DEF Linked
    <2> QED BY <2>3, <2>4 DEF LedgerInv
  <1>3. CASE Crash
    BY <1>3, LedgerDown DEF Crash, ledgerVars
  <1>4. CASE LateWrite
    <2>1. UNCHANGED <<pending, phase, kind, classes, current, items, todo, failed, rested>>
      BY <1>4 DEF LateWrite, Idle, ledgerVars
    <2>2. store'.audit = store.audit
      <3>1. StoreFields \subseteq DOMAIN store
        BY DEF ControlInv, StoreShape
      <3>2. CASE \E j \in DOMAIN store.jobs : store' = [store EXCEPT !.advisories = @ \cup {j}]
        BY <3>1, <3>2 DEF StoreFields
      <3>3. CASE \E u \in store.auth.users : store' = [store EXCEPT !.auth.sessions = @ \cup {u}]
        BY <3>1, <3>3 DEF StoreFields
      <3> QED BY <1>4, <3>2, <3>3 DEF LateWrite
    <2> QED BY <2>1, <2>2, LedgerSame
  <1>5. CASE \/ Tick \/ BackupBegin \/ BackupSeal \/ ToolFails \/ BundleDecays \/ RestoreBegin \/ RestoreCopy
             \/ RestorePublish \/ UNCHANGED vars
    <2>1. UNCHANGED <<store, pending, phase, kind, classes, current, items, todo, failed, rested>>
      BY <1>5 DEF Tick, BackupBegin, BackupSeal, ToolFails, BundleDecays, RestoreBegin, RestoreCopy,
                  RestorePublish, vars, Idle, ledgerVars
    <2> QED BY <2>1, LedgerSame
  <1>6. CASE WriteStep
    BY <1>6, LedgerWriteAudit, LedgerWriteAppend, LedgerWriteRotate, LedgerWriteOther
  <1> QED BY <1>1, <1>2, <1>3, <1>4, <1>5, <1>6, LedgerTurn, LedgerAnonymize, LedgerBegin, LedgerTake, LedgerFail
          DEF Next

\* At a clean stop the references, the bytes, the indexes and the ledger agree.
LEMMA RestIsAccepted ==
  ASSUME ReferenceInv, KeptInv, UpkeepInv, LedgerInv
  PROVE  AcceptedAtRest
  <1> SUFFICES ASSUME phase = "stopped", rested, intact, LatestRetained(store), store.audit.bak = None
               PROVE  ValidateDataStore(store)
    BY DEF AcceptedAtRest
  <1>1. Lasting(store) /\ References(store)
    BY DEF KeptInv, ReferenceInv
  <1>2. ~Down /\ ~(phase \in {"idle", "working"}) /\ \A S : ~Startup(S)
    BY DEF Down, Startup
  <1>3. Uploads /\ Indexes
    BY DEF UpkeepInv
  <1>4. ValidUploadedPayloads(store)
    <2>1. DOMAIN store.payloads = DOMAIN store.files
      BY <1>2, <1>3 DEF Uploads
    <2> QED BY <1>3, <2>1 DEF Uploads, ValidUploadedPayloads
  <1>5. ValidFileRetentionIndex(store) /\ ValidActiveJobIndex(store) /\ ValidProjectReferenceIndex(store)
    BY <1>2, <1>3 DEF Indexes, Stale, IndexMatches, ValidFileRetentionIndex, ValidActiveJobIndex,
                      ValidProjectReferenceIndex
  <1>6. ValidProductAudit(store)
    <2>1. Linked(store.audit)
      BY DEF LedgerInv
    <2> QED BY <2>1, ValidIsChain DEF Linked, ValidProductAudit
  <1> QED BY <1>1, <1>4, <1>5, <1>6, AcceptedIs

\* Every directory the service leaves after a clean stop with no failed class
\* is one the backup accepts, whatever crashes and failed writes came before,
\* as long as the latest analyses are retained and no interrupted rotation
\* left its backup directory: retention comes back to every purge that was cut
\* short, every index is rebuilt or synchronized, and the audit chain links
\* (backup.py validate_data_store; retention.py; product_audit.py).
THEOREM AcceptedAfterStop == Spec => []AcceptedAtRest
  <1>1. Init => HistoryInv /\ ReferenceInv /\ KeptInv /\ UpkeepInv /\ LedgerInv
    BY HistoryInit, ReferenceInit, KeptInit, UpkeepInit, LedgerInit
  <1>2. ControlInv /\ HistoryInv /\ [Next]_vars => HistoryInv'
    BY HistoryStep
  <1>3. ControlInv /\ ReferenceInv /\ [Next]_vars => ReferenceInv'
    BY ReferenceStep
  <1>4. ControlInv /\ KeptInv /\ [Next]_vars => KeptInv'
    BY KeptStep
  <1>5. ControlInv /\ KeptInv /\ UpkeepInv /\ [Next]_vars => UpkeepInv'
    BY UpkeepStep
  <1>6. ControlInv /\ HistoryInv /\ UpkeepInv /\ LedgerInv /\ [Next]_vars => LedgerInv'
    BY LedgerStep
  <1>7. ReferenceInv /\ KeptInv /\ UpkeepInv /\ LedgerInv => AcceptedAtRest
    BY RestIsAccepted
  <1> QED BY <1>1, <1>2, <1>3, <1>4, <1>5, <1>6, <1>7, ControlInvariant, PTL DEF Spec
=============================================================================
