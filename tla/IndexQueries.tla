---------------------------- MODULE IndexQueries ----------------------------
(***************************************************************************)
(* The rows the derived SQLite indexes keep of the JSON records, and the   *)
(* queries they answer (backend/app/active_job_index.py,                   *)
(* project_reference_index.py, file_retention_index.py,                    *)
(* active_verification_index.py, active_recurrence_index.py).              *)
(*                                                                         *)
(* A table is a function from identifiers to rows.  A row carries the      *)
(* digest of its record, here the record itself; references are digests of *)
(* identifiers, here the identifiers.  Instants are numbers, and pages and *)
(* batches are cut in the order of <<instant, identifier>> (identifiers    *)
(* are numbers, so that they have an order).                               *)
(***************************************************************************)
EXTENDS Absence, Integers, FiniteSets, SequencesExt

Inflight == {"queued", "running", "cancelling"}
Terminal == {"completed", "failed", "cancelled"}

(* ORDER BY instant, identifier; LIMIT n. *)
Before(a, b) == a[1] < b[1] \/ (a[1] = b[1] /\ a[2] < b[2])
Oldest(S, at(_), n) ==
    LET all == SetToSortSeq(S, LAMBDA x, y : Before(<<at(x), x>>, <<at(y), y>>))
    IN  SubSeq(all, 1, IF Len(all) < n THEN Len(all) ELSE n)
Newest(S, at(_), n) ==
    LET all == SetToSortSeq(S, LAMBDA x, y : Before(<<at(y), y>>, <<at(x), x>>))
    IN  SubSeq(all, 1, IF Len(all) < n THEN Len(all) ELSE n)

-----------------------------------------------------------------------------
(* Rows (_replace_record). *)
(* _record_is_degraded *)
Degraded(r) == r.status = "completed" /\ r.result \in {"partial", "timed_out"}

JobRow(r) ==
    [owner |-> r.owner, asset |-> r.asset, project |-> r.project, type |-> r.type,
     status |-> r.status, degraded |-> Degraded(r), key |-> r.key, created |-> r.created,
     updated |-> r.updated, file |-> r.file, gone |-> r.gone, digest |-> r]

(* A source counts as deleted once every snapshot of it is. *)
\* Mutant of ProjectRow.
ProjectRowAnyDeleted(r) ==
    [owner |-> r.owner, updated |-> r.updated, baseline |-> r.baseline,
     responsible |-> IF r.assigned THEN r.responsible ELSE None,
     sources |-> [f \in {n.file : n \in r.snaps} |-> \E n \in r.snaps : n.file = f /\ n.gone],
     digest |-> r]
ProjectRow(r) ==
    [owner |-> r.owner, updated |-> r.updated, baseline |-> r.baseline,
     responsible |-> IF r.assigned THEN r.responsible ELSE None,
     sources |-> [f \in {n.file : n \in r.snaps} |-> \A n \in r.snaps : n.file = f => n.gone],
     digest |-> r]

FileRow(r) == [owner |-> r.owner, created |-> r.created, name |-> r.name, digest |-> r]

VerificationRow(r) ==
    [owner |-> r.owner, asset |-> r.asset, status |-> r.status, created |-> r.created,
     challengeEnds |-> r.challengeEnds, verifiedEnds |-> r.verifiedEnds, digest |-> r]

RecurrenceRow(r) ==
    [owner |-> r.owner, asset |-> r.asset, status |-> r.status, next |-> r.next,
     retry |-> r.retry, digest |-> r]

(* The table a _rebuild fills from every record of its directory. *)
JobTable(rs) == [x \in DOMAIN rs |-> JobRow(rs[x])]
ProjectTable(rs) == [x \in DOMAIN rs |-> ProjectRow(rs[x])]
FileTable(rs) == [x \in DOMAIN rs |-> FileRow(rs[x])]
VerificationTable(rs) == [x \in DOMAIN rs |-> VerificationRow(rs[x])]
RecurrenceTable(rs) == [x \in DOMAIN rs |-> RecurrenceRow(rs[x])]
TableOf(kind, rs) ==
    CASE kind = "jobs" -> JobTable(rs) [] kind = "projects" -> ProjectTable(rs)
      [] kind = "files" -> FileTable(rs) [] kind = "verifications" -> VerificationTable(rs)
      [] kind = "recurrences" -> RecurrenceTable(rs)

(* What a query that reads records back returns: the records, or an error   *)
(* when one of them is missing or no longer the record that was indexed.    *)
Loaded(t, records, ids) ==
    IF \A i \in 1..Len(ids) : ids[i] \in DOMAIN records /\ records[ids[i]] = t[ids[i]].digest
    THEN ids ELSE None

-----------------------------------------------------------------------------
(* active_job_index.py *)
Where(t, P(_)) == {x \in DOMAIN t : P(t[x])}

Snapshot(t, owner, assets, n) ==
    Newest(Where(t, LAMBDA r : r.owner = owner /\ r.asset \in assets), LAMBDA x : t[x].created, n)
SnapshotTotal(t, owner) == Cardinality(Where(t, LAMBDA r : r.owner = owner /\ r.asset # None))

AssetRecords(t, asset, n) == Oldest(Where(t, LAMBDA r : r.asset = asset), LAMBDA x : t[x].created, n)

InflightForAsset(t, owner, asset, n) ==
    Oldest(Where(t, LAMBDA r : r.owner = owner /\ r.asset = asset /\ r.status \in Inflight),
           LAMBDA x : t[x].created, n)

AdmissionCounts(t, owner) ==
    LET busy == Where(t, LAMBDA r : r.status \in Inflight)
    IN  <<Cardinality(busy), Cardinality({x \in busy : t[x].owner = owner})>>

HasInflightProject(t, owner, project) ==
    Where(t, LAMBDA r : r.owner = owner /\ r.project = project /\ r.status \in Inflight) # {}

InflightProjectJobs(t) ==
    Where(t, LAMBDA r : r.type = "project_archive_basic" /\ r.status \in Inflight)

InflightRecords(t, n) == Oldest(Where(t, LAMBDA r : r.status \in Inflight), LAMBDA x : t[x].created, n)

InflightSource(t, file) ==
    Oldest(Where(t, LAMBDA r : r.file = file /\ ~r.gone /\ r.status \in Inflight),
           LAMBDA x : t[x].created, 1)

ExpiredTerminal(t, cutoff, owner, n) ==
    Oldest(Where(t, LAMBDA r : r.status \in Terminal /\ r.updated <= cutoff
                                /\ (owner # None => r.owner = owner)),
           LAMBDA x : t[x].updated, n)

SourceReferences(t, file, owner, n) ==
    Oldest(Where(t, LAMBDA r : r.file = file /\ ~r.gone /\ (owner # None => r.owner = owner)),
           LAMBDA x : t[x].created, n)

LatestProjectRecord(t, owner, project, status) ==
    Newest(Where(t, LAMBDA r : r.owner = owner /\ r.project = project /\ r.status = status),
           LAMBDA x : t[x].created, 1)

CapacityCounts(t, owner, asset, type) ==
    LET busy == Where(t, LAMBDA r : r.asset # None /\ r.status \in Inflight)
        count(P(_)) == Cardinality({x \in busy : P(t[x])})
    IN  <<Cardinality(busy), count(LAMBDA r : r.owner = owner),
          count(LAMBDA r : r.owner = owner /\ r.asset = asset), count(LAMBDA r : r.type = type)>>

IdempotentRecord(t, owner, key) ==
    SetToSeq(Where(t, LAMBDA r : r.owner = owner /\ key # None /\ r.key = key))

(* attention_asset_ids: the latest job of each capability of an asset. *)
JobAttention(t, owner) ==
    LET mine == Where(t, LAMBDA r : r.owner = owner /\ r.asset # None)
        latest == {x \in mine : \A y \in mine :
                      t[y].asset = t[x].asset /\ t[y].type = t[x].type
                      => ~Before(<<t[x].updated, x>>, <<t[y].updated, y>>)}
    IN  <<{t[x].asset : x \in {y \in latest : t[y].status = "failed"}},
          {t[x].asset : x \in {y \in latest : t[y].degraded}}>>

-----------------------------------------------------------------------------
(* project_reference_index.py *)
BaselineProjects(t, job, owner, n) ==
    Oldest(Where(t, LAMBDA r : r.baseline = job /\ (owner # None => r.owner = owner)), LAMBDA x : 0, n)
SourceProjects(t, file, owner, n) ==
    Oldest(Where(t, LAMBDA r : file \in DOMAIN r.sources /\ ~r.sources[file]
                                /\ (owner # None => r.owner = owner)), LAMBDA x : 0, n)
ResponsibleProjects(t, user, owner, n) ==
    Oldest(Where(t, LAMBDA r : r.owner = owner /\ r.responsible = user), LAMBDA x : 0, n)

(* file_retention_index.py *)
ExpiredFileRecords(t, cutoff, protected, owner, n) ==
    Oldest({x \in Where(t, LAMBDA r : r.created <= cutoff /\ (owner # None => r.owner = owner)) :
               x \notin protected}, LAMBDA x : t[x].created, n)

(* active_verification_index.py *)
LatestVerification(t, owner, asset) ==
    Newest(Where(t, LAMBDA r : r.owner = owner /\ r.asset = asset), LAMBDA x : t[x].created, 1)
AssetVerifications(t, owner, asset, n) ==
    Oldest(Where(t, LAMBDA r : r.owner = owner /\ r.asset = asset), LAMBDA x : t[x].created, n)
VerificationAttention(t, owner, now) ==
    LET mine == Where(t, LAMBDA r : r.owner = owner)
        latest == {x \in mine : \A y \in mine : t[y].asset = t[x].asset
                      => ~Before(<<t[x].created, x>>, <<t[y].created, y>>)}
    IN  {t[x].asset : x \in {y \in latest :
            \/ t[y].status \in {"failed", "expired"}
            \/ t[y].status = "pending" /\ t[y].challengeEnds <= now
            \/ t[y].status = "verified" /\ t[y].verifiedEnds # None /\ t[y].verifiedEnds <= now}}

(* active_recurrence_index.py: batches of `batch` rows until `n` of them are *)
(* eligible; the result does not depend on the batch.                        *)
DueRecords(t, now, n, eligible) ==
    LET due == Where(t, LAMBDA r : r.status = "active" /\ r.next <= now /\ (r.retry # None => r.retry <= now))
    IN  Oldest({x \in due : t[x].digest \in eligible}, LAMBDA x : t[x].next, n)
AssetRecurrences(t, owner, assets, n) ==
    Oldest(Where(t, LAMBDA r : r.owner = owner /\ r.asset \in assets), LAMBDA x : 0, n)
=============================================================================
