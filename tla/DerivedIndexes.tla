--------------------------- MODULE DerivedIndexes ---------------------------
(***************************************************************************)
(* The protocol that keeps a derived SQLite index behind its directory of  *)
(* JSON records, and the keyset pages that are cut from it.  Five indexes  *)
(* follow it; a behaviour follows one of them (`ixKind`).                  *)
(*                                                                         *)
(* A record is replaced or removed first and the index is synchronised     *)
(* after it, both under the store's lock, so queries see either both or,   *)
(* after a crash or a failed write, only the first.  The directory's stat  *)
(* is a counter that grows with every change; a process remembers the one  *)
(* it last agreed with and the index file stores it too.                   *)
(***************************************************************************)
EXTENDS IndexQueries

CONSTANTS
    Kinds,        \* the indexes to follow
    Values,       \* Values[k]: the records a write may store, [id, owner, ...]
    Reader,       \* the organization that pages through its records
    PageSize,
    MaxWrites,    \* bound: record writes
    MaxIndexFaults     \* bound: failed syncs and rebuilds, lost index files, crashes

ASSUME DerivedIndexesAssumption ==
    /\ PageSize \in Nat \ {0} /\ MaxWrites \in Nat /\ MaxIndexFaults \in Nat
    /\ Kinds \subseteq {"jobs", "projects", "files", "verifications", "recurrences"}
    /\ \A k \in Kinds : \A r \in Values[k] : r.id # None

VARIABLES
    ixKind,
    records,      \* identifier -> record: the JSON files
    dir,          \* the directory's stat
    file,         \* the index file, None or [rows, marker]
    mem,          \* what this process last agreed with: None or a stat
    writing,      \* the identifier written and not yet synchronised, or None
    missed,       \* identifiers whose sync and rebuild both failed since the last rebuild
    walk,         \* the page walk, None or [cutoff, boundary, revision, seen, steady, done]
    ixWrites,
    ixFaults

ixVars == <<ixKind, records, dir, file, mem, writing, missed, walk, ixWrites, ixFaults>>

Chosen(P(_)) == {x \in DOMAIN records : P(records[x])}
Table == TableOf(ixKind, records)

-----------------------------------------------------------------------------
(* _rebuild: a new file from every record, moved over the old one. *)
Rebuilt == [rows |-> Table, marker |-> dir]

(* _ensure_current: what a query does before it reads. *)
\* Mutant of Adopts.
AdoptsUnchecked == mem = None /\ file # None
Adopts == mem = None /\ file # None /\ file.marker = dir
Trusts == mem # None /\ file # None /\ mem = dir

IndexIsCurrent ==
    IF Adopts \/ Trusts
    THEN mem' = dir /\ UNCHANGED <<file, missed>>
    ELSE /\ file' = Rebuilt
         /\ mem' = dir
         /\ missed' = {}

-----------------------------------------------------------------------------
(* A record file is replaced or removed. *)
Matches(r) == r.owner = Reader
Steady(w, x, r) ==
    IF w = None THEN w
    ELSE [w EXCEPT !.steady = IF r # None /\ Matches(r) THEN @ ELSE @ \ {x}]

WriteRecord ==
    /\ writing = None
    /\ ixWrites < MaxWrites
    /\ \E r \in Values[ixKind] :
          /\ r.id \in DOMAIN records => records[r.id] # r
          /\ records' = With(records, r.id, r)
          /\ writing' = r.id
          /\ walk' = Steady(walk, r.id, r)
    /\ dir' = dir + 1
    /\ ixWrites' = ixWrites + 1
    /\ UNCHANGED <<ixKind, file, mem, missed, ixFaults>>

RemoveRecord ==
    /\ writing = None
    /\ ixWrites < MaxWrites
    /\ \E x \in DOMAIN records :
          /\ records' = Drop(records, {x})
          /\ writing' = x
          /\ walk' = Steady(walk, x, None)
    /\ dir' = dir + 1
    /\ ixWrites' = ixWrites + 1
    /\ UNCHANGED <<ixKind, file, mem, missed, ixFaults>>

(* sync_after_save, sync_after_write, sync_after_delete and                 *)
(* sync_after_asset_delete: nothing in a process that has not used the      *)
(* index, otherwise one row and the new stat; a project removal first makes *)
(* the index current.                                                       *)
SyncedRows(rows, x) ==
    IF x \in DOMAIN records THEN With(rows, x, Table[x]) ELSE Drop(rows, {x})

Sync ==
    /\ writing # None
    /\ IF mem = None /\ ~(ixKind = "projects" /\ writing \notin DOMAIN records)
       THEN UNCHANGED <<file, mem, missed>>
       ELSE IF mem = None \/ file = None
       THEN IndexIsCurrent
       ELSE /\ file' = [rows |-> SyncedRows(file.rows, writing), marker |-> dir]
            /\ mem' = dir
            /\ missed' = missed \ {writing}
    /\ writing' = None
    /\ UNCHANGED <<ixKind, records, dir, walk, ixWrites, ixFaults>>

(* The row cannot be written (a full disk, a lock that does not end): the   *)
(* index is rebuilt, or that fails too and the handler raises although its  *)
(* record is stored.                                                        *)
SyncFails ==
    /\ writing # None
    /\ mem # None
    /\ ixFaults < MaxIndexFaults
    /\ ixFaults' = ixFaults + 1
    /\ \/ /\ file' = Rebuilt
          /\ mem' = dir
          /\ missed' = {}
          /\ UNCHANGED walk
       \/ /\ missed' = missed \cup {writing}
          /\ walk' = Steady(walk, writing, None)
          /\ UNCHANGED <<file, mem>>
    /\ writing' = None
    /\ UNCHANGED <<ixKind, records, dir, ixWrites>>

(* Any query; its rebuild may fail, and then so does the query. *)
Ask ==
    /\ writing = None
    /\ IndexIsCurrent
    /\ UNCHANGED <<ixKind, records, dir, writing, walk, ixWrites, ixFaults>>

-----------------------------------------------------------------------------
(* ActiveJobIndex.page and ProjectReferenceIndex.page, one request each.    *)
(* A job cursor carries the page boundary and the newest key of the first   *)
(* page; a project cursor carries the boundary and the directory's stat,    *)
(* and is refused once that has changed.                                    *)
Key(t, x) == <<IF ixKind = "jobs" THEN t[x].created ELSE t[x].updated, x>>

\* Mutant of Beyond.
BeyondInclusive(key, boundary) == key = boundary \/ Before(key, boundary)
Beyond(key, boundary) == Before(key, boundary)

Pageable(t, w) ==
    {x \in DOMAIN t :
        /\ t[x].owner = Reader
        /\ w # None => /\ Beyond(Key(t, x), w.boundary)
                       /\ ixKind = "jobs" => ~Before(w.cutoff, Key(t, x))}

PageOf(t, w) == Newest(Pageable(t, w), LAMBDA x : Key(t, x)[1], PageSize)

Turn(t, w) ==
    LET page == PageOf(t, w)
        keys == [i \in 1..Len(page) |-> Key(t, page[i])]
        more == Cardinality(Pageable(t, w)) > PageSize
        first == [cutoff |-> IF page = <<>> THEN None ELSE keys[1],
                  boundary |-> None, revision |-> dir, seen |-> <<>>,
                  steady |-> Chosen(Matches) \ missed, done |-> FALSE]
        at == IF w = None THEN first ELSE w
    IN  [at EXCEPT !.seen = @ \o page, !.done = ~more,
                   !.boundary = IF more THEN keys[Len(page)] ELSE None]

NextPage ==
    /\ ixKind \in {"jobs", "projects"}
    /\ writing = None
    /\ walk # None => ~walk.done
    /\ IndexIsCurrent
    /\ IF walk # None /\ ixKind = "projects" /\ walk.revision # dir
       THEN walk' = None                                   \* invalid_cursor
       ELSE walk' = IF Loaded(file'.rows, records, PageOf(file'.rows, walk)) = None
                    THEN walk ELSE Turn(file'.rows, walk)
    /\ UNCHANGED <<ixKind, records, dir, writing, ixWrites, ixFaults>>

-----------------------------------------------------------------------------
LoseIndex ==
    /\ file # None
    /\ ixFaults < MaxIndexFaults
    /\ ixFaults' = ixFaults + 1
    /\ file' = None
    /\ UNCHANGED <<ixKind, records, dir, mem, writing, missed, walk, ixWrites>>

(* The process stops anywhere, also half way through a rebuild; cursors are *)
(* signed with a key that dies with it.                                     *)
IndexRestart ==
    /\ ixFaults < MaxIndexFaults
    /\ ixFaults' = ixFaults + 1
    /\ mem' = None
    /\ writing' = None
    /\ walk' = None
    /\ UNCHANGED <<ixKind, records, dir, file, missed, ixWrites>>

IndexInit ==
    /\ ixKind \in Kinds
    /\ records = <<>>
    /\ dir = 0
    /\ file = None
    /\ mem = None
    /\ writing = None
    /\ missed = {}
    /\ walk = None
    /\ ixWrites = 0
    /\ ixFaults = 0

IndexNext ==
    \/ WriteRecord \/ RemoveRecord \/ Sync \/ SyncFails \/ Ask \/ NextPage
    \/ LoseIndex \/ IndexRestart

IndexSpec == IndexInit /\ [][IndexNext]_ixVars
-----------------------------------------------------------------------------
(* What the records themselves say, without rows. *)
Ids(q) == IF q = None THEN q ELSE ToSet(q)
All == Cardinality(DOMAIN records) + 1
IndexedOwners == {v.owner : v \in Values[ixKind]}
IndexedAssets == {v.asset : v \in Values[ixKind]} \ {None}
Instants == {0, 1, 2, 3}
Answered(ids) == Ids(Loaded(file.rows, records, ids))

JobsAgree ==
    LET t == file.rows
        Busy(r) == r.status \in Inflight
    IN
    /\ \A o \in IndexedOwners :
          /\ SnapshotTotal(t, o) = Cardinality(Chosen(LAMBDA r : r.owner = o /\ r.asset # None))
          /\ AdmissionCounts(t, o) =
                <<Cardinality(Chosen(Busy)), Cardinality(Chosen(LAMBDA r : Busy(r) /\ r.owner = o))>>
          /\ LET at(x) == <<records[x].updated, x>>
                 last(x) == \A y \in DOMAIN records :
                    records[y].owner = o /\ records[y].asset = records[x].asset
                    /\ records[y].type = records[x].type => y = x \/ Before(at(y), at(x))
                 shown(P(_)) == {records[x].asset : x \in {y \in DOMAIN records :
                    records[y].owner = o /\ records[y].asset # None /\ last(y) /\ P(records[y])}}
             IN  JobAttention(t, o) = <<shown(LAMBDA r : r.status = "failed"), shown(Degraded)>>
          /\ \A a \in IndexedAssets :
                /\ Answered(Snapshot(t, o, {a}, All)) = Chosen(LAMBDA r : r.owner = o /\ r.asset = a)
                /\ Answered(InflightForAsset(t, o, a, All)) =
                      Chosen(LAMBDA r : Busy(r) /\ r.owner = o /\ r.asset = a)
                /\ CapacityCounts(t, o, a, "active_headers")[3] =
                      Cardinality(Chosen(LAMBDA r : Busy(r) /\ r.owner = o /\ r.asset = a))
          /\ \A p \in {v.project : v \in Values[ixKind]} \ {None} :
                /\ HasInflightProject(t, o, p) =
                      (Chosen(LAMBDA r : Busy(r) /\ r.owner = o /\ r.project = p) # {})
                /\ LET done == Chosen(LAMBDA r : r.owner = o /\ r.project = p /\ r.status = "completed")
                   IN  Answered(LatestProjectRecord(t, o, p, "completed")) =
                          {x \in done : \A y \in done : y = x \/
                              Before(<<records[y].created, y>>, <<records[x].created, x>>)}
          /\ \A k \in {v.key : v \in Values[ixKind]} \ {None} :
                Answered(IdempotentRecord(t, o, k)) = Chosen(LAMBDA r : r.owner = o /\ r.key = k)
          /\ \A n \in Instants : Answered(ExpiredTerminal(t, n, o, All)) =
                Chosen(LAMBDA r : ~Busy(r) /\ r.owner = o /\ r.updated <= n)
    /\ \A a \in IndexedAssets : Answered(AssetRecords(t, a, All)) = Chosen(LAMBDA r : r.asset = a)
    /\ Answered(InflightRecords(t, All)) = Chosen(Busy)
    /\ InflightProjectJobs(t) = Chosen(LAMBDA r : Busy(r) /\ r.type = "project_archive_basic")
    /\ \A f \in {v.file : v \in Values[ixKind]} \ {None} :
          /\ (InflightSource(t, f) = <<>>) = (Chosen(LAMBDA r : Busy(r) /\ r.file = f /\ ~r.gone) = {})
          /\ Answered(SourceReferences(t, f, None, All)) = Chosen(LAMBDA r : r.file = f /\ ~r.gone)

ProjectsAgree ==
    LET t == file.rows IN
    \A o \in IndexedOwners \cup {None} :
        LET Mine(r) == o = None \/ r.owner = o IN
        /\ \A j \in {v.baseline : v \in Values[ixKind]} \ {None} :
              Answered(BaselineProjects(t, j, o, All)) = Chosen(LAMBDA r : Mine(r) /\ r.baseline = j)
        /\ \A f \in UNION {{n.file : n \in v.snaps} : v \in Values[ixKind]} :
              Answered(SourceProjects(t, f, o, All)) =
                  Chosen(LAMBDA r : Mine(r) /\ \E n \in r.snaps : n.file = f /\ ~n.gone)
        /\ o # None => \A u \in {v.responsible : v \in Values[ixKind]} \ {None} :
              Answered(ResponsibleProjects(t, u, o, All)) =
                  Chosen(LAMBDA r : r.owner = o /\ r.assigned /\ r.responsible = u)

FilesAgree ==
    \A n \in Instants, o \in IndexedOwners, kept \in SUBSET DOMAIN records :
        Answered(ExpiredFileRecords(file.rows, n, kept, o, All)) =
            Chosen(LAMBDA r : r.created <= n /\ r.owner = o) \ kept

VerificationsAgree ==
    \A o \in IndexedOwners :
        /\ \A a \in IndexedAssets :
              LET mine == Chosen(LAMBDA r : r.owner = o /\ r.asset = a) IN
              /\ Answered(AssetVerifications(file.rows, o, a, All)) = mine
              /\ Answered(LatestVerification(file.rows, o, a)) =
                    {x \in mine : \A y \in mine : y = x \/
                        Before(<<records[y].created, y>>, <<records[x].created, x>>)}
        /\ \A now \in Instants : VerificationAttention(file.rows, o, now) =
              VerificationAttention(Table, o, now)

RecurrencesAgree ==
    /\ \A now \in Instants :
          Answered(DueRecords(file.rows, now, All, {r.digest : r \in Range(file.rows)})) =
              Chosen(LAMBDA r : r.status = "active" /\ r.next <= now /\ (r.retry = None \/ r.retry <= now))
    /\ \A o \in IndexedOwners, a \in IndexedAssets :
          Answered(AssetRecurrences(file.rows, o, {a}, All)) = Chosen(LAMBDA r : r.owner = o /\ r.asset = a)

(* Whenever a query would use the index as it stands, its answer is what   *)
(* the JSON records say and never an error, whatever was lost or failed    *)
(* before; the exception are records whose row and rebuild both failed     *)
(* (the _ensure_current, sync_after_* and query methods of the indexes).   *)
AnswersAgree ==
    writing = None /\ missed = {} /\ (Adopts \/ Trusts) =>
        CASE ixKind = "jobs" -> JobsAgree
          [] ixKind = "projects" -> ProjectsAgree
          [] ixKind = "files" -> FilesAgree
          [] ixKind = "verifications" -> VerificationsAgree
          [] ixKind = "recurrences" -> RecurrencesAgree

(* A walk through the pages never shows a record twice, and once it ends   *)
(* every record that was there throughout has been shown, although other   *)
(* records were added, changed or removed between the pages                *)
(* (ActiveJobIndex.page, ProjectReferenceIndex.page).                      *)
PagesAreStable ==
    walk # None =>
        /\ IsInjective(walk.seen)
        /\ walk.done => walk.steady \subseteq ToSet(walk.seen)
=============================================================================
