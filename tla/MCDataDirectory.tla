-------------------------- MODULE MCDataDirectory ---------------------------
(***************************************************************************)
(* The stores of one data directory that share no state: retention, audit  *)
(* and backup (Stewardship), the derived indexes, the decisions about      *)
(* findings, the team's identities and its credentials.  A behaviour       *)
(* follows one of them while the others have nothing to do.                *)
(***************************************************************************)
EXTENDS Stewardship, DerivedIndexes, MCFindingDecisions, TeamAccess, Credentials

-----------------------------------------------------------------------------
(* Two organizations: "A" runs retention, "B" has one old analysis of its  *)
(* own.  Project p1 has two sources and two analyses, asset a1 one         *)
(* scheduled analysis.  The other seeds are directories another component  *)
(* left unfinished, or that lost a file.                                   *)

Project == [owner |-> "A", source |-> "f2", sha |-> "s2",
            snaps |-> {[file |-> "f1", sha |-> "s1", gone |-> FALSE],
                       [file |-> "f2", sha |-> "s2", gone |-> FALSE]},
            latest |-> "j2", baseline |-> "j1"]
Job(owner, project, asset, source) ==
    [owner |-> owner, project |-> project, asset |-> asset, file |-> source,
     gone |-> FALSE, status |-> "completed"]
Files == ("f1" :> [owner |-> "A", sha |-> "s1"]) @@ ("f2" :> [owner |-> "A", sha |-> "s2"])
Jobs == ("j1" :> Job("A", "p1", None, "f1")) @@ ("j2" :> Job("A", "p1", None, "f2")) @@
        ("j3" :> Job("A", None, "a1", None)) @@ ("j4" :> Job("B", None, None, None))
DecisionRecord == [org |-> "A", project |-> "p1", batch |-> "b1"]
RegisteredAssets == (<<"A", "a1">> :> "a1")
Verifs == (<<"A", "v1">> :> [asset |-> "a1"])
Recurs == (<<"A", "r1">> :> [asset |-> "a1", last |-> "j3"])

Base ==
    [files |-> Files, payloads |-> [f \in DOMAIN Files |-> Files[f].sha],
     fileIdx |-> [rows |-> Files, marked |-> TRUE],
     projects |-> ("p1" :> Project), projectIdx |-> [rows |-> ("p1" :> Project), marked |-> TRUE],
     jobs |-> Jobs, jobIdx |-> [rows |-> None, marked |-> FALSE],
     advisories |-> {"j1", "j2"},
     decisions |-> ("d1" :> DecisionRecord),
     receipts |-> ("b1" :> [org |-> "A", digests |-> ("d1" :> DecisionRecord)]),
     views |-> {[org |-> "A", file |-> "A"]}, inbox |-> ("A" :> {"p1"}),
     plans |-> (<<"A", "k1">> :> [status |-> "completed", digest |-> "x"]),
     artifacts |-> (<<"A", "k1">> :> "x"),
     assets |-> RegisteredAssets, assetIdx |-> RegisteredAssets, verifs |-> Verifs, verifIdx |-> Verifs,
     recurs |-> Recurs, recurIdx |-> Recurs, batches |-> (<<"A", "c1">> :> {"a1"}),
     approvals |-> {[org |-> "A", asset |-> "a1", live |-> TRUE],
                    [org |-> "A", asset |-> None, live |-> FALSE]},
     weekly |-> [key |-> "k", receipts |-> {[org |-> "A", signed |-> "k", live |-> FALSE]}],
     trend |-> [owners |-> ("A" :> 2), facts |-> ("A" :> 2),
                refresh |-> ("A" :> [state |-> "ready", started |-> TRUE, failure |-> None,
                                     built |-> "r", desired |-> "r"])],
     clock |-> ("A" :> 1),
     portfolio |-> [owners |-> ("A" :> [projects |-> 1, prefixes |-> 2]),
                    facts |-> ("A" :> 1), prefixes |-> ("A" :> 2)],
     adoption |-> {[flow |-> "upload", outcome |-> "success", count |-> 2]},
     audit |-> [events |-> <<>>, dir |-> None, bak |-> None],
     auth |-> [users |-> {"u1"}, sessions |-> {"u1"}, attempts |-> {"u1"}, schema |-> 2,
               invitations |-> {[id |-> "i1", live |-> TRUE], [id |-> "i2", live |-> FALSE]},
               tokens |-> {[id |-> "t1", live |-> TRUE], [id |-> "t2", live |-> FALSE]}],
     outbox |-> {"delivered"}, journals |-> {}, workspaces |-> {}, companions |-> FALSE,
     strays |-> {}]

(* Left unfinished by another component: not quiescent, but consistent. *)
Unfinished ==
    {[Base EXCEPT !.journals = {"project_deletions"}],
     [Base EXCEPT !.workspaces = {"w1"}],
     [Base EXCEPT !.jobs["j2"].status = "queued"],
     [Base EXCEPT !.outbox = {"pending"}],
     [Base EXCEPT !.companions = TRUE],
     [Base EXCEPT !.plans[<<"A", "k1">>].status = "running", !.artifacts = <<>>]}

(* A file was lost or brought back from elsewhere. *)
Damaged ==
    {[Base EXCEPT !.artifacts = <<>>],
     [Base EXCEPT !.receipts = <<>>],
     [Base EXCEPT !.views = {[org |-> "A", file |-> "B"]}],
     [Base EXCEPT !.inbox = ("B" :> {"p1"})],
     [Base EXCEPT !.approvals = {[org |-> "B", asset |-> "a1", live |-> TRUE]}],
     [Base EXCEPT !.weekly.key = None],
     [Base EXCEPT !.trend.facts = <<>>],
     [Base EXCEPT !.clock = ("A" :> 0)],
     [Base EXCEPT !.portfolio.prefixes = <<>>],
     [Base EXCEPT !.adoption = {[flow |-> "login", outcome |-> "custom", count |-> 1]}],
     [Base EXCEPT !.verifIdx = <<>>],
     [Base EXCEPT !.assets = <<>>, !.assetIdx = <<>>],
     [Base EXCEPT !.auth.schema = 3],
     [Base EXCEPT !.strays = {"results/.x.tmp"}],
     [Base EXCEPT !.payloads["f2"] = "other"],
     [Base EXCEPT !.projects = <<>>, !.projectIdx = [rows |-> <<>>, marked |-> TRUE]]}

MCSeeds ==
    {[store |-> Base, old |-> {"j1", "j4", "f1"}, intact |-> TRUE, faults |-> 0],
     [store |-> Base, old |-> {"j1", "j2", "j3"}, intact |-> TRUE, faults |-> 1]}
    \cup {[store |-> s, old |-> {"j1"}, intact |-> TRUE, faults |-> MaxFaults] : s \in Unfinished}
    \cup {[store |-> s, old |-> {}, intact |-> FALSE, faults |-> MaxFaults] : s \in Damaged}

-----------------------------------------------------------------------------
(* Two organizations, three records of each kind in one to three versions; *)
(* two of them are created at the same instant.                            *)

JobValue(id, owner, created, updated, status, result, asset, project, source, gone, key) ==
    [id |-> id, owner |-> owner, created |-> created, updated |-> updated, status |-> status,
     result |-> result, asset |-> asset, project |-> project, file |-> source, gone |-> gone,
     key |-> key, type |-> IF asset = None THEN "project_archive_basic" ELSE "active_headers"]
ProjectValue(id, updated, baseline, assigned, gone) ==
    [id |-> id, owner |-> "A", updated |-> updated, baseline |-> baseline, assigned |-> assigned,
     responsible |-> "u1",
     snaps |-> {[file |-> "f1", gone |-> TRUE, at |-> 1], [file |-> "f1", gone |-> gone, at |-> 2]}]
VerificationValue(id, created, status) ==
    [id |-> id, owner |-> "A", asset |-> "a1", created |-> created, status |-> status,
     challengeEnds |-> 2, verifiedEnds |-> IF status = "verified" THEN 3 ELSE None]
RecurrenceValue(id, status, next, retry) ==
    [id |-> id, owner |-> "A", asset |-> "a1", status |-> status, next |-> next, retry |-> retry]

MCValues ==
    [jobs |-> {JobValue(1, "A", 1, 1, "queued", None, "a1", None, None, FALSE, "k1"),
               JobValue(1, "A", 1, 2, "completed", "partial", "a1", None, None, FALSE, "k1"),
               JobValue(2, "A", 1, 1, "running", None, None, "p1", "f1", FALSE, None),
               JobValue(2, "A", 1, 3, "completed", "ok", None, "p1", "f1", TRUE, None),
               JobValue(3, "A", 2, 2, "failed", None, "a1", None, None, FALSE, None),
               JobValue(4, "B", 2, 2, "queued", None, None, None, "f1", FALSE, None)},
     projects |-> {ProjectValue(1, 1, "j1", TRUE, FALSE), ProjectValue(1, 3, None, FALSE, TRUE),
                   ProjectValue(2, 1, "j1", FALSE, FALSE), ProjectValue(3, 2, None, TRUE, TRUE)},
     files |-> {[id |-> 1, owner |-> "A", created |-> 1, name |-> "x"],
                [id |-> 2, owner |-> "B", created |-> 1, name |-> "y"]},
     verifications |-> {VerificationValue(1, 1, "pending"), VerificationValue(1, 1, "verified"),
                        VerificationValue(2, 1, "failed")},
     recurrences |-> {RecurrenceValue(1, "active", 1, None), RecurrenceValue(1, "active", 2, 3),
                      RecurrenceValue(2, "paused", 1, None)}]

-----------------------------------------------------------------------------
(* An installation in use: ana administers both workspaces, bea maintains  *)
(* the first, administers the second, and is responsible for a project, an *)
(* asset and a saved view; one of two subjects is provisioned.             *)

MCOrgOf == [x \in Resources |-> LocalAdmin]
MCAccounts == <<"ana", "bea">>
MCMembers == (<<1, 1>> :> "administrator") @@ (<<1, 2>> :> "maintainer")
               @@ (<<2, 1>> :> "administrator") @@ (<<2, 2>> :> "administrator")
MCResponsibles == [x \in Resources |-> {2}]
MCOwners == {<<1, 2>>}
MCFederated == [s1 |-> 2]

-----------------------------------------------------------------------------
(* The instances together.                                                 *)

NoStewardship ==
    /\ store = Base /\ old = {} /\ intact = FALSE /\ phase = "absent" /\ kind = "startup"
    /\ classes = <<>> /\ current = "startup" /\ items = {} /\ todo = <<>> /\ known = {} /\ failed = {}
    /\ rested = FALSE /\ cutoff = 0 /\ acked = {} /\ pending = 0
    /\ tool = [NoTool EXCEPT !.op = "absent"] /\ bundle = None /\ restored = None /\ faults = 0
NoIndex ==
    /\ ixKind = None /\ records = <<>> /\ dir = 0 /\ file = None /\ mem = None
    /\ writing = None /\ missed = {0} /\ walk = None /\ ixWrites = 0 /\ ixFaults = 0
NoDecisions ==
    /\ fs = [finals |-> <<>>, staged |-> <<>>, journals |-> <<>>, receipts |-> <<>>]
    /\ handler = None /\ script = <<>> /\ life = "absent" /\ overdue = {} /\ deleting = {}
    /\ excused = {} /\ hurt = FALSE /\ answered = {} /\ drawn = 0 /\ stops = 0
NoTeam ==
    /\ users = <<>> /\ members = <<>> /\ invites = {} /\ sessions = {} /\ durable = FALSE
    /\ requests = {} /\ bindings = <<>> /\ flows = 0 /\ callbacks = {}
    /\ held = [x \in Resources |-> {}] /\ revs = [x \in Resources |-> 0] /\ views = {}
    /\ changes = 0 /\ accessFaults = 0
NoCredentials ==
    /\ focus = "absent" /\ now = 0 /\ stored = FALSE /\ attempts = <<>>
    /\ announced = [c \in Clients |-> 0] /\ tokens = <<>>
    /\ admitted = [t \in Tokens |-> <<>>] /\ grants = <<>> /\ imports = <<>> /\ imported = <<>>

DataInit ==
    \/ Init /\ NoIndex /\ NoDecisions /\ NoTeam /\ NoCredentials
    \/ NoStewardship /\ IndexInit /\ NoDecisions /\ NoTeam /\ NoCredentials
    \/ NoStewardship /\ NoIndex /\ DecisionsInit /\ NoTeam /\ NoCredentials
    \/ NoStewardship /\ NoIndex /\ NoDecisions /\ AccessInit /\ NoCredentials
    \/ NoStewardship /\ NoIndex /\ NoDecisions /\ NoTeam /\ CredentialsInit

DataNext ==
    \/ phase # "absent" /\ Next /\ UNCHANGED <<ixVars, fdVars, accessVars, credVars>>
    \/ ixKind # None /\ IndexNext /\ UNCHANGED <<vars, fdVars, accessVars, credVars>>
    \/ life # "absent" /\ DecisionsNext /\ UNCHANGED <<vars, ixVars, accessVars, credVars>>
    \/ users # <<>> /\ AccessNext /\ UNCHANGED <<vars, ixVars, fdVars, credVars>>
    \/ focus # "absent" /\ CredentialsNext /\ UNCHANGED <<vars, ixVars, fdVars, accessVars>>

DataSpec == DataInit /\ [][DataNext]_<<vars, ixVars, fdVars, accessVars, credVars>>

(* A query of a derived index answers what the records say, and a walk     *)
(* through its pages neither repeats nor loses a record (active_job_index  *)
(* .py, project_reference_index.py and the three like them).               *)
IndexesAnswer == AnswersAgree /\ PagesAreStable

(* Decisions are readable chains and batches are whole, whatever write of  *)
(* record_many was cut (finding_lifecycle.py).                             *)
DecisionsHold == HistoryReadable /\ BatchIsWhole
=============================================================================
