---------------------------- MODULE IsolatedWorker ----------------------------
(***************************************************************************)
(* The runner's file worker: one uploaded source is analysed in one        *)
(* subprocess at a time, in a directory of its own that exists for that    *)
(* request only (run_isolated_file_analysis() in tools/runner/main.py, and *)
(* tools/runner/worker.py in the subprocess).  What the subprocess         *)
(* computes is ArchiveReview.                                              *)
(*                                                                         *)
(* A request may end in any of the ways the code provides for: the         *)
(* subprocess answers, dies at a resource limit, answers something else,   *)
(* is stopped at the time limit or because the caller went away; the       *)
(* directory may be impossible to write or to remove; the container may be *)
(* restarted with the directory still there.                               *)
(***************************************************************************)
EXTENDS ArchiveReview

CONSTANTS Callers,     \* requests under way at the same time
          Workloads,   \* what they may ask: functions from callers to requests
          Nobody

ASSUME WorkerAssumption == Nobody \notin Callers

VARIABLES call,        \* per caller: state and outcome of its request
          asked,       \* per caller: what it asked
          holder,      \* who holds ISOLATED_WORKER_LOCK
          progress,    \* where the holder is in run_isolated_file_analysis()
          workspaces,  \* the directories under ISOLATED_WORKER_ROOT, by owner
          worker       \* the subprocess and what it has written on stdout

workerVars == <<call, asked, holder, progress, workspaces, worker>>

NoAnswer == [kind |-> "none", analysis |-> EmptyAnalysis, reviews |-> NoReviews]
Gone == [state |-> "none", answer |-> NoAnswer]

WorkerInit ==
  /\ call = [c \in Callers |-> "idle"]
  /\ asked \in Workloads
  /\ holder = Nobody
  /\ progress = "free"
  /\ workspaces = {}
  /\ worker = Gone

(* The analysis that a handler of worker.py computes.                      *)
Handler(analyzer, ar) ==
  LET plain(a) == [analysis |-> a, reviews |-> NoReviews]
  IN  CASE analyzer = "project-archive"     -> AnalyzeProject(ar)
        [] analyzer = "archive"             -> plain(AnalyzeMetadata(ar))
        [] analyzer = "django-config"       -> plain(AnalyzeDjango(ar))
        [] analyzer = "docker-config"       -> plain(AnalyzeDocker(ar))
        [] analyzer = "secrets-review"      -> plain(AnalyzeSecrets(ar))
        [] analyzer = "node-package-config" -> plain(AnalyzeNode(ar))
        [] analyzer = "ci-cd-config"        -> plain(AnalyzeCiCd(ar))
        [] analyzer = "k8s-config"          -> plain(AnalyzeK8s(ar))
        [] analyzer = "terraform-config"    -> plain(AnalyzeTerraform(ar))
        [] analyzer = "nginx-config"        -> plain(AnalyzeNginx(ar))
        [] analyzer = "compose-config"      -> plain(AnalyzeCompose(ar))
        [] analyzer = "database-config"     -> plain(AnalyzeDatabase(ar))
        [] analyzer = "sql-database-config" -> plain(AnalyzeSqlDatabase(ar))
        [] OTHER                            -> plain(AnalyzeRedis(ar))

(* worker.py answers 200 with the result, or 500 for an error that the     *)
(* handler let through.                                                    *)
Answer(request) ==
  LET h == Handler(request.analyzer, request.archive)
  IN  [kind |-> IF h.analysis.status = "failed" THEN "error" ELSE "result",
       analysis |-> h.analysis, reviews |-> h.reviews]

(* _decode_isolated_source() checks encoding, size and digest before       *)
(* anything is written.                                                    *)
Submit(c) ==
  /\ call[c] = "idle"
  /\ call' = [call EXCEPT ![c] = IF asked[c].sound THEN "waiting" ELSE "refused"]
  /\ UNCHANGED <<asked, holder, progress, workspaces, worker>>

\* Mutant of Cleaned.
KeepLeftovers(dirs) == dirs

Cleaned(dirs) == {}

AcquireWorker(c) ==
  /\ call[c] = "waiting" /\ holder = Nobody
  /\ holder' = c
  /\ workspaces' = Cleaned(workspaces) \union {c}
  /\ progress' = "prepared"
  /\ UNCHANGED <<call, asked, worker>>

Spawn ==
  /\ progress = "prepared"
  /\ \/ progress' = "communicating" /\ worker' = [Gone EXCEPT !.state = "running"]
     \/ progress' = "ending" /\ worker' = Gone
  /\ UNCHANGED <<call, asked, holder, workspaces>>

(* The subprocess ends by itself: with an answer, or with one that the     *)
(* caller will not accept (nothing after a resource limit, too much, or    *)
(* not the contract).                                                      *)
WorkerExits ==
  /\ worker.state = "running"
  /\ worker' = [state |-> "exited",
                answer |-> Answer(asked[holder])]
  /\ UNCHANGED <<call, asked, holder, progress, workspaces>>

WorkerDies ==
  /\ worker.state = "running"
  /\ worker' = [state |-> "exited", answer |-> [NoAnswer EXCEPT !.kind = "rejected"]]
  /\ UNCHANGED <<call, asked, holder, progress, workspaces>>

Terminated(w) == IF w.state = "running" THEN Gone ELSE w

\* Mutant of TimeoutOrCancel.
UnboundedWait ==
  /\ progress = "communicating" /\ worker.state # "running"
  /\ progress' = "ending"
  /\ UNCHANGED <<call, asked, holder, workspaces, worker>>

(* wait_for() gives up, or the request is cancelled: either way the        *)
(* process group is killed and waited for.                                 *)
TimeoutOrCancel ==
  /\ progress = "communicating"
  /\ worker' = Terminated(worker)
  /\ progress' = "ending"
  /\ UNCHANGED <<call, asked, holder, workspaces>>

Collect ==
  /\ progress = "communicating" /\ worker.state = "exited"
  /\ progress' = IF worker.answer.kind = "result" THEN "answered" ELSE "ending"
  /\ UNCHANGED <<call, asked, holder, workspaces, worker>>

(* finally: no process, no directory, and the lock is given back.          *)
CleanUp ==
  /\ progress \in {"answered", "ending"}
  /\ call' = [call EXCEPT ![holder] = IF progress = "answered" THEN "answered" ELSE "failed"]
  /\ worker' = IF worker.state = "exited" THEN Gone ELSE Terminated(worker)
  /\ workspaces' = workspaces \ {holder}
  /\ holder' = Nobody /\ progress' = "free"
  /\ UNCHANGED asked

CleanUpFails ==
  /\ progress \in {"answered", "ending"}
  /\ call' = [call EXCEPT ![holder] = "failed"]
  /\ worker' = IF worker.state = "exited" THEN Gone ELSE Terminated(worker)
  /\ holder' = Nobody /\ progress' = "free"
  /\ UNCHANGED <<asked, workspaces>>

(* The container stops: every process of it ends, the directories may stay.*)
Restart ==
  /\ holder # Nobody
  /\ call' = [c \in Callers |-> IF call[c] = "waiting" THEN "failed" ELSE call[c]]
  /\ holder' = Nobody /\ progress' = "free" /\ worker' = Gone
  /\ UNCHANGED <<asked, workspaces>>

Done == /\ \A c \in Callers : call[c] \notin {"idle", "waiting"}
        /\ holder = Nobody
        /\ UNCHANGED workerVars

WorkerNext ==
  \/ \E c \in Callers : Submit(c) \/ AcquireWorker(c)
  \/ Spawn \/ WorkerExits \/ WorkerDies \/ TimeoutOrCancel \/ Collect
  \/ CleanUp \/ CleanUpFails \/ Restart
  \/ Done

(* The event loop goes on, the lock is first come first served, and the    *)
(* timer of wait_for() fires; nothing is assumed of the subprocess.        *)
WorkerFairness ==
  /\ \A c \in Callers : WF_workerVars(AcquireWorker(c))
  /\ WF_workerVars(Spawn) /\ WF_workerVars(TimeoutOrCancel) /\ WF_workerVars(Collect)
  /\ WF_workerVars(CleanUp \/ CleanUpFails)

WorkerSpec == WorkerInit /\ [][WorkerNext]_workerVars /\ WorkerFairness

------------------------------------------------------------------------------
(* Properties                                                              *)

WorkerTypeOK ==
  /\ call \in [Callers -> {"idle", "waiting", "refused", "answered", "failed"}]
  /\ asked \in Workloads
  /\ holder \in Callers \union {Nobody}
  /\ progress \in {"free", "prepared", "communicating", "answered", "ending"}
  /\ workspaces \subseteq Callers
  /\ worker.state \in {"none", "running", "exited"}

(* While a subprocess parses a source, that source is the only one on      *)
(* disk, whatever earlier requests left behind, and no subprocess outlives *)
(* the request that started it.                                            *)
SourceContained ==
  /\ worker.state = "running" => workspaces = {holder}
  /\ progress \notin {"communicating", "answered", "ending"} => worker.state = "none"
  /\ progress = "ending" => worker.state # "running"

Reviews == {"django-config", "docker-config", "secrets-review", "node-package-config",
            "ci-cd-config", "k8s-config", "terraform-config", "nginx-config",
            "compose-config", "database-config", "sql-database-config", "redis-config"}

Candidates(analyzer) ==
  CASE analyzer = "django-config"       -> DOMAIN DjangoCandidate
    [] analyzer = "docker-config"       -> DOMAIN DockerCandidate
    [] analyzer = "secrets-review"      -> DOMAIN SecretsCandidate
    [] analyzer = "node-package-config" -> DOMAIN NodeCandidate
    [] analyzer = "ci-cd-config"        -> DOMAIN CiCdCandidate
    [] analyzer = "k8s-config"          -> DOMAIN K8sCandidate
    [] analyzer = "terraform-config"    -> DOMAIN TerraformCandidate
    [] analyzer = "nginx-config"        -> DOMAIN NginxCandidate
    [] analyzer = "compose-config"      -> DOMAIN ComposeCandidate
    [] analyzer = "database-config"     -> DOMAIN DatabaseCandidate
    [] analyzer = "sql-database-config" -> DOMAIN SqlDatabaseCandidate
    [] analyzer = "redis-config"        -> DOMAIN RedisCandidate
    [] OTHER                            -> {}

HasResult == worker.state = "exited" /\ worker.answer.kind = "result"
Outcome  == worker.answer.analysis

(* No analyzer, alone or inside the project audit, and whatever else the   *)
(* archive holds, asks for the content of a file that some analyzer        *)
(* withholds: environment files, credentials, dumps, data and state files. *)
WithheldNeverOpened ==
  Outcome.opened \intersect {".env", ".pgpass", "dump.sql", "db/base/1", "users.acl",
                             "dump.rdb", "terraform.tfstate", "bun.lockb"} = {}

(* An analysis never reads more files or bytes than its limits, for files  *)
(* that turn out not to be text too.                                       *)
ReadLimitsHold ==
  LET read(cat) == {i \in DOMAIN Outcome.detected : Outcome.detected[i].read /\ Outcome.detected[i].cat = cat}
  IN  /\ Outcome.filesRead <= MaxFiles
      /\ Outcome.bytes <= MaxTotalBytes
      /\ Cardinality(read("lockfile")) <= MaxFiles
      /\ Cardinality(read("manifest")) <= MaxFiles

(* Every file that a review knows and did not read is reported with the    *)
(* reason, after the findings were deduplicated; so is every manifest of   *)
(* the project audit.                                                      *)
OmissionsTold ==
  HasResult => \A d \in Range(Outcome.detected) :
    ~d.read /\ (asked[holder].analyzer \in Reviews \/ d.cat = "manifest") =>
      [id |-> d.reason, at |-> d.path] \in Range(Outcome.findings)

(* A result that is neither truncated nor in error covers the archive: the *)
(* review has come across each member it knows and left none out for a     *)
(* limit, and each review inside the project audit is complete.            *)
PartialIsTold ==
  HasResult /\ ~Outcome.truncated /\ Outcome.errors = 0 =>
    /\ \A m \in Range(asked[holder].archive.members) :
         m.path \in Candidates(asked[holder].analyzer) =>
           \E d \in Range(Outcome.detected) : d.path = m.path /\ d.reason \notin LimitReasons
    /\ \A name \in DOMAIN worker.answer.reviews : worker.answer.reviews[name] = "completed"

(* Whatever the subprocess does, a request that was accepted is answered   *)
(* or fails.                                                               *)
RequestsEnd == \A c \in Callers : call[c] = "waiting" ~> call[c] \in {"answered", "failed"}

=============================================================================
