---------------------------- MODULE ArchiveReview ----------------------------
(***************************************************************************)
(* What the passive runner (tools/runner/main.py) reports of an archive.   *)
(* Fourteen analyzers walk the members of an uploaded archive and read the *)
(* few that they know, within limits: twelve configuration reviews, the    *)
(* metadata inspection and the project audit, which runs five of the       *)
(* reviews again over the same archive.  Everything here is a function of  *)
(* the archive, so the module has no variables; IsolatedWorker runs it.    *)
(*                                                                         *)
(* A member is a record: path (a representative of each name the analyzers *)
(* classify), place ("in" the tree, "up" with .. segments, "root" for an   *)
(* absolute path), type, long (a name above the limit), size and body:     *)
(*   "text"      readable, nothing to report in it                         *)
(*   "risky"     readable, with one signal that the review reports         *)
(*   "complete"  readable, declares every setting a review expects         *)
(*   "nul"       UTF-8 with a NUL byte;  "latin" not UTF-8                 *)
(*   "broken"    reading it raises an error that the entry step handles    *)
(*   "encrypted" reading it raises an error that nothing handles           *)
(***************************************************************************)
EXTENDS Integers, FiniteSets, SequencesExt

CONSTANTS MaxEntries,      \* ARCHIVE_MAX_ENTRIES
          MaxFiles,        \* files one review may read
          MaxFileBytes,    \* bytes of one file
          MaxTotalBytes,   \* bytes one review may read
          MaxDeclared,     \* PROJECT_ARCHIVE_MAX_TOTAL_UNCOMPRESSED_BYTES
          MaxListed        \* ARCHIVE_MAX_LISTED_ENTRIES

ASSUME LimitsPositive ==
  /\ \A n \in {MaxEntries, MaxFiles, MaxFileBytes, MaxTotalBytes, MaxDeclared, MaxListed} :
       n \in Nat \ {0}

LimitReasons == {"file_too_large", "too_many_files", "total_bytes_limit"}

(* An analysis under way.  opened is the set of paths whose content was    *)
(* asked for; seen counts what the project audit counts apart.             *)
EmptyAnalysis ==
  [index |-> 0, considered |-> 0, detected |-> <<>>, filesRead |-> 0, bytes |-> 0,
   findings |-> <<>>, truncated |-> FALSE, opened |-> {}, errors |-> 0,
   status |-> "scanning", manifests |-> 0, lockfiles |-> 0, declared |-> 0,
   listed |-> 0, total |-> 0]

Unparsed == [EmptyAnalysis EXCEPT !.errors = 1]

AddFinding(a, id, at) ==
  [a EXCEPT !.findings = Append(@, [id |-> id, at |-> at])]

Detect(a, e, cat, read, reason) ==
  [a EXCEPT !.detected = Append(@, [path |-> e.path, cat |-> cat, read |-> read,
                                    reason |-> reason, body |-> e.body])]

\* Mutant of Deduped.
DedupedById(findings) ==
  LET keep(seen, f) == IF \E g \in Range(seen) : g.id = f.id THEN seen ELSE Append(seen, f)
  IN  FoldLeft(keep, <<>>, findings)

(* Findings are kept once per id and evidence, the first one.              *)
Deduped(findings) ==
  LET keep(seen, f) == IF f \in Range(seen) THEN seen ELSE Append(seen, f)
  IN  FoldLeft(keep, <<>>, findings)

Finished(a) == [a EXCEPT !.findings = Deduped(@)]

(* The reason of the first check that applies, "none" when none does.      *)
FirstReason(checks) ==
  LET hits == {i \in DOMAIN checks : checks[i][1]}
  IN  IF hits = {} THEN "none" ELSE checks[Min(hits)][2]

PlaceChecks(e) == << <<e.place = "up", "path_traversal">>,
                     <<e.place = "root", "absolute_path">> >>
TypeChecks(e)  == << <<e.type # "file", "not_regular_file">> >>
NameChecks(e)  == << <<e.long, "entry_name_too_long">> >>
\* Mutant of LimitChecks.
LimitChecksLate(a, e) ==
  << <<e.size > MaxFileBytes, "file_too_large">>,
     <<a.filesRead > MaxFiles, "too_many_files">>,
     <<a.bytes >= MaxTotalBytes, "total_bytes_limit">> >>

LimitChecks(a, e) ==
  << <<e.size > MaxFileBytes, "file_too_large">>,
     <<a.filesRead >= MaxFiles, "too_many_files">>,
     <<a.bytes + e.size > MaxTotalBytes, "total_bytes_limit">> >>
Withheld(cat, kept, reason) == << <<cat = kept, reason>> >>

------------------------------------------------------------------------------
(* What the entry steps share.                                             *)

\* Mutant of Skipped.
SkippedSilently(a, e, reason) == AddFinding(a, reason, e.path)

Skipped(a, e, reason) ==
  AddFinding([a EXCEPT !.truncated = @ \/ reason \in LimitReasons], reason, e.path)

Omit(a, e, cat, reason) == Skipped(Detect(a, e, cat, FALSE, reason), e, reason)

Signals(a, e) == IF e.body = "risky" THEN AddFinding(a, "signal", e.path) ELSE a

(* Ten of the reviews count the bytes of a file before they know whether   *)
(* it is text, and the file only after.                                    *)
ReadText(a, e, cat) ==
  LET o == [a EXCEPT !.opened = @ \union {e.path}]
      r == [o EXCEPT !.bytes = @ + e.size]
  IN  CASE e.body = "encrypted" -> [o EXCEPT !.status = "failed"]
        [] e.body = "broken" -> AddFinding(Detect(o, e, cat, FALSE, "read_error"), "read_error", e.path)
        [] e.body \in {"nul", "latin"} -> Omit(r, e, cat, "binary_or_non_text")
        [] OTHER -> Signals(Detect([r EXCEPT !.filesRead = @ + 1], e, cat, TRUE, "none"), e)

(* The Django and the Docker review count the file as soon as its bytes    *)
(* are there, and take a NUL for text.                                     *)
ReadCounted(a, e, cat) ==
  LET o == [a EXCEPT !.opened = @ \union {e.path}]
      r == [o EXCEPT !.bytes = @ + e.size, !.filesRead = @ + 1]
  IN  CASE e.body = "encrypted" -> [o EXCEPT !.status = "failed"]
        [] e.body = "broken" -> AddFinding(Detect(o, e, cat, FALSE, "read_error"), "read_error", e.path)
        [] e.body = "latin" -> AddFinding(Detect(r, e, cat, FALSE, "utf8_decode_error"),
                                          "utf8_decode_error", e.path)
        [] OTHER -> Signals(Detect(r, e, cat, TRUE, "none"), e)

(* One entry of a review: nothing for a name the review does not know.     *)
Reviewed(a, e, cat, reason, Leave(_, _, _, _), Open(_, _, _)) ==
  LET c == [a EXCEPT !.considered = @ + 1]
  IN  CASE cat = "none"     -> a
        [] reason # "none"  -> Leave(c, e, cat, reason)
        [] OTHER            -> Open(c, e, cat)

Category(table, e) == IF e.path \in DOMAIN table THEN table[e.path] ELSE "none"

(* The paths of a category that were read, and whether one of them         *)
(* declares everything.                                                    *)
ReadOf(a, cats) == {d \in Range(a.detected) : d.read /\ d.cat \in cats}
AddEach(a, id, paths) == FoldLeft(LAMBDA b, p : AddFinding(b, id, p), a, SetToSeq(paths))
PathsOf(records) == {d.path : d \in records}

------------------------------------------------------------------------------
(* The metadata preflight of a ZIP, before any parser opens it.            *)

Preflight(ar) ==
  CASE ar.trailer = "absent"    -> "metadata_preflight_unavailable"
    [] ar.trailer = "multidisk" -> "multi_disk_zip"
    [] ar.trailer = "zip64"     -> "zip64_metadata"
    [] OTHER                    -> "none"

BlockReason(ar) ==
  FirstReason(<< <<Preflight(ar) # "none", Preflight(ar)>>,
                 <<ar.count > MaxEntries, "too_many_entries">>,
                 <<ar.trailer = "large", "central_directory_too_large">> >>)

PreflightFinding(reason) ==
  CASE reason = "too_many_entries"            -> "zip_entry_limit_preflight"
    [] reason = "central_directory_too_large" -> "zip_central_directory_too_large"
    [] reason = "zip64_metadata"              -> "zip64_metadata_requires_review"
    [] reason = "multi_disk_zip"              -> "multidisk_zip_unsupported"
    [] OTHER                                  -> "zip_metadata_preflight_unavailable"

(* The loop over the members.  The count a ZIP declares is not the count   *)
(* its directory holds: the limit is checked again at every member.        *)
Walk(ar, Entry(_, _)) ==
  LET step(a, e) ==
        IF a.status # "scanning" THEN a
        ELSE IF a.index = MaxEntries
             THEN AddFinding([a EXCEPT !.truncated = TRUE, !.status = "stopped"],
                             "entry_limit_reached", "archive")
             ELSE Entry([a EXCEPT !.index = @ + 1], e)
  IN  FoldLeft(step, EmptyAnalysis, ar.members)

Scanned(ar, Entry(_, _), Finalize(_)) ==
  IF ar.format = "zip" /\ BlockReason(ar) # "none"
  THEN Finalize(AddFinding([EmptyAnalysis EXCEPT !.truncated = TRUE],
                           PreflightFinding(BlockReason(ar)), "archive"))
  ELSE IF ar.corrupt THEN Unparsed
  ELSE LET a == Walk(ar, Entry)
       IN  IF a.status = "failed" THEN a ELSE Finalize(a)

(* An archive of no known type is an empty analysis with an error, as is   *)
(* one whose parser gives up under way.                                    *)
Endpoint(ar, Analyze(_)) == IF ar.format = "unknown" THEN Unparsed ELSE Analyze(ar)

------------------------------------------------------------------------------
(* Django settings, dependencies and deployment files: the environment file is set aside before anything else is looked at. *)

DjangoCandidate ==
      "settings.py" :> "django_config"
   @@ "requirements.txt" :> "dependencies"
   @@ "package.json" :> "dependencies"
   @@ "Dockerfile" :> "deployment"
   @@ "compose.yml" :> "deployment"
   @@ "nginx.conf" :> "deployment"
   @@ ".env" :> "env_sensitive"
   @@ ".env.example" :> "env_template"

DjangoSkipReason(a, e, cat) ==
  FirstReason(Withheld(cat, "env_sensitive", "sensitive_env_not_read") \o PlaceChecks(e) \o TypeChecks(e)
              \o NameChecks(e) \o LimitChecks(a, e))

DjangoEntry(a, e) ==
  LET cat == Category(DjangoCandidate, e)
  IN  Reviewed(a, e, cat, DjangoSkipReason(a, e, cat), Omit, ReadCounted)

DjangoFinalize(a) ==
  LET plain  == PathsOf({d \in ReadOf(a, {"django_config"}) : d.body # "complete"})
      named  == \E d \in Range(a.detected) : d.cat = "django_config"
      grouped == IF plain = {} THEN a ELSE AddFinding(a, "setting_not_observed", "grouped")
  IN  Finished(IF named THEN grouped ELSE AddFinding(grouped, "settings_not_detected", "archive"))

DjangoArchive(ar) == Scanned(ar, DjangoEntry, DjangoFinalize)
AnalyzeDjango(ar) == Endpoint(ar, DjangoArchive)

------------------------------------------------------------------------------
(* Docker and Compose files: no name is withheld.                          *)

DockerCandidate ==
      "Dockerfile" :> "dockerfile"
   @@ "compose.yml" :> "compose"
   @@ "compose.override.yml" :> "compose"

DockerSkipReason(a, e, cat) ==
  FirstReason(PlaceChecks(e) \o TypeChecks(e) \o NameChecks(e) \o LimitChecks(a, e))

DockerEntry(a, e) ==
  LET cat == Category(DockerCandidate, e)
  IN  Reviewed(a, e, cat, DockerSkipReason(a, e, cat), Omit, ReadCounted)

DockerFinalize(a) == Finished(a)

DockerArchive(ar) == Scanned(ar, DockerEntry, DockerFinalize)
AnalyzeDocker(ar) == Endpoint(ar, DockerArchive)

------------------------------------------------------------------------------
(* The secrets review.                                                     *)

SecretsCandidate ==
      ".env.example" :> "env_template"
   @@ ".env" :> "env_sensitive"
   @@ ".github/workflows/ci.yml" :> "ci_config"
   @@ "main.tf" :> "infra_config"
   @@ "deploy/main.tf" :> "infra_config"
   @@ "Dockerfile" :> "docker_config"
   @@ "compose.yml" :> "docker_config"
   @@ "compose.override.yml" :> "docker_config"
   @@ "settings.py" :> "app_config"
   @@ "package.json" :> "app_config"

SecretsSkipReason(a, e, cat) ==
  FirstReason(PlaceChecks(e) \o TypeChecks(e) \o Withheld(cat, "env_sensitive", "real_env_file_not_read")
              \o NameChecks(e) \o LimitChecks(a, e))

SecretsSensitive(a, e) == AddFinding(a, "real_env_file_not_read", e.path)
SecretsLeave(a, e, cat, reason) ==
  LET d == Detect(a, e, cat, FALSE, reason)
  IN  IF reason = "real_env_file_not_read" THEN SecretsSensitive(d, e) ELSE Skipped(d, e, reason)

SecretsEntry(a, e) ==
  LET cat == Category(SecretsCandidate, e)
  IN  Reviewed(a, e, cat, SecretsSkipReason(a, e, cat), SecretsLeave, ReadText)

SecretsFinalize(a) == Finished(a)

SecretsArchive(ar) == Scanned(ar, SecretsEntry, SecretsFinalize)
AnalyzeSecrets(ar) == Endpoint(ar, SecretsArchive)

------------------------------------------------------------------------------
(* Node manifests, lockfiles and configuration.                            *)

NodeCandidate ==
      ".env.example" :> "env_template"
   @@ ".env" :> "env_sensitive"
   @@ "package.json" :> "package_manifest"
   @@ "package-lock.json" :> "lockfile"
   @@ "bun.lockb" :> "lockfile_binary"
   @@ ".github/workflows/ci.yml" :> "ci_config"

NodeSkipReason(a, e, cat) ==
  FirstReason(PlaceChecks(e) \o TypeChecks(e) \o Withheld(cat, "env_sensitive", "real_env_file_not_read")
              \o Withheld(cat, "lockfile_binary", "binary_lockfile_not_read") \o NameChecks(e)
              \o LimitChecks(a, e))

NotReviewedLockfile == {"binary_lockfile_not_read", "file_too_large", "total_bytes_limit"}
LockfileManager == "package-lock.json" :> "npm" @@ "bun.lockb" :> "bun"
NoteLockfile(a, e, reason) ==
  LET present == IF e.path = "package-lock.json" THEN AddFinding(a, "package_lock_present", e.path) ELSE a
  IN  IF reason \in NotReviewedLockfile THEN AddFinding(present, "lockfile_large_or_truncated", e.path) ELSE present

NodeLeave(a, e, cat, reason) ==
  LET left == Skipped(Detect(a, e, cat, FALSE, reason), e, reason)
  IN  IF cat \in {"lockfile", "lockfile_binary"} /\ reason \in NotReviewedLockfile
      THEN NoteLockfile(left, e, reason) ELSE left

NodeRead(a, e, cat) ==
  LET r == ReadText(a, e, cat)
  IN  IF cat = "lockfile" /\ r.filesRead > a.filesRead THEN NoteLockfile(r, e, "none") ELSE r

NodeEntry(a, e) ==
  LET cat == Category(NodeCandidate, e)
  IN  Reviewed(a, e, cat, NodeSkipReason(a, e, cat), NodeLeave, NodeRead)

NodeFinalize(a) ==
  LET noted    == {d \in Range(a.detected) : d.cat \in {"lockfile", "lockfile_binary"}
                                            /\ (d.read \/ d.reason \in NotReviewedLockfile)}
      managers == {LockfileManager[p] : p \in PathsOf(noted)}
      hints    == {d \in ReadOf(a, {"package_manifest"}) : d.body = "complete"}
      many     == IF Cardinality(managers) > 1
                  THEN AddFinding(a, "multiple_lockfiles_present", "archive") ELSE a
  IN  Finished(IF hints # {} /\ managers # {} /\ "npm" \notin managers
               THEN AddFinding(many, "package_manager_mismatch", "archive") ELSE many)

NodeArchive(ar) == Scanned(ar, NodeEntry, NodeFinalize)
AnalyzeNode(ar) == Endpoint(ar, NodeArchive)

------------------------------------------------------------------------------
(* Pipelines; an environment template is withheld like the real file.      *)

CiCdCandidate ==
      ".env" :> "env_sensitive"
   @@ ".env.example" :> "env_sensitive"
   @@ ".github/workflows/ci.yml" :> "github_workflow"

CiCdSkipReason(a, e, cat) ==
  FirstReason(PlaceChecks(e) \o TypeChecks(e) \o Withheld(cat, "env_sensitive", "real_env_file_not_read")
              \o NameChecks(e) \o LimitChecks(a, e))

CiCdEntry(a, e) ==
  LET cat == Category(CiCdCandidate, e)
  IN  Reviewed(a, e, cat, CiCdSkipReason(a, e, cat), Omit, ReadText)

CiCdFinalize(a) == Finished(a)

CiCdArchive(ar) == Scanned(ar, CiCdEntry, CiCdFinalize)
AnalyzeCiCd(ar) == Endpoint(ar, CiCdArchive)

------------------------------------------------------------------------------
(* Kubernetes manifests, and every other YAML file as a candidate.         *)

K8sCandidate ==
      ".env" :> "env_sensitive"
   @@ ".env.example" :> "env_sensitive"
   @@ "k8s/app.yaml" :> "k8s_manifest"
   @@ "compose.yml" :> "yaml_candidate"
   @@ "compose.override.yml" :> "yaml_candidate"
   @@ ".github/workflows/ci.yml" :> "yaml_candidate"

K8sSkipReason(a, e, cat) ==
  FirstReason(PlaceChecks(e) \o TypeChecks(e) \o Withheld(cat, "env_sensitive", "real_env_file_not_read")
              \o NameChecks(e) \o LimitChecks(a, e))

K8sEntry(a, e) ==
  LET cat == Category(K8sCandidate, e)
  IN  Reviewed(a, e, cat, K8sSkipReason(a, e, cat), Omit, ReadText)

K8sFinalize(a) == Finished(a)

K8sArchive(ar) == Scanned(ar, K8sEntry, K8sFinalize)
AnalyzeK8s(ar) == Endpoint(ar, K8sArchive)

------------------------------------------------------------------------------
(* Terraform: the state file is withheld.                                  *)

TerraformCandidate ==
      "terraform.tfstate" :> "state_file"
   @@ ".terraform.lock.hcl" :> "lockfile"
   @@ "prod.tfvars" :> "tfvars"
   @@ "main.tf" :> "terraform"
   @@ "deploy/main.tf" :> "terraform"

TerraformSkipReason(a, e, cat) ==
  FirstReason(PlaceChecks(e) \o TypeChecks(e) \o Withheld(cat, "state_file", "terraform_state_file_not_read")
              \o NameChecks(e) \o LimitChecks(a, e))

TerraformStateFile(a, e) == AddFinding(a, "terraform_state_file_not_read", e.path)
TerraformLeave(a, e, cat, reason) ==
  LET d == Detect(a, e, cat, FALSE, reason)
  IN  IF reason = "terraform_state_file_not_read" THEN TerraformStateFile(d, e) ELSE Skipped(d, e, reason)

TerraformEntry(a, e) ==
  LET cat == Category(TerraformCandidate, e)
  IN  Reviewed(a, e, cat, TerraformSkipReason(a, e, cat), TerraformLeave, ReadText)

TerraformFinalize(a) ==
  LET hcl       == ReadOf(a, {"terraform", "terragrunt"})
      declared  == \E d \in hcl : d.body = "complete"
      locked    == ReadOf(a, {"lockfile"}) # {}
      production == "deploy/main.tf" \in PathsOf(hcl)
      versioned == IF hcl # {} /\ ~declared
                   THEN AddFinding(a, "terraform_required_version_missing", "archive") ELSE a
      pinned    == IF hcl # {} /\ ~locked
                   THEN AddFinding(versioned, "terraform_lockfile_missing", "archive") ELSE versioned
  IN  IF hcl # {} /\ ~declared /\ production
      THEN [pinned EXCEPT !.status = "failed"]
      ELSE Finished(pinned)

TerraformArchive(ar) == Scanned(ar, TerraformEntry, TerraformFinalize)
AnalyzeTerraform(ar) == Endpoint(ar, TerraformArchive)

------------------------------------------------------------------------------
(* Nginx: every .conf file is a candidate.                                 *)

NginxCandidate ==
      "nginx.conf" :> "nginx_config"
   @@ "postgresql.conf" :> "nginx_config"
   @@ "redis.conf" :> "nginx_config"
   @@ "sentinel.conf" :> "nginx_config"

NginxSkipReason(a, e, cat) ==
  FirstReason(PlaceChecks(e) \o TypeChecks(e) \o NameChecks(e) \o LimitChecks(a, e))

NginxEntry(a, e) ==
  LET cat == Category(NginxCandidate, e)
  IN  Reviewed(a, e, cat, NginxSkipReason(a, e, cat), Omit, ReadText)

NginxFinalize(a) ==
  Finished(AddEach(a, "server_setting_missing",
                   PathsOf({d \in ReadOf(a, {"nginx_config"}) : d.body # "complete"})))

NginxArchive(ar) == Scanned(ar, NginxEntry, NginxFinalize)
AnalyzeNginx(ar) == Endpoint(ar, NginxArchive)

------------------------------------------------------------------------------
(* Docker Compose as service wiring.                                       *)

ComposeCandidate ==
      ".env" :> "env_sensitive"
   @@ ".env.example" :> "env_sensitive"
   @@ "compose.yml" :> "compose"
   @@ "compose.override.yml" :> "compose"

ComposeSkipReason(a, e, cat) ==
  FirstReason(PlaceChecks(e) \o TypeChecks(e) \o Withheld(cat, "env_sensitive", "real_env_file_not_read")
              \o NameChecks(e) \o LimitChecks(a, e))

ComposeEnvFile(a, e) == AddFinding(a, "real_env_file_not_read", e.path)
ComposeLeave(a, e, cat, reason) ==
  LET d == Detect(a, e, cat, FALSE, reason)
  IN  IF reason = "real_env_file_not_read" THEN ComposeEnvFile(d, e) ELSE Skipped(d, e, reason)

ComposeEntry(a, e) ==
  LET cat == Category(ComposeCandidate, e)
  IN  Reviewed(a, e, cat, ComposeSkipReason(a, e, cat), ComposeLeave, ReadText)

ComposeFinalize(a) ==
  LET files == {i \in DOMAIN a.detected : a.detected[i].cat = "compose"}
      over  == PathsOf(ReadOf(a, {"compose"})) \intersect {"compose.override.yml"}
      many  == IF Cardinality(files) > 1
               THEN AddFinding(a, "compose_multiple_files_detected", "archive") ELSE a
      noted == AddEach(many, "compose_override_file_detected", over)
  IN  Finished(IF \E d \in ReadOf(a, {"compose"}) : d.body = "complete"
               THEN AddFinding(noted, "compose_profiles_present", "archive") ELSE noted)

ComposeArchive(ar) == Scanned(ar, ComposeEntry, ComposeFinalize)
AnalyzeCompose(ar) == Endpoint(ar, ComposeArchive)

------------------------------------------------------------------------------
(* PostgreSQL and MySQL configuration; credentials and dumps are withheld. *)

DatabaseCandidate ==
      ".env" :> "sensitive"
   @@ ".env.example" :> "sensitive"
   @@ ".pgpass" :> "sensitive"
   @@ "dump.sql" :> "dump_or_backup"
   @@ "postgresql.conf" :> "postgres"
   @@ "my.cnf" :> "mysql"

DatabaseSkipReason(a, e, cat) ==
  FirstReason(PlaceChecks(e) \o TypeChecks(e) \o Withheld(cat, "sensitive", "sensitive_file_not_read")
              \o Withheld(cat, "dump_or_backup", "dump_or_backup_not_read")
              \o NameChecks(e) \o LimitChecks(a, e))

DatabaseSensitive(a, e) == AddFinding(a, "sensitive_file_not_read", e.path)
DatabaseDump(a, e) == AddFinding(a, "dump_or_backup_not_read", e.path)
DatabaseLeave(a, e, cat, reason) ==
  LET d == Detect(a, e, cat, FALSE, reason)
  IN  CASE reason = "sensitive_file_not_read" -> DatabaseSensitive(d, e)
        [] reason = "dump_or_backup_not_read" -> DatabaseDump(d, e)
        [] OTHER -> Skipped(d, e, reason)

DatabaseEntry(a, e) ==
  LET cat == Category(DatabaseCandidate, e)
  IN  Reviewed(a, e, cat, DatabaseSkipReason(a, e, cat), DatabaseLeave, ReadText)

DatabaseFinalize(a) ==
  LET lacking(cat) == IF \E d \in ReadOf(a, {cat}) : d.body = "complete" THEN {}
                      ELSE PathsOf(ReadOf(a, {cat}))
      postgres == AddEach(a, "postgres_password_encryption_missing", lacking("postgres"))
      mysql    == AddEach(postgres, "mysql_secure_file_priv_missing", lacking("mysql"))
  IN  Finished(AddEach(mysql, "mysql_ssl_missing", lacking("mysql")))

DatabaseArchive(ar) == Scanned(ar, DatabaseEntry, DatabaseFinalize)
AnalyzeDatabase(ar) == Endpoint(ar, DatabaseArchive)

------------------------------------------------------------------------------
(* The SQL review adds data files, and takes any name that starts with dump. *)

SqlDatabaseCandidate ==
      ".env" :> "sensitive"
   @@ ".env.example" :> "sensitive"
   @@ ".pgpass" :> "sensitive"
   @@ "dump.sql" :> "dump_or_backup"
   @@ "dump.rdb" :> "dump_or_backup"
   @@ "db/base/1" :> "data_file"
   @@ "postgresql.conf" :> "postgres"
   @@ "my.cnf" :> "mysql"

SqlDatabaseSkipReason(a, e, cat) ==
  FirstReason(PlaceChecks(e) \o TypeChecks(e) \o Withheld(cat, "sensitive", "sensitive_file_not_read")
              \o Withheld(cat, "dump_or_backup", "dump_or_backup_not_read")
              \o Withheld(cat, "data_file", "data_file_not_read") \o NameChecks(e) \o LimitChecks(a, e))

SqlSensitive(a, e) == AddFinding(a, "sensitive_file_not_read", e.path)
SqlDump(a, e) == AddFinding(a, "dump_or_backup_not_read", e.path)
SqlDataFile(a, e) == AddFinding(a, "data_file_not_read", e.path)
SqlDatabaseLeave(a, e, cat, reason) ==
  LET d == Detect(a, e, cat, FALSE, reason)
  IN  CASE reason = "sensitive_file_not_read" -> SqlSensitive(d, e)
        [] reason = "dump_or_backup_not_read" -> SqlDump(d, e)
        [] reason = "data_file_not_read"      -> SqlDataFile(d, e)
        [] OTHER -> Skipped(d, e, reason)

SqlConfigDetected(a, e) == AddFinding(a, "sql_database_config_detected", e.path)

SqlRead(a, e, cat) ==
  LET r == ReadText(a, e, cat)
  IN  IF r.filesRead > a.filesRead THEN SqlConfigDetected(r, e) ELSE r

SqlDatabaseEntry(a, e) ==
  LET cat == Category(SqlDatabaseCandidate, e)
  IN  Reviewed(a, e, cat, SqlDatabaseSkipReason(a, e, cat), SqlDatabaseLeave, SqlRead)

SqlDatabaseFinalize(a) ==
  LET d == DatabaseFinalize(a)
  IN  Finished(AddEach(d, "postgres_ssl_path_present",
                       PathsOf({r \in ReadOf(a, {"postgres"}) : r.body = "complete"})))

SqlDatabaseArchive(ar) == Scanned(ar, SqlDatabaseEntry, SqlDatabaseFinalize)
AnalyzeSqlDatabase(ar) == Endpoint(ar, SqlDatabaseArchive)

------------------------------------------------------------------------------
(* Redis: what must not be read is set aside before the type is looked at. *)

RedisCandidate ==
      ".env" :> "sensitive"
   @@ ".env.example" :> "sensitive"
   @@ "users.acl" :> "acl"
   @@ "dump.rdb" :> "dump_or_aof"
   @@ "redis.conf" :> "redis"
   @@ "sentinel.conf" :> "sentinel"

\* Mutant of RedisSkipReason.
RedisSkipLate(a, e, cat) ==
  FirstReason(PlaceChecks(e) \o TypeChecks(e) \o NameChecks(e)
              \o Withheld(cat, "sensitive", "sensitive_file_not_read") \o LimitChecks(a, e))

RedisSkipReason(a, e, cat) ==
  FirstReason(PlaceChecks(e) \o Withheld(cat, "sensitive", "sensitive_file_not_read")
              \o Withheld(cat, "acl", "acl_file_not_read") \o Withheld(cat, "dump_or_aof", "dump_or_aof_not_read")
              \o TypeChecks(e) \o NameChecks(e) \o LimitChecks(a, e))

RedisEnvFile(a, e) == AddFinding(a, "sensitive_file_not_read", e.path)
RedisAclFile(a, e) == AddFinding(a, "acl_file_not_read", e.path)
RedisDumpFile(a, e) == AddFinding(a, "dump_or_aof_not_read", e.path)
RedisLeave(a, e, cat, reason) ==
  LET d == Detect(a, e, cat, FALSE, reason)
  IN  CASE reason = "sensitive_file_not_read" -> RedisEnvFile(d, e)
        [] reason = "acl_file_not_read"       -> RedisAclFile(d, e)
        [] reason = "dump_or_aof_not_read"    -> RedisDumpFile(d, e)
        [] OTHER -> Skipped(d, e, reason)

RedisEntry(a, e) ==
  LET cat == Category(RedisCandidate, e)
  IN  Reviewed(a, e, cat, RedisSkipReason(a, e, cat), RedisLeave, ReadText)

RedisFinalize(a) ==
  LET plain(cat, body) == PathsOf({d \in ReadOf(a, {cat}) : IF body = "risky" THEN d.body = body ELSE d.body # "complete"})
      redis == AddEach(a, "redis_setting_missing", plain("redis", "any"))
  IN  Finished(AddEach(redis, "redis_sentinel_monitor_without_auth", plain("sentinel", "risky")))

RedisArchive(ar) == Scanned(ar, RedisEntry, RedisFinalize)
AnalyzeRedis(ar) == Endpoint(ar, RedisArchive)

------------------------------------------------------------------------------
(* The metadata inspection opens nothing: it counts, samples and remarks,  *)
(* each remark once.                                                       *)

AddOnce(a, id, at) ==
  IF \E f \in Range(a.findings) : f.id = id THEN a ELSE AddFinding(a, id, at)

DetectManifest(e) == e.path \in {"package.json", "package-lock.json", "requirements.txt",
                                "Dockerfile", "compose.yml"}
SensitiveName(e) == e.path \in {".env", ".env.example"}

EntryFindings(a, e) ==
  LET remarks == << <<e.place = "up", "path_traversal_entry">>, <<e.place = "root", "absolute_path_entry">>,
                    <<e.type = "symlink", "symlink_entry">>, <<SensitiveName(e), "sensitive_name_entry">> >>
      remark(b, r) == IF r[1] THEN AddOnce(b, r[2], e.path) ELSE b
  IN  FoldLeft(remark, a, remarks)

ArchiveEntry(a, e) ==
  LET c == [a EXCEPT !.considered = @ + 1, !.total = @ + e.size,
                     !.listed = IF @ < MaxListed THEN @ + 1 ELSE @]
      f == EntryFindings(c, e)
      n == IF e.long THEN AddOnce(f, "entry_name_too_long", e.path) ELSE f
  IN  IF DetectManifest(e) THEN AddOnce(n, "manifest_files_detected", e.path) ELSE n

ArchiveFinalize(a) ==
  IF a.total > MaxDeclared THEN AddOnce(a, "uncompressed_size_limit_exceeded", "archive") ELSE a

BlockedArchive(ar) ==
  AddFinding([EmptyAnalysis EXCEPT !.truncated = TRUE], PreflightFinding(BlockReason(ar)), "archive")

ZipArchive(ar) == IF BlockReason(ar) # "none" THEN BlockedArchive(ar)
                  ELSE IF ar.corrupt THEN Unparsed ELSE ArchiveFinalize(Walk(ar, ArchiveEntry))
TarArchive(ar) == IF ar.corrupt THEN Unparsed ELSE ArchiveFinalize(Walk(ar, ArchiveEntry))

AnalyzeMetadata(ar) ==
  CASE ar.format = "unknown" -> Unparsed
    [] ar.format = "zip"     -> ZipArchive(ar)
    [] OTHER                 -> TarArchive(ar)

------------------------------------------------------------------------------
(* The project audit reads manifests and lockfiles, counting a manifest    *)
(* before it knows whether it can be read, and lets the manifest limit     *)
(* hold for lockfiles too.                                                 *)

ManifestPaths == {"package.json", "requirements.txt"}
LockfilePaths == {"package-lock.json"}
Ecosystem(path) == CASE path \in {"package.json", "package-lock.json"} -> "javascript"
                     [] path = "requirements.txt"                    -> "python"
                     [] OTHER                                        -> "container"

ManifestSkipReason(a, e) ==
  FirstReason(PlaceChecks(e) \o TypeChecks(e) \o NameChecks(e)
              \o << <<e.size > MaxFileBytes, "manifest_too_large">>,
                    <<a.manifests > MaxFiles, "too_many_supported_manifests">>,
                    <<a.bytes + e.size > MaxTotalBytes, "total_manifest_bytes_limit">> >>)

ManifestSkipped(a, e, reason) ==
  AddFinding([a EXCEPT !.truncated = @ \/ reason \in {"too_many_supported_manifests", "total_manifest_bytes_limit"}],
             reason, e.path)

(* A lockfile that is left out is counted, not reported.                   *)
ProjectLockfile(a, e) ==
  LET c == [a EXCEPT !.considered = @ + 1, !.lockfiles = @ + 1]
      first  == ManifestSkipReason(c, e)
      reason == IF first = "none" /\ c.lockfiles > MaxFiles THEN "too_many_lockfiles" ELSE first
      left(b, why) == Detect(b, e, "lockfile", FALSE, why)
      o == [c EXCEPT !.opened = @ \union {e.path}]
      r == [o EXCEPT !.bytes = @ + e.size]
  IN  CASE reason # "none" ->
             left([c EXCEPT !.truncated = @ \/ reason \in {"too_many_lockfiles", "total_manifest_bytes_limit"}], reason)
        [] reason = "none" /\ e.body = "encrypted" -> [o EXCEPT !.status = "failed"]
        [] reason = "none" /\ e.body = "broken"    -> left(o, "lockfile_read_error")
        [] reason = "none" /\ e.body = "latin"     -> left(r, "lockfile_utf8_decode_error")
        [] reason = "none" /\ e.body = "nul"       -> left(r, "lockfile_parse_error")
        [] OTHER -> Detect(r, e, "lockfile", TRUE, "none")

ProjectManifest(a, e) ==
  LET c == [a EXCEPT !.considered = @ + 1, !.manifests = @ + 1]
      reason == ManifestSkipReason(c, e)
      o == [c EXCEPT !.opened = @ \union {e.path}]
      r == [o EXCEPT !.bytes = @ + e.size]
      left(b, why) == AddFinding(Detect(b, e, "manifest", FALSE, why), why, e.path)
  IN  CASE reason # "none" -> ManifestSkipped(Detect(c, e, "manifest", FALSE, reason), e, reason)
        [] reason = "none" /\ e.body = "encrypted" -> [o EXCEPT !.status = "failed"]
        [] reason = "none" /\ e.body = "broken"    -> left(o, "manifest_read_error")
        [] reason = "none" /\ e.body = "latin"     -> left(r, "manifest_utf8_decode_error")
        [] reason = "none" /\ e.body = "nul" /\ e.path = "package.json" ->
             AddFinding(Detect(r, e, "manifest", TRUE, "none"), "manifest_parse_error", e.path)
        [] OTHER -> Signals(Detect(r, e, "manifest", TRUE, "none"), e)

DeclaredSizeReached(a, e) == a.declared + e.size > MaxDeclared

ProjectEntry(a, e) ==
  LET c == [a EXCEPT !.declared = @ + e.size]
  IN  CASE DeclaredSizeReached(a, e) ->
             AddFinding([c EXCEPT !.truncated = TRUE, !.status = "stopped"],
                        "uncompressed_size_limit_reached", "archive")
        [] ~DeclaredSizeReached(a, e) /\ e.path \in LockfilePaths -> ProjectLockfile(c, e)
        [] ~DeclaredSizeReached(a, e) /\ e.path \in ManifestPaths -> ProjectManifest(c, e)
        [] ~DeclaredSizeReached(a, e) /\ DetectManifest(e) /\ e.path \notin LockfilePaths \union ManifestPaths ->
             Detect([c EXCEPT !.considered = @ + 1], e, "unsupported", FALSE, "detected_but_not_parsed_in_this_phase")
        [] OTHER -> c

ProjectFinalize(a) ==
  LET systems == {Ecosystem(d.path) : d \in {r \in Range(a.detected) : r.cat # "lockfile"}}
  IN  IF Cardinality(systems) > 1 THEN AddFinding(a, "multiple_ecosystems", "archive") ELSE a

ProjectManifests(ar) == Scanned(ar, ProjectEntry, ProjectFinalize)

(* Each further review adds its findings, its truncation and its errors,   *)
(* and is partial when it has either of the last two.                      *)
Partial(review) == review.truncated \/ review.errors > 0

Attach(p, name, review) ==
  [p EXCEPT !.analysis = [@ EXCEPT !.findings = @ \o [i \in DOMAIN review.findings |->
                                      [id |-> review.findings[i].id, at |-> <<name, review.findings[i].at>>]],
                                   !.truncated = @ \/ review.truncated,
                                   !.errors = @ + review.errors,
                                   !.opened = @ \union review.opened,
                                   !.status = IF review.status = "failed" THEN "failed" ELSE @],
            !.reviews = @ @@ (name :> (IF Partial(review) THEN "partial" ELSE "completed"))]

AttachSensitiveData(p, ar) == Attach(p, "sensitive_data", SecretsArchive(ar))

AttachConfiguration(p, ar) ==
  Attach(Attach(Attach(Attach(p, "docker", DockerArchive(ar)), "compose", ComposeArchive(ar)),
                "kubernetes", K8sArchive(ar)), "terraform", TerraformArchive(ar))

NoReviews == [name \in {} |-> "completed"]

AnalyzeProject(ar) ==
  LET first == ProjectManifests(ar)
  IN  IF ar.format = "unknown" THEN [analysis |-> Unparsed, reviews |-> NoReviews]
      ELSE AttachConfiguration(
             AttachSensitiveData([analysis |-> first, reviews |-> NoReviews], ar), ar)
==============================================================================
