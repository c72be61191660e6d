----------------------------- MODULE ConfigReview -----------------------------
(***************************************************************************)
(* One configuration review of the passive runner: the files of an archive *)
(* that the review reads, one after the other, and its conclusions at the  *)
(* end.  Which files are read and within which limits is ArchiveReview;    *)
(* here is what their text leads to.                                       *)
(***************************************************************************)
EXTENDS EdgeSignals, WorkloadSignals, SourceSignals, PipelineSignals

CONSTANTS Profiles,     \* the reviews
          ArchivesOf(_) \* of a review: sequences of the files it reads

VARIABLES profile, archive,
          at,           \* how many files have been read
          review, stage
reviewVars == <<profile, archive, at, review, stage>>

(* The reader's view of a file: its path and what the path suggests.       *)
ContextOf(p, file) ==
  CASE p = "nginx"    -> NginxContext(file.at)
    [] p = "redis"    -> RedisContext(file.at)
    [] p = "database" -> DatabaseContext(file.at)
    [] p = "compose"  -> ComposeContext(file.at)
    [] p = "k8s"      -> K8sContext(file.at)
    [] p = "docker"   -> DockerContext(file.at)
    [] p = "node"     -> NodeContext(file.at, file.type)
    [] p = "django"   -> DjangoContext(file.at)
    [] p = "secrets"  -> SecretsContext(file.at, file.type)
    [] p = "cicd"     -> CiCdContext(file.at, file.type)
    [] OTHER          -> TerraformContext(file.at, file.type)
Opened(p, file) ==
  [path |-> file.path, context |-> ContextOf(p, file), type |-> file.type, name |-> file.at.name,
   base |-> file.at.base, provider |-> file.provider, manifest |-> file.manifest]

Started(p) ==
  CASE p \in {"nginx", "redis", "database"} -> EdgeReview
    [] p \in {"compose", "k8s", "docker"} -> [files |-> <<>>, findings |-> <<>>, errors |-> 0]
    [] p \in {"node", "django", "secrets"} -> SourceReview
    [] p = "cicd" -> CiCdReview
    [] OTHER -> TerraformReview

ReadFile(p, a, file) ==
  LET f == Opened(p, file)
  IN  CASE p = "nginx"    -> NginxText(a, f, file.lines)
        [] p = "redis"    -> RedisText(a, f, file.lines)
        [] p = "database" -> DatabaseText(a, f, file.lines)
        [] p = "compose"  -> ComposeText(a, f, file.lines)
        [] p = "k8s"      -> K8sText(a, f, file.lines)
        [] p = "docker"   -> DockerText(a, f, file.lines)
        [] p = "node"     -> NodeText(a, f, file.lines)
        [] p = "django"   -> DjangoText(a, f, file.lines)
        [] p = "secrets"  -> SecretsText(a, f, file.lines)
        [] p = "cicd"     -> CiCdText(a, f, file.lines)
        [] OTHER          -> TerraformText(a, f, file.lines)

Finalized(p, a) ==
  CASE p = "nginx"    -> NginxTextFinalize(a)
    [] p = "redis"    -> RedisTextFinalize(a)
    [] p = "database" -> DatabaseTextFinalize(a)
    [] p = "compose"  -> ComposeTextFinalize(a)
    [] p = "k8s"      -> K8sTextFinalize(a)
    [] p = "docker"   -> DockerTextFinalize(a)
    [] p = "node"     -> NodeTextFinalize(a)
    [] p = "django"   -> DjangoTextFinalize(a)
    [] p = "secrets"  -> SecretsTextFinalize(a)
    [] p = "cicd"     -> CiCdTextFinalize(a)
    [] OTHER          -> TerraformTextFinalize(a)

ReviewInit ==
  /\ profile \in Profiles
  /\ archive \in ArchivesOf(profile)
  /\ at = 0
  /\ review = Started(profile)
  /\ stage = "reading"

ReadNext ==
  /\ stage = "reading" /\ at < Len(archive)
  /\ at' = at + 1
  /\ review' = ReadFile(profile, review, archive[at + 1])
  /\ UNCHANGED <<profile, archive, stage>>

Conclude ==
  /\ stage = "reading" /\ at = Len(archive)
  /\ review' = Finalized(profile, review)
  /\ stage' = "done"
  /\ UNCHANGED <<profile, archive, at>>

Concluded == stage = "done" /\ UNCHANGED reviewVars
ReviewNext == ReadNext \/ Conclude \/ Concluded
ReviewSpec == ReviewInit /\ [][ReviewNext]_reviewVars

------------------------------------------------------------------------------
(* Properties                                                              *)

Findings == Range(review.findings)
Ids(a) == {f.id : f \in Range(a.findings)}
ReviewOf(p, files) ==
  Finalized(p, FoldLeft(LAMBDA a, f : ReadFile(p, a, f), Started(p), files))

(* The values a file gives to something that is named like a secret, and   *)
(* the URLs that carry a user and a password, never show in a finding: the *)
(* evidence is redacted by the functions that add findings, each review    *)
(* with its own patterns (redact_*_secret_text).                           *)
SecretTexts == NginxSecretWords \union RedisSecretWords \union DatabaseSecrets
  \union {"s3cret", "t0", "TOKEN=s3cret", "Bearer s3cret", "postgres://u:p@h", "env or s3cret"}
  \union DOMAIN SecretUrls
SecretsRedacted == \A f \in Findings : Range(f.ev) \cap SecretTexts = {}

(* What is reported does not depend on the order of the statements of a    *)
(* block, nor on the order of the files in the archive: facts that belong  *)
(* together (a wildcard origin and credentials, a lockfile and the manager *)
(* a manifest asks for, a setting and its absence elsewhere) are put       *)
(* together whatever comes first.                                          *)
Reordered(file) ==
  [file EXCEPT !.lines = SubSeq(@, 1, file.from - 1)
                         \o Reverse(SubSeq(@, file.from, file.to)) \o SubSeq(@, file.to + 1, Len(@))]
OrderFree ==
  stage = "done" =>
    /\ Ids(ReviewOf(profile, Reverse(archive))) = Ids(review)
    /\ Ids(ReviewOf(profile, [i \in DOMAIN archive |-> Reordered(archive[i])])) = Ids(review)

(* What a file should say and does not is reported, at a level that is     *)
(* lowered only when every file that lacks it is an example, a test or the *)
(* like: for each Redis server on its own (finalize_redis_state), for      *)
(* Django over all settings files (add_grouped_django_missing_setting_     *)
(* findings), for Terraform over the archive.                              *)
Lacks(file, w) == w \notin Range(file.lines)
RedisExpected == ("requirepass p" :> "redis_requirepass_missing") @@ ("maxmemory 1gb" :> "redis_maxmemory_missing")
AbsenceReported ==
  stage = "done" =>
    CASE profile = "redis" ->
           \A i \in DOMAIN archive : \A w \in DOMAIN RedisExpected :
             archive[i].type = "redis" /\ Lacks(archive[i], w) => RedisExpected[w] \in Ids(review)
      [] profile = "django" ->
           \A k \in DOMAIN DjangoSafe :
             LET without == {i \in DOMAIN archive : archive[i].type = "settings" /\ k \in DjangoLacks(archive[i].lines)}
                 serious == {i \in without : DjangoContext(archive[i].at) \notin LowerContexts}
                 told == {f \in Findings : f.id = DjangoSafe[k].id}
             IN  /\ (told # {}) = (without # {})
                 /\ serious # {} => \A f \in told : f.level = DjangoSafe[k].level
      [] profile = "terraform" /\ ~review.failed ->
           LET code == {i \in DOMAIN archive : archive[i].type = "terraform"}
               locks == {i \in DOMAIN archive : archive[i].type = "lockfile"}
           IN  (code # {} /\ locks = {}) = ("terraform_lockfile_missing" \in Ids(review))
      [] OTHER -> TRUE

(* The blocks that the line readers recover from indentation or from       *)
(* braces are the ones that were written: the services of a Compose file   *)
(* (compose_child_blocks) and the blocks of a Terraform file with those    *)
(* inside of them (terraform_blocks).  written holds, for each, its name   *)
(* and its lines.                                                          *)
BlocksRecovered ==
  \A i \in DOMAIN archive :
    LET lines == archive[i].lines
        services == ComposeSection(lines, "services")
    IN  CASE profile = "terraform" ->
               {<<b.type, b.lines>> : b \in TerraformBlocks(ActiveTerraformLines(lines))} = archive[i].written
          [] profile = "compose" /\ services # <<>> ->
               {<<b.key, b.lines>> : b \in Range(ComposeChildBlocks(services[1], 0))} = archive[i].written
          [] OTHER -> TRUE

==============================================================================
