--------------------------- MODULE InventoryEvidence ---------------------------
(***************************************************************************)
(* The life of an analysis's component inventory: it is written when the   *)
(* analysis completes, rewritten by every later save of the record,        *)
(* enriched by the graphs a CI attaches, and read by the public advisory   *)
(* requests, which may name only some of its components.                   *)
(***************************************************************************)
EXTENDS ComponentInventory

CONSTANTS
    Sources,      \* the runner results an analysis may end with
    Graphs,       \* the artifacts a CI may attach
    Policies,     \* the namespace policies a request may run under
    ScopedNames,  \* the npm names with a scope
    MaxGraphs,    \* graphs attached to a record explored
    MaxSaves      \* later saves of the record explored

VARIABLES
    result,     \* the runner's result
    record,     \* the persisted inventory and graph receipts, or None
    attached,   \* the graphs whose receipt the record holds
    flight,     \* the inventory an advisory request in progress has read, and
                \* whether a graph was attached since, or None
    intel,      \* the same of the request that stored the intelligence
    saves

evidence == <<result, record, attached, flight, intel, saves>>

-----------------------------------------------------------------------------
(* The coverage matrix. *)

ManifestObservation(src, mtype) ==
    IF \E m \in ToSet(src.manifests) : m.type = mtype THEN "parsed"
    ELSE IF mtype \in src.supported THEN "detected_not_parsed" ELSE "not_detected"

LockfileObservation(src, ltype) ==
    LET seen == {l \in ToSet(src.locks) : l.listed /\ l.type = ltype} IN
    IF seen = {} THEN "not_detected"
    ELSE IF \E l \in seen : l.parsed THEN "parsed" ELSE "detected_not_parsed"

NpmGraphTruncated(src) ==
    \E l \in ToSet(src.locks) : l.parsed /\ l.type = "npm_package_lock" /\ l.truncated

GraphState(rec, eco) ==
    IF eco \in DOMAIN rec.receipts THEN rec.receipts[eco].state ELSE "not_provided"

\* The statuses of every component, of whatever ecosystem.
NpmCoverageReason(src, rec) ==
    LET statuses == {c.match : c \in rec.components} IN
    IF "ambiguous" \in statuses THEN "ambiguous_root_pair"
    ELSE IF "matched" \notin statuses THEN "no_same_root_match"
    ELSE IF NpmGraphTruncated(src) THEN "graph_truncated" ELSE "none"

\* Mutant of LockCoverageReason.
LockCoverageReasonAnyType(rec, ltype) ==
    LET statuses == {c.match : c \in rec.components} IN
    IF "ambiguous" \in statuses THEN "ambiguous_root_pair"
    ELSE IF "matched" \in statuses THEN "none" ELSE "no_same_root_match"

\* Only a resolved component has a lockfile type, so that an ambiguous one
\* never has the type asked for.
LockCoverageReason(rec, ltype) ==
    LET statuses == {c.match : c \in {d \in rec.components : d.ltype = ltype}} IN
    IF "ambiguous" \in statuses THEN "ambiguous_root_pair"
    ELSE IF "matched" \in statuses THEN "none" ELSE "no_same_root_match"

GraphCoverageReason(state, unprovided) ==
    CASE state = "truncated" -> "graph_truncated"
      [] state = "divergent" -> "graph_divergent"
      [] state = "accepted" -> "none"
      [] OTHER -> unprovided

RelatedLockReason(rec, ltype, eco) ==
    LET reason == LockCoverageReason(rec, ltype) IN
    IF reason # "none" THEN reason
    ELSE GraphCoverageReason(GraphState(rec, eco), "relationship_evidence_not_provided")

GradleCoverageReason(rec) ==
    IF \A c \in rec.components : c.ltype # "gradle_lock" THEN "no_same_root_match"
    ELSE GraphCoverageReason(GraphState(rec, "maven"), "relationship_evidence_not_provided")

NugetCoverageReason(src, rec) ==
    LET locks == LocksOf(src, "nuget_packages_lock")
        Count(seq, root) == Len(SelectSeq(seq, LAMBDA x : x.root = root))
        projects == SelectSeq(src.manifests, LAMBDA m : m.type = "dotnet_project")
    IN  IF \E l \in ToSet(locks) :
              Count(projects, l.root) > 1 \/ Count(locks, l.root) > 1
        THEN "ambiguous_root_pair"
        ELSE IF \A c \in rec.components : c.ltype # "nuget_packages_lock"
        THEN "no_same_root_match"
        ELSE GraphCoverageReason(GraphState(rec, "nuget"), "none")

Rows == [npm_package_lock |-> "package_json", pnpm_lock |-> "package_json",
    yarn_classic_lock |-> "package_json", poetry_lock |-> "pyproject_toml",
    pipfile_lock |-> "pipfile", go_sum |-> "go_mod", cargo_lock |-> "cargo_toml",
    composer_lock |-> "composer_json", gradle_lock |-> "gradle_build",
    nuget_packages_lock |-> "dotnet_project"]

ExclusionReason(src, rec, row) ==
    CASE LockfileObservation(src, row) = "not_detected" -> "not_detected"
      [] LockfileObservation(src, row) = "detected_not_parsed" ->
            "defensive_limit_or_invalid_input"
      [] row = "npm_package_lock" -> NpmCoverageReason(src, rec)
      [] row \in {"go_sum", "cargo_lock", "composer_lock"} ->
            RelatedLockReason(rec, row, EcosystemOf[Rows[row]])
      [] row = "gradle_lock" -> GradleCoverageReason(rec)
      [] row = "nuget_packages_lock" -> NugetCoverageReason(src, rec)
      [] OTHER -> LockCoverageReason(rec, row)

\* An imported SBOM has no matrix; the rows without a lockfile only repeat
\* what was observed of their manifest.
BuildComponentCoverageMatrix(src, rec) ==
    IF src.imported # {} THEN <<>>
    ELSE [row \in DOMAIN Rows |->
            [manifest |-> ManifestObservation(src, Rows[row]),
             lockfile |-> LockfileObservation(src, row),
             reason |-> ExclusionReason(src, rec, row)]]

-----------------------------------------------------------------------------
(* Which components a public advisory request may name. *)

Excludes(policy, c) ==
    <<c.eco, c.name>> \in policy.private \/ (c.eco = "npm" /\ c.name \in ScopedNames)

Attested(policy, c) == <<c.eco, c.name>> \in policy.attested /\ ~Excludes(policy, c)

AllowsOrganizationIdentity(policy, c) ==
    policy.required => <<c.eco, c.name>> \in policy.organization

HasPackageUrl(c) == c.source = "registry" /\ c.eligible /\ c.exact # 0

LockedAs(c, mtype, ltype) ==
    /\ c.mtype = mtype /\ c.resolution = "lockfile"
    /\ c.match = "matched" /\ c.ltype = ltype /\ HasPackageUrl(c)

\* A direct requirement of a pyproject.toml pinned to the resolved version.
PinnedPypi(c) ==
    /\ c.eco = "pypi" /\ c.mtype = "pyproject_toml" /\ c.scope = "direct"
    /\ c.declared = <<"pin", c.exact>>

IdentityProvenance(policy, c) ==
    CASE LockedAs(c, "package_json", "npm_package_lock") -> "npm_registry_lockfile"
      [] c.mtype = "cyclonedx" /\ HasPackageUrl(c) -> "operator_attested_public_sbom"
      [] PinnedPypi(c) /\ Attested(policy, c) -> "operator_attested_public_pypi"
      [] LockedAs(c, "go_mod", "go_sum") /\ Attested(policy, c) ->
            "operator_attested_public_go"
      [] LockedAs(c, "cargo_toml", "cargo_lock") -> "cargo_crates_io_lockfile"
      [] LockedAs(c, "composer_json", "composer_lock") /\ Attested(policy, c) ->
            "operator_attested_public_composer"
      [] LockedAs(c, "gradle_build", "gradle_lock") /\ Attested(policy, c) ->
            "operator_attested_public_maven"
      [] LockedAs(c, "dotnet_project", "nuget_packages_lock") /\ Attested(policy, c) ->
            "operator_attested_public_nuget"
      [] OTHER -> "not_applicable"

\* A component is named when its origin is proven or attested, and the
\* organization approves it.
QueryableIdentity(policy, c) ==
    /\ c.source = "registry" /\ c.exact # 0 /\ ~Excludes(policy, c)
    /\ IdentityProvenance(policy, c) # "not_applicable"
    /\ AllowsOrganizationIdentity(policy, c)

NotCorrelatableReason(policy, c) ==
    CASE c.source # "registry" -> "not_public_registry_component"
      [] c.source = "registry" /\ c.exact = 0 -> "exact_version_unavailable"
      [] Excludes(policy, c) -> "private_namespace"
      [] /\ ~AllowsOrganizationIdentity(policy, c)
         /\ QueryableIdentity([policy EXCEPT !.required = FALSE], c) ->
            "organization_identity_not_attested"
      [] PinnedPypi(c) -> "public_pypi_identity_not_attested"
      [] c.ltype \in {"go_sum", "composer_lock", "gradle_lock",
                      "nuget_packages_lock"} -> "public_identity_not_attested"
      [] c.ltype = "npm_package_lock" /\ ~c.eligible -> "exact_version_unavailable"
      [] c.ltype \in {"npm_package_lock", "cargo_lock"} -> "identity_not_approved"
      [] OTHER -> "public_registry_provenance_unverified"

\* What the snapshot of a request says of each component before any answer.
ComponentCorrelationSeed(policy, components) ==
    {[component |-> c,
      reason |-> IF QueryableIdentity(policy, c) THEN "provider_unavailable"
                 ELSE NotCorrelatableReason(policy, c)] : c \in components}

-----------------------------------------------------------------------------
(* The record. *)

EvidenceInit ==
    /\ result \in Sources
    /\ record = None /\ attached = {} /\ flight = None /\ intel = None
    /\ saves = 0

CompleteAnalysis ==
    /\ record = None
    /\ record' = AddComponentInventory(result)
    /\ UNCHANGED <<result, attached, flight, intel, saves>>

\* A later save of the job record.
SaveRecord ==
    /\ record # None /\ saves < MaxSaves
    /\ record' = SanitizeForStorage(record, result)
    /\ saves' = saves + 1
    /\ UNCHANGED <<result, attached, flight, intel>>

\* Mutant of AttachmentTarget.
AttachmentTargetAnyTime == record # None /\ result.commit

\* A graph is accepted for a completed analysis bound to one commit that no
\* stored intelligence refers to.
AttachmentTarget == record # None /\ result.commit /\ intel = None

\* The request bodies the five routes accept.
WellFormedUpload(g) == ClosedGraph(g) /\ ClosedNugetGraph(g)

\* The first graph of an ecosystem is projected; the same one again is a
\* replay and another one a conflict, which change nothing.
FirstOfItsEcosystem(g) == g.eco \notin DOMAIN record.receipts

AttachDependencyGraph(g) ==
    /\ AttachmentTarget
    /\ Cardinality(attached) < MaxGraphs
    /\ WellFormedUpload(g)
    /\ FirstOfItsEcosystem(g)
    /\ record' = AttachDependencyGraphProjection(record, result, g)
    /\ attached' = attached \cup {g}
    /\ flight' = IF flight = None THEN None ELSE [flight EXCEPT !.overtaken = TRUE]
    /\ UNCHANGED <<result, intel, saves>>

\* An advisory request reads the record, waits for the providers, and stores
\* its snapshot; it may be repeated.
BeginCorrelation ==
    /\ record # None /\ flight = None
    /\ flight' = [components |-> record.components, overtaken |-> FALSE]
    /\ UNCHANGED <<result, record, attached, intel, saves>>

EndCorrelation ==
    /\ flight # None
    /\ intel' = flight /\ flight' = None
    /\ UNCHANGED <<result, record, attached, saves>>

EvidenceNext ==
    \/ CompleteAnalysis
    \/ SaveRecord
    \/ \E g \in Graphs : AttachDependencyGraph(g)
    \/ BeginCorrelation
    \/ EndCorrelation

EvidenceSpec == EvidenceInit /\ [][EvidenceNext]_evidence

-----------------------------------------------------------------------------
(* Properties. *)

\* The origin of a component, read from the result alone: the only lockfile
\* its root has names that version of it.
OnlyLock(c) ==
    LET here == {l \in ToSet(result.locks) : l.root = c.root /\
                    (l.type \in LockTypesOf(c.mtype) \/ l.type = c.ltype)}
    IN  /\ Cardinality(here) = 1
        /\ \A l \in here : l.parsed /\
             \E p \in ToSet(l.packages) \cup ToSet(l.nodes) :
                /\ p.name = c.name /\ p.version = c.exact
                /\ l.type \in {"npm_package_lock", "cargo_lock"} => p.source = "registry"

\* A component is named to an advisory source only when its origin is proven:
\* the one lockfile of its root names it from the official registry (npm,
\* Cargo), or the operator attests its name and that lockfile, or its exact pin
\* in pyproject.toml, gives its version.  Whatever graphs were attached, and
\* whatever the lockfiles of other roots and ecosystems say
\* (_queryable_identity, _apply_*_dependency_graph).
IdentityIsProven ==
    record # None => \A policy \in Policies : \A c \in record.components :
        (QueryableIdentity(policy, c) /\ result.imported = {}) =>
            /\ ~Excludes(policy, c)
            /\ c.eco \notin {"npm", "cargo"} => Attested(policy, c)
            /\ OnlyLock(c) \/ PinnedPypi(c)

\* The graphs of several ecosystems, attached one at a time in any order and
\* with other saves of the record in between, leave the inventory that building
\* it with all of them at once gives: none erases or touches the projection of
\* another (attach_dependency_graph_projection, sanitize_job_record_for_storage).
ProjectionsKept ==
    (record # None /\ result.imported = {}) =>
        record.components = BuildComponentInventory(result, attached)

\* Every exact package of a lockfile that resolved its project is in the
\* inventory of its ecosystem.  A package-lock node is missing when a component
\* of another ecosystem has its name and version
\* (_add_npm_transitive_lockfile_components and its siblings).
LockedIsListed ==
    (record # None /\ result.imported = {}) =>
        LET Listed(eco, p) == \E c \in record.components :
                c.eco = eco /\ c.name = p.name /\ c.exact = p.version
            Resolved(l) == l.root \in MatchedRoots(record.components, l.type)
            Masked(p) == \E c \in record.components :
                c.eco # "npm" /\ c.name = p.name /\ c.exact = p.version
        IN  \A l \in ToSet(ParsedLocks(result)) : Resolved(l) =>
              /\ l.type \in {"cargo_lock", "composer_lock"} =>
                   \A p \in ToSet(l.packages) :
                      (p.version # 0 /\ p.source \in LabelOf(l.type)) =>
                         Listed(EcosystemOf[Rows[l.type]], p)
              /\ l.type = "npm_package_lock" =>
                   \A n \in ToSet(l.nodes) :
                      (n.version # 0 /\ n.source = "registry") =>
                         Listed("npm", n) \/ Masked(n)

\* The stored intelligence is about the inventory the record holds, unless a
\* graph was attached while the request was waiting for the providers
\* (_dependency_graph_attachment_target, run_project_osv_vulnerability_intelligence).
EvidenceMatchesInventory ==
    intel # None => (intel.overtaken \/ intel.components = record.components)

\* What the views derived from the inventory say is true of it: a row of the
\* coverage matrix without exclusion has a component its lockfile resolved (for
\* package-lock.json, which counts every ecosystem, some matched component) and
\* no graph that was refused or cut; and no component that has an exact version
\* is reported as lacking one (build_component_coverage_matrix,
\* _not_correlatable_reason).
CoverageIsTold ==
    record # None =>
        LET matrix == BuildComponentCoverageMatrix(result, record) IN
        /\ \A row \in DOMAIN matrix : matrix[row].reason = "none" =>
             /\ \E c \in record.components :
                  c.match = "matched" /\ (row # "npm_package_lock" => c.ltype = row)
             /\ GraphState(record, EcosystemOf[Rows[row]])
                  \notin {"truncated", "divergent"}
        /\ \A policy \in Policies :
             \A s \in ComponentCorrelationSeed(policy, record.components) :
                s.reason = "exact_version_unavailable" => s.component.exact = 0

=============================================================================
