-------------------------- MODULE ComponentInventory --------------------------
(***************************************************************************)
(* The component inventory of a project analysis: what                     *)
(* component_inventory.py derives from the manifests and lockfiles the     *)
(* runner parsed, and how the graphs a CI attaches later are projected on  *)
(* it.                                                                     *)
(*                                                                         *)
(* A path is its root (the directory) and its file; a version is a number, *)
(* 0 when there is no exact one.  The package URL of a component is not    *)
(* kept: _add_exact_package_urls recomputes it from the other fields each  *)
(* time the inventory is written, which HasPackageUrl does when it is read.*)
(***************************************************************************)
EXTENDS Absence, Naturals, FiniteSets, Sequences, SequencesExt

CONSTANT NoRoot  \* the root of a path the inventory withholds

-----------------------------------------------------------------------------
(* What the runner reports. *)

EcosystemOf == [package_json |-> "npm", requirements_txt |-> "pypi",
    pyproject_toml |-> "pypi", pipfile |-> "pypi", go_mod |-> "go",
    cargo_toml |-> "cargo", composer_json |-> "composer",
    gradle_build |-> "maven", dotnet_project |-> "nuget"]

LockTypesOf(mtype) ==
    CASE mtype = "package_json" ->
            {"npm_package_lock", "pnpm_lock", "yarn_classic_lock"}
      [] mtype = "pyproject_toml" -> {"poetry_lock"}
      [] mtype = "pipfile" -> {"pipfile_lock"}
      [] mtype = "go_mod" -> {"go_sum"}
      [] mtype = "cargo_toml" -> {"cargo_lock"}
      [] mtype = "composer_json" -> {"composer_lock"}
      [] OTHER -> {}

Manifests(src, mtype) ==
    {m \in ToSet(src.manifests) : m.type = mtype /\ m.root # NoRoot}

ParsedLocks(src) == SelectSeq(src.locks, LAMBDA l : l.parsed /\ l.root # NoRoot)

LocksOf(src, ltype) == SelectSeq(ParsedLocks(src), LAMBDA l : l.type = ltype)

WorkspaceRoots(src) ==
    {m.root : m \in {n \in Manifests(src, "package_json") : n.workspace}}

-----------------------------------------------------------------------------
(* Declared components. *)

SourceTypes == {"registry", "url", "vcs", "local", "workspace", "unknown"}

OptionalGroups == {"optionalDependencies"}

ComponentFromDependency(m, d) ==
    LET eco == EcosystemOf[m.type]
        kind == IF d.source \in SourceTypes THEN d.source ELSE "unknown"
        exact == IF kind = "registry" THEN d.pin ELSE 0
        indirect == eco = "go" /\ d.group = "indirect"
    IN  [eco |-> eco, name |-> d.name, root |-> m.root, mtype |-> m.type,
         group |-> d.group, source |-> kind,
         declared |-> IF kind = "registry" THEN d.spec ELSE None,
         exact |-> exact,
         status |-> IF exact # 0 THEN "exact_declared"
                    ELSE IF kind = "registry" THEN "declared_range"
                    ELSE "not_correlatable",
         eligible |-> exact # 0, resolution |-> "declared",
         scope |-> IF d.group \in OptionalGroups THEN "optional"
                   ELSE IF indirect THEN "transitive" ELSE "direct",
         relation |-> IF eco \in {"cargo", "composer"} \/ indirect
                      THEN "not_reported" ELSE "reported",
         match |-> "not_applicable", ltype |-> None]

\* The first of the dependencies with one path, group, ecosystem, name and
\* source is kept; withheld paths are one path.
DeclaredComponents(src) ==
    LET Path(m) == IF m.root = NoRoot THEN None ELSE <<m.root, m.type, m.file>>
        Key(x) == <<Path(x.m), x.d.group, EcosystemOf[x.m.type], x.d.name, x.d.source>>
        all == FlattenSeq([i \in DOMAIN src.manifests |->
                 [k \in DOMAIN src.manifests[i].deps |->
                    [m |-> src.manifests[i], d |-> src.manifests[i].deps[k]]]])
        firsts == {i \in DOMAIN all : /\ all[i].d.name # None
                     /\ \A j \in 1 .. i - 1 : Key(all[j]) # Key(all[i])}
    IN  {ComponentFromDependency(all[i].m, all[i].d) : i \in firsts}

-----------------------------------------------------------------------------
(* Lockfile resolutions. *)

\* The label of a package the resolutions of a lockfile may use.
LabelOf(ltype) ==
    IF ltype \in {"npm_package_lock", "cargo_lock"} THEN {"registry"}
    ELSE IF ltype = "composer_lock" THEN {"registry", "unverified_registry", "unknown"}
    ELSE {"unverified_registry"}

\* Yarn resolves a selector, Pipenv a name in its group, the others a name.
PackageKey(ltype, name, group, spec) ==
    CASE ltype = "yarn_classic_lock" -> <<name, spec>>
      [] ltype = "pipfile_lock" -> <<group, name>>
      [] OTHER -> <<name>>

\* The one exact version a lockfile gives to a key, 0 when it gives several.
UniqueExactPackages(l, key) ==
    LET versions == {p.version : p \in {q \in ToSet(l.packages) :
                        /\ q.version # 0 /\ q.source \in LabelOf(l.type)
                        /\ PackageKey(l.type, q.name, q.group, q.spec) = key}}
    IN  IF Cardinality(versions) = 1 THEN CHOOSE v \in versions : TRUE ELSE 0

\* Mutant of LockfileMatchStatus.
MatchStatusOfParsed(candidates, observed, workspace) ==
    IF workspace THEN "ambiguous"
    ELSE IF Len(candidates) = 1 THEN "matched"
    ELSE IF Len(candidates) > 1 THEN "ambiguous" ELSE "not_matched"

LockfileMatchStatus(candidates, observed, workspace) ==
    IF workspace \/ Len(observed) > 1 THEN "ambiguous"
    ELSE IF /\ Len(candidates) = 1
            /\ observed # <<>> => candidates[1].type = observed[1].type
         THEN "matched"
    ELSE IF Len(candidates) > 1 THEN "ambiguous" ELSE "not_matched"

ResolveComponent(src, c) ==
    LET compatible == LockTypesOf(c.mtype)
        Here(l) == l.root = c.root /\ l.type \in compatible
        candidates == SelectSeq(ParsedLocks(src), Here)
        observed == SelectSeq(src.locks, LAMBDA l : l.listed /\ Here(l))
        status == LockfileMatchStatus(candidates, observed,
                     c.eco = "npm" /\ c.root \in WorkspaceRoots(src))
        matched == [c EXCEPT !.match = status]
        lock == candidates[1]
        version == UniqueExactPackages(lock,
                     PackageKey(lock.type, c.name, c.group, c.declared))
    IN  IF compatible = {} \/ c.source # "registry" \/ c.root = NoRoot THEN c
        ELSE IF status # "matched" THEN matched
        ELSE IF version = 0 THEN matched
        ELSE [matched EXCEPT !.exact = version, !.status = "exact_resolved",
                !.eligible = \/ lock.type \in {"npm_package_lock", "cargo_lock"}
                             \/ c.eco \in {"go", "composer"},
                !.resolution = "lockfile", !.ltype = lock.type]

ApplyLockfileResolutions(src, components) ==
    {ResolveComponent(src, c) : c \in components}

-----------------------------------------------------------------------------
(* Components only a lockfile names. *)

LockedComponent(eco, name, version, root, mtype, ltype, group, scope, relation) ==
    [eco |-> eco, name |-> name, root |-> root, mtype |-> mtype,
     group |-> group, source |-> "registry", declared |-> None,
     exact |-> version, status |-> "exact_resolved", eligible |-> TRUE,
     resolution |-> "lockfile", scope |-> scope, relation |-> relation,
     match |-> "matched", ltype |-> ltype]

\* Mutant of Distinct.
DistinctNames(seq) ==
    {seq[i] : i \in {k \in DOMAIN seq : \A j \in 1 .. k - 1 :
        seq[j].name # seq[k].name}}

\* The members of a sequence of components none before has the identity of.
Distinct(seq) ==
    {seq[i] : i \in {k \in DOMAIN seq : \A j \in 1 .. k - 1 :
        \/ seq[j].name # seq[k].name \/ seq[j].exact # seq[k].exact
        \/ seq[j].source # seq[k].source}}

AllPackages(locks, Component(_, _)) ==
    FlattenSeq([i \in DOMAIN locks |->
        [k \in DOMAIN locks[i].packages |->
            Component(locks[i], locks[i].packages[k])]])

\* The versions npm treats as present are those of every ecosystem.
AddNpmTransitive(src, components) ==
    LET roots == {c.root : c \in {d \in components :
                    /\ d.eco = "npm" /\ d.mtype = "package_json"
                    /\ d.source = "registry" /\ d.match = "matched"
                    /\ d.root \notin WorkspaceRoots(src)}}
        present == {<<c.name, c.exact>> :
                      c \in {d \in components : d.source = "registry"}}
        locks == SelectSeq(LocksOf(src, "npm_package_lock"), LAMBDA l :
                   /\ l.root \in roots
                   /\ Len(SelectSeq(LocksOf(src, "npm_package_lock"),
                                    LAMBDA o : o.root = l.root)) = 1)
        nodes == FlattenSeq([i \in DOMAIN locks |->
                   [k \in DOMAIN locks[i].nodes |->
                     LET n == locks[i].nodes[k] IN
                     [LockedComponent("npm", n.name, n.version, locks[i].root,
                        "package_json", "npm_package_lock",
                        n.scope, n.scope, "reported")
                      EXCEPT !.source = n.source]]])
        usable == SelectSeq(nodes, LAMBDA c :
                   /\ c.source = "registry" /\ c.exact # 0
                   /\ c.scope \in {"transitive", "optional"}
                   /\ <<c.name, c.exact>> \notin present)
    IN  components \cup Distinct(usable)

MatchedRoots(components, ltype) ==
    {c.root : c \in {d \in components : d.ltype = ltype /\ d.match = "matched"}}

AddCargoTransitive(src, components) ==
    LET locks == SelectSeq(LocksOf(src, "cargo_lock"),
                   LAMBDA l : l.root \in MatchedRoots(components, "cargo_lock"))
        present == {<<c.name, c.exact>> : c \in {d \in components : d.eco = "cargo"}}
        Crate(l, p) == [LockedComponent("cargo", p.name, p.version, l.root,
                          "cargo_toml", "cargo_lock", "transitive",
                          "transitive", "not_reported") EXCEPT !.source = p.source]
    IN  components \cup Distinct(SelectSeq(AllPackages(locks, Crate),
            LAMBDA c : /\ c.source = "registry" /\ c.exact # 0
                       /\ <<c.name, c.exact>> \notin present))

AddComposerTransitive(src, components) ==
    LET locks == SelectSeq(LocksOf(src, "composer_lock"),
                   LAMBDA l : l.root \in MatchedRoots(components, "composer_lock"))
        present == {<<c.name, c.exact>> :
                      c \in {d \in components : d.eco = "composer"}}
        Package(l, p) == LockedComponent("composer", p.name, p.version, l.root,
                           "composer_json", "composer_lock",
                           IF p.group \in {"require", "require-dev"}
                           THEN p.group ELSE "transitive",
                           "transitive", "not_reported")
    IN  components \cup Distinct(SelectSeq(AllPackages(locks, Package),
            LAMBDA c : c.exact # 0 /\ <<c.name, c.exact>> \notin present))

AddGradle(src, components) ==
    LET roots == {m.root : m \in Manifests(src, "gradle_build")}
        locks == SelectSeq(LocksOf(src, "gradle_lock"), LAMBDA l : l.root \in roots)
        Package(l, p) == LockedComponent("maven", p.name, p.version, l.root,
                           "gradle_build", "gradle_lock", "locked",
                           "transitive", "not_reported")
    IN  components \cup Distinct(SelectSeq(AllPackages(locks, Package),
                                           LAMBDA c : c.exact # 0))

\* An entry without a version is kept, one whose version is not exact is not
\* in the packages.
AddNuget(src, components) ==
    LET projects(root) == {m \in Manifests(src, "dotnet_project") : m.root = root}
        locks == SelectSeq(LocksOf(src, "nuget_packages_lock"), LAMBDA l :
                   /\ Cardinality(projects(l.root)) = 1
                   /\ Len(SelectSeq(LocksOf(src, "nuget_packages_lock"),
                                    LAMBDA o : o.root = l.root)) = 1)
        Entry(l, p) ==
            LET kind == CASE p.source = "unverified_registry" -> "registry"
                          [] p.source = "local" -> "local"
                          [] OTHER -> "unknown"
                told == p.group \in {"direct", "transitive"}
                usable == kind = "registry" /\ p.version # 0
            IN  [LockedComponent("nuget", p.name, p.version, l.root,
                   "dotnet_project", "nuget_packages_lock", "locked",
                   IF told THEN p.group ELSE "transitive",
                   IF told THEN "reported" ELSE "not_reported")
                 EXCEPT !.source = kind, !.eligible = usable,
                        !.status = IF usable THEN "exact_resolved"
                                   ELSE "not_correlatable"]
    IN  components \cup Distinct(AllPackages(locks, Entry))

-----------------------------------------------------------------------------
(* Graphs attached by a CI. *)

MarkerOf == [go |-> "go_mod", cargo |-> "cargo_toml", composer |-> "composer_json",
             maven |-> "gradle_build", nuget |-> "dotnet_project"]

LockOf == [go |-> "go_sum", cargo |-> "cargo_lock", composer |-> "composer_lock",
           maven |-> "gradle_lock", nuget |-> "nuget_packages_lock"]

\* The closed contract an artifact is refused for breaking.
ClosedGraph(g) ==
    LET ids == {n.id : n \in g.nodes} IN
    /\ \A m, n \in g.nodes : m # n => /\ m.id # n.id
                                      /\ <<m.name, m.version>> # <<n.name, n.version>>
    /\ \A n \in g.nodes : n.targets # {} /\ n.targets \subseteq g.targets
    /\ \A r \in g.roots : r.node \in ids
    /\ \A e \in g.edges : {e.from, e.to} \subseteq ids /\ e.targets \subseteq g.targets
    /\ g.eco \in {"maven", "nuget"} => g.nodes # {} /\ g.roots # {}

\* A NuGet graph also assigns its roots and edges to targets of their nodes.
ClosedNugetGraph(g) ==
    LET TargetsOf(id) == (CHOOSE n \in g.nodes : n.id = id).targets IN
    g.eco = "nuget" =>
        /\ \A r \in g.roots : r.targets \subseteq TargetsOf(r.node)
        /\ \A e \in g.edges : e.targets \subseteq TargetsOf(e.from) \cap TargetsOf(e.to)
        /\ UNION {r.targets : r \in g.roots} = g.targets

\* The nodes reached from the roots along the edges of a target.
ReachableIds(g, roots, edges) ==
    LET Reach[k \in Nat] ==
            IF k = 0 THEN roots
            ELSE Reach[k - 1] \cup {e.to : e \in {d \in edges : d.from \in Reach[k - 1]}}
    IN  Reach[Cardinality(g.nodes)]

\* Removing the nodes nothing points to leaves the cycles.
HasCycle(nodes, edges) ==
    LET Left[k \in Nat] ==
            IF k = 0 THEN nodes
            ELSE {n \in Left[k - 1] :
                    \E e \in edges : e.to = n /\ e.from \in Left[k - 1]}
    IN  Left[Cardinality(nodes)] # {}

EveryNodeReached(g) ==
    LET In(t, S) == {x \in S : t \in x.targets}
        ids(S) == {n.id : n \in S}
    IN  IF g.eco = "nuget"
        THEN \A t \in g.targets :
               ReachableIds(g, {r.node : r \in In(t, g.roots)}, In(t, g.edges))
                 = ids(In(t, g.nodes))
        ELSE ReachableIds(g, {r.node : r \in g.roots}, g.edges) = ids(g.nodes)

CyclesDetected(g) ==
    IF g.eco = "nuget"
    THEN \E t \in g.targets :
           HasCycle({n.id : n \in {m \in g.nodes : t \in m.targets}},
                    {e \in g.edges : t \in e.targets})
    ELSE HasCycle({n.id : n \in g.nodes}, g.edges)

Identities(g) == {<<n.name, n.version>> : n \in g.nodes}

RootIdentities(g) ==
    {<<n.name, n.version>> : n \in {m \in g.nodes : \E r \in g.roots : r.node = m.id}}

\* The identities of the one lockfile of the graph's ecosystem.
LockIdentities(src, eco) ==
    LET locks == LocksOf(src, LockOf[eco]) IN
    {<<p.name, p.version>> : p \in {q \in ToSet(locks[1].packages) :
        q.version # 0 /\ (eco = "cargo" => q.source = "registry")}}

SingleSourceRoot(src, eco) ==
    LET manifests == Manifests(src, MarkerOf[eco])
        locks == LocksOf(src, LockOf[eco])
    IN  /\ Cardinality(manifests) = 1 /\ Len(locks) = 1
        /\ \A m \in manifests : m.root = locks[1].root

Reason(pairs) ==
    LET failed == {i \in DOMAIN pairs : pairs[i][1]} IN
    IF failed = {} THEN "none"
    ELSE pairs[CHOOSE i \in failed : \A j \in failed : i <= j][2]

\* What go.mod requires: exact registry requirements, and replaced names.
GoDivergence(src, components, g) ==
    LET deps == ToSet((CHOOSE m \in Manifests(src, "go_mod") : TRUE).deps)
        exact == {d \in deps : d.source = "registry" /\ d.pin # 0}
        replaced == {d.name : d \in {e \in deps : e.source # "registry"}}
        Named(S) == {<<d.name, d.pin>> : d \in S}
    IN  Reason(<<
          <<\E i \in Identities(g) : i[1] \in replaced, "replaced_identity">>,
          <<~(Identities(g) \subseteq LockIdentities(src, "go")),
            "identity_not_in_lockfile">>,
          <<RootIdentities(g) # Named({d \in exact : d.group = "require"}),
            "root_set_mismatch">>,
          <<g.complete /\ ~(Named(exact) \subseteq Identities(g)),
            "complete_graph_omits_manifest_requirement">>,
          <<~EveryNodeReached(g), "unreachable_node">>>>)

\* The direct requirements a Cargo or Composer graph must have as its roots.
DirectRequirements(src, components, eco) ==
    {c \in components :
        /\ c.eco = eco /\ c.source = "registry"
        /\ c.root \in {m.root : m \in Manifests(src, MarkerOf[eco])}
        /\ IF eco = "cargo"
           THEN c.group \in {"dependencies", "dev-dependencies", "build-dependencies"}
           ELSE c.group \in {"require", "require-dev"} /\ c.declared # None}

CargoDivergence(src, components, g) ==
    LET direct == DirectRequirements(src, components, "cargo") IN
    Reason(<<
      <<\E c \in direct : c.match # "matched" \/ c.exact = 0,
        "unresolved_manifest_root">>,
      <<~(Identities(g) \subseteq LockIdentities(src, "cargo")),
        "identity_not_in_lockfile">>,
      <<RootIdentities(g) # {<<c.name, c.exact>> : c \in direct}, "root_set_mismatch">>,
      <<~EveryNodeReached(g), "unreachable_node">>>>)

ComposerDivergence(src, components, g) ==
    LET direct == DirectRequirements(src, components, "composer") IN
    Reason(<<
      <<(CHOOSE m \in Manifests(src, "composer_json") : TRUE).custom,
        "custom_repository_declared">>,
      <<\E c \in direct : c.match # "matched" \/ c.exact = 0,
        "unresolved_manifest_root">>,
      <<~(Identities(g) \subseteq LockIdentities(src, "composer")),
        "identity_not_in_lockfile">>,
      <<RootIdentities(g) # {<<c.name, c.exact>> : c \in direct}, "root_set_mismatch">>,
      <<~EveryNodeReached(g), "unreachable_node">>>>)

GradleDivergence(src, components, g) ==
    Reason(<<
      <<~(Identities(g) \subseteq LockIdentities(src, "maven")),
        "identity_not_in_lockfile">>,
      <<~EveryNodeReached(g), "unreachable_node">>>>)

NugetDivergence(src, components, g) ==
    Reason(<<
      <<LocksOf(src, "nuget_packages_lock")[1].targets # Cardinality(g.targets),
        "target_count_mismatch">>,
      <<~(Identities(g) \subseteq LockIdentities(src, "nuget")),
        "identity_not_in_lockfile">>,
      <<~EveryNodeReached(g), "unreachable_node">>>>)

Divergence(src, components, g) ==
    IF ~SingleSourceRoot(src, g.eco) THEN "no_single_source_root"
    ELSE CASE g.eco = "go" -> GoDivergence(src, components, g)
           [] g.eco = "cargo" -> CargoDivergence(src, components, g)
           [] g.eco = "composer" -> ComposerDivergence(src, components, g)
           [] g.eco = "maven" -> GradleDivergence(src, components, g)
           [] OTHER -> NugetDivergence(src, components, g)

\* The identity a component has among a graph's nodes.
IdentityOf(c) == <<c.name, c.exact>>

Related(c, g) == c.eco = g.eco /\ IdentityOf(c) \in Identities(g)

\* Scope and relationship of the components a graph names.
Relate(components, g) ==
    {IF Related(c, g)
     THEN [c EXCEPT
             !.scope = IF IdentityOf(c) \in RootIdentities(g)
                       THEN "direct" ELSE "transitive",
             !.relation = IF g.complete THEN "reported" ELSE "truncated"]
     ELSE c : c \in components}

\* A Go graph also resolves what it names and adds what only go.sum named.
RelateGo(src, components, g) ==
    LET root == LocksOf(src, "go_sum")[1].root
        resolved == {IF Related(c, g)
                     THEN [c EXCEPT !.status = "exact_resolved", !.eligible = TRUE,
                             !.resolution = "lockfile", !.ltype = "go_sum",
                             !.match = "matched"]
                     ELSE c : c \in Relate(components, g)}
        present == {IdentityOf(c) : c \in {d \in components : d.eco = "go"}}
        Scope(i) == IF i \in RootIdentities(g) THEN "direct" ELSE "transitive"
    IN  resolved \cup
        {LockedComponent("go", i[1], i[2], root, "go_mod", "go_sum",
            IF Scope(i) = "direct" THEN "require" ELSE "transitive", Scope(i),
            IF g.complete THEN "reported" ELSE "truncated") :
            i \in Identities(g) \ present}

ApplyGraph(src, components, g) ==
    IF Divergence(src, components, g) # "none" THEN components
    ELSE IF g.eco = "go" THEN RelateGo(src, components, g)
    ELSE Relate(components, g)

\* The aggregate receipt that is kept of a graph.
Receipt(src, components, g) ==
    LET reason == Divergence(src, components, g)
        matched == IF reason = "no_single_source_root" THEN {}
                   ELSE Identities(g) \cap LockIdentities(src, g.eco)
    IN  [sha |-> g.sha, cycles |-> CyclesDetected(g),
         matched |-> Cardinality(matched),
         unmatched |-> Cardinality(g.nodes) - Cardinality(matched),
         reason |-> IF reason = "none" /\ ~g.complete
                    THEN "producer_truncated" ELSE reason,
         state |-> IF reason # "none" THEN "divergent"
                   ELSE IF g.complete THEN "accepted" ELSE "truncated"]

-----------------------------------------------------------------------------
(* The inventory of a result. *)

LockedInventory(src) ==
    LET declared == ApplyLockfileResolutions(src, DeclaredComponents(src))
        npm == AddNpmTransitive(src, declared)
        cargo == AddCargoTransitive(src, npm)
        composer == AddComposerTransitive(src, cargo)
        maven == AddGradle(src, composer)
    IN  AddNuget(src, maven)

GraphOrder == <<"go", "cargo", "composer", "maven", "nuget">>

\* The inventory built with every graph at hand.
BuildComponentInventory(src, graphs) ==
    LET Apply(components, eco) ==
            IF \E g \in graphs : g.eco = eco
            THEN ApplyGraph(src, components, CHOOSE g \in graphs : g.eco = eco)
            ELSE components
    IN  FoldLeft(Apply, LockedInventory(src), GraphOrder)

\* An imported SBOM brings its own inventory.
AddComponentInventory(src) ==
    [components |-> IF src.imported # {} THEN src.imported
                    ELSE BuildComponentInventory(src, {}),
     receipts |-> <<>>]

\* One graph is projected on the inventory the record holds.
AttachDependencyGraphProjection(rec, src, g) ==
    [components |-> ApplyGraph(src, rec.components, g),
     receipts |-> [e \in DOMAIN rec.receipts \cup {g.eco} |->
        IF e = g.eco THEN Receipt(src, rec.components, g) ELSE rec.receipts[e]]]

\* Mutant of SanitizeForStorage.
RebuiltForStorage(rec, src) == AddComponentInventory(src)

\* Every save of the record passes its result through the inventory again: it
\* is kept when a graph was attached, and rebuilt from the result otherwise.
SanitizeForStorage(rec, src) ==
    IF DOMAIN rec.receipts # {} THEN rec ELSE AddComponentInventory(src)

=============================================================================
