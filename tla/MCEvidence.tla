----------------------------- MODULE MCEvidence -----------------------------
(***************************************************************************)
(* The inventory of an analysis (InventoryEvidence) and the public         *)
(* advisories about its components (AdvisoryIntelligence).  Each has its   *)
(* own small instance, with manifests and graphs of every ecosystem in the *)
(* first and one component in the second: a behaviour follows one of them. *)
(***************************************************************************)
EXTENDS InventoryEvidence, AdvisoryIntelligence

-----------------------------------------------------------------------------
(* Small results, graphs and policies for InventoryEvidence. *)

Dep(group, name, kind, pin) ==
    [group |-> group, name |-> name, source |-> kind, pin |-> pin,
     spec |-> <<IF pin = 0 THEN "range" ELSE "pin", pin>>]

Manifest(type, root, deps) ==
    [type |-> type, root |-> root, file |-> 1, workspace |-> FALSE,
     custom |-> FALSE, deps |-> deps]

Package(name, version, kind, group) ==
    [name |-> name, version |-> version, source |-> kind, group |-> group,
     spec |-> <<"range", 0>>]

Node(name, version, kind, scope) ==
    [name |-> name, version |-> version, source |-> kind, scope |-> scope]

Lock(type, root, packages) ==
    [type |-> type, root |-> root, parsed |-> TRUE, listed |-> TRUE,
     packages |-> packages, nodes |-> <<>>, truncated |-> FALSE, targets |-> 1]

Source(manifests, locks) ==
    [manifests |-> manifests, locks |-> locks, supported |-> {"pipfile"},
     imported |-> {}, commit |-> TRUE]

\* npm: one manifest, lockfiles of three managers, workspaces, other roots.
NpmSources ==
    LET deps == <<Dep("dependencies", "a", "registry", 0),
                  Dep("dependencies", "a", "registry", 1),
                  Dep("optionalDependencies", "b", "registry", 2),
                  Dep("dependencies", "c", "vcs", 0)>>
        nodes == <<Node("b", 1, "registry", "transitive"),
                   Node("b", 1, "registry", "optional"),
                   Node("c", 1, "url", "transitive"),
                   Node("d", 1, "registry", "optional"),
                   Node("d", 2, "registry", "transitive")>>
        packages(kind, two) ==
            <<Package("a", 1, kind, "x"), Package("a", IF two THEN 2 ELSE 1, kind, "x"),
              Package("b", 0, kind, "x"), Package("b", 1, kind, "x")>>
        first(type, root, two) ==
            [Lock(type, root, packages(IF type = "npm_package_lock"
                THEN "registry" ELSE "unverified_registry", two))
             EXCEPT !.nodes = IF type = "npm_package_lock" THEN nodes ELSE <<>>,
                    !.truncated = two]
        second == {<<>>} \cup
            {<<[Lock(t, "r", packages("unverified_registry", FALSE))
                EXCEPT !.parsed = p]>> :
                t \in {"pnpm_lock", "yarn_classic_lock"}, p \in BOOLEAN}
        \* Results older than the list of lockfiles only have the parsed ones.
        old(locks) == [i \in DOMAIN locks |->
                         [locks[i] EXCEPT !.listed = FALSE, !.parsed = TRUE]]
        python == Manifest("pyproject_toml", "r",
                           <<Dep("project", "b", "registry", 1)>>)
    IN  {Source(<<[Manifest("package_json", root, deps) EXCEPT !.workspace = ws]>>
                   \o (IF py THEN <<python>> ELSE <<>>),
                IF age THEN old(<<first(type, "r", two)>> \o more)
                ELSE <<first(type, "r", two)>> \o more) :
            age \in BOOLEAN, type \in {"npm_package_lock", "pnpm_lock", "yarn_classic_lock"},
            root \in {"r", "s", NoRoot}, two, ws, py \in BOOLEAN, more \in second}

\* Python: a pin, a Poetry and a Pipenv lockfile.
PypiSources ==
    {Source(<<Manifest("pyproject_toml", "r", <<Dep("project", "a", "registry", pin)>>),
              Manifest("pipfile", "r", <<Dep("packages", "b", "registry", 0)>>),
              Manifest("requirements_txt", "r", <<Dep("all", "d", "registry", 1)>>)>>,
            <<Lock("poetry_lock", "r", <<Package("a", v, "unverified_registry", "x")>>),
              Lock("pipfile_lock", root, <<Package("b", 1, "unverified_registry", g)>>)>>) :
        pin, v \in 0 .. 2, root \in {"r", "s"}, g \in {"packages", "dev-packages"}}

GoParts == {<<Manifest("go_mod", "r", <<Dep("require", "a", "registry", 1),
                Dep("indirect", "b", kind, 1)>>),
              Lock("go_sum", root, <<Package("a", 1, "unverified_registry", "x"),
                Package("b", 1, "unverified_registry", "x"),
                Package("b", v, "unverified_registry", "x")>>)>> :
              kind \in {"registry", "local"}, root \in {"r", "s"}, v \in {1, 2}}

CargoParts == {<<Manifest("cargo_toml", "r", <<Dep("dependencies", "a", "registry", 0)>>),
                 Lock("cargo_lock", "r", <<Package("a", 1, "registry", "x"),
                   Package("b", 1, kind, "x"), Package("a", v, "registry", "x")>>)>> :
                 kind \in {"registry", "unknown"}, v \in {1, 2}}

ComposerParts ==
    {<<[Manifest("composer_json", "r", <<Dep("require", "a", "registry", 0)>>)
        EXCEPT !.custom = custom],
       Lock("composer_lock", "r", <<Package("a", v, "unknown", "require"),
         Package("b", 1, "unknown", "require-dev"), Package("b", 1, "unknown", "y")>>)>> :
       custom \in BOOLEAN, v \in 0 .. 1}

GradleParts == {<<Manifest("gradle_build", root, <<>>),
                  Lock("gradle_lock", "r", <<Package("a", 1, "unknown", "x"),
                    Package("b", v, "unknown", "x")>>)>> :
                  root \in {"r", "s"}, v \in 0 .. 1}

NugetParts == {<<Manifest("dotnet_project", root, <<>>),
                 [Lock("nuget_packages_lock", "r",
                    <<Package("a", 1, "unverified_registry", "direct"),
                      Package("b", v, kind, group)>>) EXCEPT !.targets = 2]>> :
                 root \in {"r", "s"}, v \in 0 .. 1,
                 kind \in {"unverified_registry", "local"},
                 group \in {"transitive", "centralTransitive"}}

Pair(p, q) == Source(<<p[1], q[1]>>, <<p[2], q[2]>>)

\* Two versions of a package, one of an unknown origin.
OpenCargo == {c \in CargoParts : c[2].packages[3].version = 2 /\ c[2].packages[2].source = "unknown"}
\* A version is missing, and the registry is not the official one.
OpenComposer == {c \in ComposerParts : c[2].packages[1].version = 0 /\ c[1].custom}

InRoot(parts, lockRoot, root) == {p \in parts : (IF lockRoot THEN p[2].root ELSE p[1].root) = root}

\* Results with two ecosystems, and with a second NuGet project in a root.
PairSources ==
    {Pair(p, q) : p \in InRoot(GoParts, TRUE, "r"), q \in CargoParts}
    \cup {Pair(p, q) : p \in InRoot(GoParts, TRUE, "s"), q \in OpenCargo}
    \cup {Pair(p, q) : p \in ComposerParts, q \in InRoot(GradleParts, FALSE, "r")}
    \cup {Pair(p, q) : p \in OpenComposer, q \in InRoot(GradleParts, FALSE, "s")}
    \cup {Pair(p, q) : p \in InRoot(NugetParts, FALSE, "r"), q \in OpenCargo}
    \cup {Source(<<p[1], [p[1] EXCEPT !.file = 2]>>, <<p[2]>>) : p \in NugetParts}

Imported ==
    [Source(<<>>, <<>>) EXCEPT !.commit = FALSE,
     !.imported = {[LockedComponent("npm", "a", 1, "r", "cyclonedx", None,
                      "sbom", "direct", "reported") EXCEPT !.match = "not_applicable"]}]

\* Uploaded archives have no commit, so that no graph is attached to them.
MCSources ==
    {[s EXCEPT !.commit = FALSE] : s \in NpmSources \cup PypiSources}
    \cup PairSources \cup {Imported}

GraphNode(id, name, version, targets) ==
    [id |-> id, name |-> name, version |-> version, targets |-> targets]

Graph(eco, nodes, roots, edges, complete, targets) ==
    [eco |-> eco, nodes |-> nodes, roots |-> {[node |-> r, targets |-> targets] : r \in roots},
     edges |-> {[from |-> e[1], to |-> e[2], targets |-> targets] : e \in edges},
     complete |-> complete, targets |-> targets,
     sha |-> <<eco, Cardinality(nodes), roots, edges, complete>>]

GraphsOf(eco, T) ==
    LET a == GraphNode(1, "a", 1, T)
        b == GraphNode(2, "b", 1, T)
        d == GraphNode(3, "b", 2, T)
    IN  {Graph(eco, {a, b}, {1}, {<<1, 2>>}, complete, T) : complete \in BOOLEAN}
        \cup {Graph(eco, {a, b}, {1}, {}, TRUE, T),
              Graph(eco, {a, b}, {1}, {<<1, 2>>, <<2, 2>>}, TRUE, T),
              Graph(eco, {a}, {1}, {}, TRUE, T),
              Graph(eco, {a, d}, {1}, {<<1, 3>>}, TRUE, T)}

MCGraphs ==
    UNION {GraphsOf(eco, {0}) : eco \in {"go", "composer"}}
    \cup UNION {{g \in GraphsOf(eco, {0}) : Cardinality(g.nodes) = 2} :
                   eco \in {"cargo", "maven"}}
    \cup GraphsOf("nuget", {0, 1})
    \cup {[Graph("nuget", {GraphNode(1, "a", 1, {0, 1}), GraphNode(2, "b", 1, {1})},
             {1}, {}, TRUE, {0, 1}) EXCEPT
             !.edges = {[from |-> 1, to |-> 2, targets |-> {1}]}, !.sha = <<"per_target">>]}

MCPolicies ==
    LET names == {<<e, n>> : e \in {"npm", "pypi", "go", "cargo", "composer",
                                    "maven", "nuget"}, n \in {"a", "b", "d"}}
        policy(private, attested, required) ==
            [private |-> private, attested |-> attested, required |-> required,
             organization |-> {x \in names : x[2] = "a"}]
    IN  {policy({}, {}, FALSE), policy({}, names, FALSE), policy({}, names, TRUE),
         policy({x \in names : x[2] = "a"}, names, FALSE)}

MCScopedNames == {"d"}

-----------------------------------------------------------------------------
(* A small inventory for AdvisoryIntelligence. *)

MCComponents == <<"a">>

MCSecondary == {"github_advisories", "nvd", "cisa_kev"}

SlotSymmetry == Permutations(Slots)

-----------------------------------------------------------------------------
(* The instances together.                                                 *)

NoAnalysis ==
    /\ result = None /\ record = None /\ attached = {} /\ flight = None /\ intel = None
    /\ saves = 0
NoIntelligence ==
    /\ now = 0 /\ listed = {} /\ cleanAt = [c \in Names |-> {}]
    /\ approval = [c \in Names |-> [state |-> "approved", expires |-> MaxNow + 1]]
    /\ cache = [b \in SUBSET Names |-> None] /\ circuit = [failures |-> 0, until |-> 0]
    /\ req = [s \in Slots |-> Idle] /\ snapshot = None /\ requests = 0 /\ upsets = 0

Init ==
    \/ EvidenceInit /\ NoIntelligence
    \/ NoAnalysis /\ IntelligenceInit

Next ==
    \/ result # None /\ EvidenceNext /\ UNCHANGED intelligence
    \/ now # 0 /\ IntelligenceNext /\ UNCHANGED evidence

Spec == Init /\ [][Next]_<<evidence, intelligence>>

(* The inventory lists what the manifests and lockfiles prove, keeps what  *)
(* each graph added through every later save and says what it does not     *)
(* cover (component_inventory.py).                                         *)
InventoryIsExact == IdentityIsProven /\ LockedIsListed /\ ProjectionsKept /\ CoverageIsTold
=============================================================================
