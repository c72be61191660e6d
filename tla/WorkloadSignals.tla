-------------------------- MODULE WorkloadSignals ----------------------------
(***************************************************************************)
(* The text reviews of what runs in containers: Compose files, Kubernetes  *)
(* manifests and Dockerfiles.  No YAML parser is used: the reviews look at *)
(* lines and their indentation.  A line is a record: n (its number), i     *)
(* (the indentation), d (it begins with a dash), k (the key, "" for none)  *)
(* and v (the rest).  An unquoted "8080:80" looks like a key and a value.  *)
(* A line that begins with a tab has the key TAB.                          *)
(***************************************************************************)
EXTENDS Signals

(* The lines after i that are indented deeper, up to the first that is not.*)
Nested(lines, i) ==
  LET stops == {j \in (i + 1)..Len(lines) : lines[j].i <= lines[i].i}
  IN  SubSeq(lines, i + 1, IF stops = {} THEN Len(lines) ELSE Min(stops) - 1)

------------------------------------------------------------------------------
(* Compose                                                                 *)

ComposeContext(p) ==
  LET c == ContextBy(<< <<"example", ExampleDirs, ExampleWords>>,
                        <<"test", {}, TestWords>>, <<"development", {}, DevWords>>,
                        <<"local", {}, {"local", "override"}>>,
                        <<"production", {"deploy", "stacks"},
                          {"prod", "production", "live", "deploy", "release", "stacks", "server", "vps"}>> >>, p)
  IN  CASE c # "none" -> c
        [] p.base \in {"docker-compose.yml", "compose.yml"} -> "shared"
        [] OTHER -> "ambiguous"

ComposeRedaction == Redaction @@ ("postgres://u:p@h" :> "postgres://[REDACTED]@h")
AddCompose(a, f, sigs) == AddRedacted(a, f, sigs, ComposeRedaction)

IsKey(l) == ~l.d /\ l.k # ""

ComposeSection(lines, section) ==
  LET at == {i \in DOMAIN lines : IsKey(lines[i]) /\ lines[i].i = 0 /\ lines[i].k = section}
  IN  IF at = {} THEN <<>> ELSE <<Nested(lines, Min(at))>>

(* The keys at the smallest indentation below the parent, each with the    *)
(* lines that follow it and are indented deeper than it is: the items of a *)
(* list written at the indentation of its key are not among them.          *)
ComposeChildBlocks(lines, parent) ==
  LET keys == {i \in DOMAIN lines : lines[i].i > parent /\ IsKey(lines[i])}
      direct == {i \in DOMAIN lines : IsKey(lines[i]) /\ lines[i].i = Min({lines[j].i : j \in keys})}
      order == SetToSortSeq(direct, <)
      end(x) == IF x = Len(order) THEN Len(lines) ELSE order[x + 1] - 1
      deeper(i, to) == SelectSeq(SubSeq(lines, i + 1, to), LAMBDA l : l.i > lines[i].i)
  IN  IF keys = {} THEN <<>>
      ELSE [x \in DOMAIN order |->
              [key |-> lines[order[x]].k, value |-> lines[order[x]].v, line |-> lines[order[x]].n,
               indent |-> lines[order[x]].i, lines |-> deeper(order[x], end(x))]]

NoField == [key |-> "", value |-> "", line |-> 0, indent |-> 0, lines |-> <<>>]
ComposeFindField(fields, key) ==
  LET at == {i \in DOMAIN fields : fields[i].key = key}
  IN  IF at = {} THEN NoField ELSE fields[Min(at)]
Declared(field) == field # NoField

(* The items of a list, each with the lines that are indented deeper.      *)
ComposeSequenceBlocks(lines) ==
  LET dashes == SetToSortSeq({i \in DOMAIN lines : lines[i].d}, <)
      end(x) == IF x = Len(dashes) THEN Len(lines) ELSE dashes[x + 1] - 1
      own(i, to) == SelectSeq(SubSeq(lines, i + 1, to), LAMBDA l : l.i > lines[i].i)
  IN  [x \in DOMAIN dashes |-> [first |-> lines[dashes[x]], lines |-> own(dashes[x], end(x))]]

(* A list item with a key is a mapping, of that key and of those below it. *)
ComposeMapping(block) ==
  LET pairs == {<<l.k, l.v>> : l \in {m \in {block.first} \union Range(block.lines) : m.k # ""}}
  IN  [k \in {p[1] : p \in pairs} |-> (CHOOSE p \in pairs : p[1] = k)[2]]
Get(mapping, k) == IF k \in DOMAIN mapping THEN mapping[k] ELSE ""

ComposeScalars(field) ==
  LET items == {b.first.v : b \in {c \in Range(ComposeSequenceBlocks(field.lines)) : c.first.k = ""}}
  IN  items \union IF field.value = "" THEN {} ELSE {field.value}
ComposeMappings(field) ==
  {ComposeMapping(b) : b \in {c \in Range(ComposeSequenceBlocks(field.lines)) :
                                DOMAIN ComposeMapping(c) # {}}}

(* The confidence of a service finding follows its level.                  *)
ServiceSig(id, service, path, extra, level) ==
  Sig(id, <<service, path>> \o extra, level, IF level = "medium" THEN "high" ELSE "medium")

(* Short ports by the table of how they split: the address, the published  *)
(* and the container port.                                                 *)
ComposePorts ==
     ("8080:80"           :> [host |-> "", published |-> 8080, target |-> 80])
  @@ ("127.0.0.1:8080:80" :> [host |-> "127.0.0.1", published |-> 8080, target |-> 80])
  @@ ("5432:5432"         :> [host |-> "", published |-> 5432, target |-> 5432])
  @@ ("9000"              :> [host |-> "", published |-> 0, target |-> 9000])
PortNumber == ("" :> 0) @@ ("80" :> 80) @@ ("8080" :> 8080) @@ ("5432" :> 5432)
ComposePort(value) == IF value \in DOMAIN ComposePorts THEN {ComposePorts[value]} ELSE {}
ComposePortMapping(m) ==
  IF Get(m, "target") = "" THEN {}
  ELSE {[host |-> Get(m, "host_ip"), published |-> PortNumber[Get(m, "published")], target |-> PortNumber[Get(m, "target")]]}

DatabasePorts == {5432, 3306, 33060, 6379, 27017, 27018, 27019, 11211, 9200, 9300, 1433, 1521, 9042}
AdminPorts == {3000, 5601, 8000, 8001, 8080, 8081, 8088, 9000, 9090, 9091, 15672}
SensitivePorts == {22, 2375, 2376, 3389, 5000, 6443, 8200, 9200, 9300}

ComposePortSignals(service, port) ==
  LET numbers == {port.published, port.target}
      sig(cond, id, level) == IF cond THEN {ServiceSig(id, service, "ports", <<ToString(port.published), ToString(port.target)>>, level)} ELSE {}
  IN       sig(port.published # 0 /\ port.host \in {"", "0.0.0.0", "::"}, "compose_port_published_all_interfaces", "low")
    \union sig(numbers \cap DatabasePorts # {}, "compose_database_port_published", "medium")
    \union sig(numbers \cap AdminPorts # {}, "compose_admin_port_published", "medium")
    \union sig(numbers \cap AdminPorts # {}, "compose_dashboard_port_published", "medium")
    \union sig(numbers \cap SensitivePorts # {}, "compose_sensitive_port_published", "medium")

ComposePortsOf(service, field) ==
  UNION {UNION {ComposePortSignals(service, p) : p \in ComposePort(v)} : v \in ComposeScalars(field)}
    \union UNION {UNION {ComposePortSignals(service, p) : p \in ComposePortMapping(m)} : m \in ComposeMappings(field)}

(* Short volumes by the table of how they split.                           *)
ComposeVolumes ==
     ("/var/run/docker.sock:/s" :> [source |-> "/var/run/docker.sock", ro |-> FALSE, type |-> "bind"])
  @@ ("/:/host"     :> [source |-> "/", ro |-> FALSE, type |-> "bind"])
  @@ ("~/.ssh:/k"   :> [source |-> ".ssh", ro |-> FALSE, type |-> "bind"])
  @@ ("/etc:/e:ro"  :> [source |-> "/etc", ro |-> TRUE, type |-> "bind"])
  @@ ("/etc:/e"     :> [source |-> "/etc", ro |-> FALSE, type |-> "bind"])
  @@ ("data:/d"     :> [source |-> "data", ro |-> FALSE, type |-> "volume"])
  @@ ("/cache"      :> [source |-> "", ro |-> FALSE, type |-> "volume"])
ComposeVolumeMapping(m) ==
  [source |-> Get(m, "source"), ro |-> Get(m, "mode") = "ro",
   type |-> IF Get(m, "type") = "" THEN "volume" ELSE Get(m, "type")]

ComposeVolumeSignals(service, vol) ==
  LET sig(cond, id, level) == IF cond THEN {ServiceSig(id, service, "volumes", <<vol.source>>, level)} ELSE {}
      sensitive == vol.source \in {"/etc", "/var/run/docker.sock"}
  IN       sig(vol.source = "/var/run/docker.sock", "compose_docker_socket_mounted", "medium")
    \union sig(vol.source = "/var/run/docker.sock", "compose_var_run_mounted", "medium")
    \union sig(vol.source = "/", "compose_root_host_path_mounted", "medium")
    \union sig(vol.source = ".ssh", "compose_ssh_key_path_mounted", "medium")
    \union sig(sensitive, "compose_sensitive_host_path_mounted", "medium")
    \union sig(sensitive /\ ~vol.ro, "compose_bind_mount_writeable_sensitive", "medium")
    \union sig(vol.type = "volume" /\ vol.source # "", "compose_named_volume_present", "info")
ComposeVolumesOf(service, field) ==
  UNION {ComposeVolumeSignals(service, ComposeVolumes[v]) : v \in ComposeScalars(field) \cap DOMAIN ComposeVolumes}
    \union UNION {ComposeVolumeSignals(service, ComposeVolumeMapping(m)) : m \in ComposeMappings(field)}

ComposeImageSignals(service, image) ==
  LET sig(cond, id) == IF cond THEN {ServiceSig(id, service, "image", <<image>>, "low")} ELSE {}
  IN       sig(image = "app:latest", "compose_image_latest_tag")
    \union sig(image # "app@sha256:d", "compose_image_missing_digest")
    \union sig(image # "app@sha256:d", "compose_image_unpinned_tag")

ComposeBuildSignals(service, field) ==
  LET contexts == {l.v : l \in {m \in Range(field.lines) : IsKey(m) /\ m.k = "context"}}
      at == IF field.value # "" THEN field.value ELSE IF contexts = {} THEN "." ELSE CHOOSE c \in contexts : TRUE
  IN  {ServiceSig("compose_build_context_present", service, "build", <<>>, "info")}
      \union IF at # ".." THEN {}
             ELSE {ServiceSig("compose_build_context_parent_path_hint", service, "build.context", <<>>, "low")}

(* An environment holds pairs, from list items or from nested keys; a      *)
(* value that only refers to a variable, or a placeholder, is no secret.   *)
SecretKeys == {"API_TOKEN", "DB_PASSWORD"}
Placeholders == {"", "${TOKEN}", "changeme"}
ComposeEnvItems == ("API_TOKEN=t0" :> <<"API_TOKEN", "t0">>) @@ ("DEBUG=1" :> <<"DEBUG", "1">>)
                @@ ("API_TOKEN=${TOKEN}" :> <<"API_TOKEN", "${TOKEN}">>)
ComposeEnvironmentSignals(service, field) ==
  LET pairs == {ComposeEnvItems[v] : v \in ComposeScalars(field) \cap DOMAIN ComposeEnvItems}
               \union {<<l.k, l.v>> : l \in {m \in Range(field.lines) : IsKey(m)}}
      signals(p) ==
             When(p[1] \in SecretKeys, "compose_environment_secret_like_key", <<service, p[1]>>, "low", "medium")
        \union When((p[1] \in SecretKeys /\ p[2] \notin Placeholders) \/ p[2] = "postgres://u:p@h",
                    "compose_environment_secret_like_value", <<service, p[1], "[REDACTED]">>, "medium", "medium")
  IN  UNION {signals(p) : p \in pairs}

ComposeEnvFileSignals(service, field) ==
  {Sig("compose_env_file_reference", <<service, v>>, "low", "high") : v \in ComposeScalars(field)}
  \union {Sig("compose_env_file_sensitive_present", <<service, v>>, "low", "high") : v \in ComposeScalars(field) \cap {".env"}}
ComposeServiceSecrets(service, field) ==
  {Sig("compose_secrets_defined", <<service, v>>, "info", "medium") : v \in ComposeScalars(field)}

ComposeHasLimits(fields) ==
  LET deploy == ComposeFindField(fields, "deploy")
      has(k) == \E l \in Range(deploy.lines) : l.k = k
  IN  Declared(ComposeFindField(fields, "mem_limit")) \/ Declared(ComposeFindField(fields, "cpus"))
        \/ (has("resources") /\ has("limits"))

(* One service: what it declares, and what it leaves out.                  *)
ComposeServiceSignals(block) ==
  LET service == block.key
      fields == ComposeChildBlocks(block.lines, block.indent)
      field(k) == ComposeFindField(fields, k)
      sig(cond, id, at, level) == IF cond THEN {ServiceSig(id, service, at, <<>>, level)} ELSE {}
      is(k, v) == field(k).value = v
  IN     (IF is("image", "") THEN {} ELSE ComposeImageSignals(service, field("image").value))
    \union (IF Declared(field("build")) THEN ComposeBuildSignals(service, field("build")) ELSE {})
    \union ComposeEnvironmentSignals(service, field("environment"))
    \union ComposeEnvFileSignals(service, field("env_file"))
    \union ComposeServiceSecrets(service, field("secrets"))
    \union ComposePortsOf(service, field("ports"))
    \union ComposeVolumesOf(service, field("volumes"))
    \union sig(is("privileged", "true"), "compose_privileged_true", "privileged", "medium")
    \union sig(Declared(field("cap_add")), "compose_cap_add_present", "cap_add", "medium")
    \union sig(\E l \in Range(field("security_opt").lines) : l.v = "seccomp:unconfined",
               "compose_security_opt_disabled_hint", "security_opt", "medium")
    \union sig(is("network_mode", "host"), "compose_host_network_mode", "network_mode", "medium")
    \union sig(is("pid", "host"), "compose_pid_host", "pid", "medium")
    \union sig(is("ipc", "host"), "compose_ipc_host", "ipc", "medium")
    \union sig(field("user").value \in {"", "0", "root"}, "compose_user_root_or_missing", "user", "low")
    \union sig(~is("read_only", "true"), "compose_read_only_missing", "read_only", "low")
    \union sig(~Declared(field("healthcheck")), "compose_healthcheck_missing", "healthcheck", "low")
    \union sig(~Declared(field("restart")), "compose_restart_policy_missing", "restart", "low")
    \union sig(is("restart", "always"), "compose_restart_always_hint", "restart", "low")
    \union sig(Declared(field("depends_on"))
                 /\ ~\E l \in Range(field("depends_on").lines) : l.k = "condition" /\ l.v = "service_healthy",
               "compose_depends_on_without_health_condition", "depends_on", "low")
    \union sig(~ComposeHasLimits(fields), "compose_resource_limits_missing", "deploy.resources.limits", "low")
    \union sig(Declared(field("links")), "compose_links_legacy_present", "links", "low")

(* Top level sections other than the services.                             *)
ComposeTopBlocks(lines, section) ==
  LET s == ComposeSection(lines, section)
  IN  IF s = <<>> THEN {} ELSE Range(ComposeChildBlocks(s[1], 0))
ComposeTopNetworks(lines) ==
  LET says(b, k) == \E l \in Range(b.lines) : l.k = k /\ l.v = "true"
  IN  UNION {When(says(b, "external"), "compose_external_network_present", <<b.key>>, "low", "medium")
             \union When(~says(b, "internal"), "compose_network_internal_missing", <<b.key>>, "low", "low")
             : b \in ComposeTopBlocks(lines, "networks")}
ComposeTopVolumes(lines) ==
  {Sig("compose_named_volume_present", <<b.key>>, "info", "medium") : b \in ComposeTopBlocks(lines, "volumes")}
ComposeTopSecrets(lines) ==
  LET file(b) == ComposeFindField(ComposeChildBlocks(b.lines, b.indent), "file")
  IN  UNION {{Sig("compose_secrets_defined", <<b.key>>, "info", "medium")}
             \union When(Declared(file(b)), "compose_secret_file_reference", <<b.key, file(b).value>>, "low", "high")
             : b \in ComposeTopBlocks(lines, "secrets")}

ComposeText(a, f, lines) ==
  LET services == ComposeSection(lines, "services")
      tabs == Mentions(lines, "TAB")
      whole == When(tabs, "compose_unsupported_or_malformed_yaml", <<f.path, "tab">>, "info", "medium")
        \union When(\E l \in Range(lines) : l.v = "PRIVATE KEY", "compose_plaintext_private_key_hint", <<"[REDACTED]">>, "medium", "high")
        \union When(\E l \in Range(lines) : l.v = "postgres://u:p@h", "compose_credential_url_hint", <<"[REDACTED]@h">>, "medium", "high")
      body == IF services = <<>>
              THEN {Sig("compose_unsupported_or_malformed_yaml", <<f.path, "services">>, "info", "low")}
              ELSE UNION {ComposeServiceSignals(b) : b \in Range(ComposeChildBlocks(services[1], 0))}
  IN  AddCompose([a EXCEPT !.files = Append(@, f), !.errors = @ + Cardinality({b \in {<<1, tabs>>, <<2, services = <<>> >>} : b[2]})], f,
                 whole \union body \union ComposeTopNetworks(lines) \union ComposeTopVolumes(lines)
                 \union ComposeTopSecrets(lines))

ComposeTextFinalize(a) ==
  LET contexts == {f.context : f \in Range(a.files)}
      all == [path |-> "archive", context |-> IF "production" \in contexts THEN "production" ELSE "shared"]
      many == AddCompose(a, all, When(Len(a.files) > 1, "compose_multiple_files_detected", <<ToString(Len(a.files))>>, "info", "high"))
      over == FoldLeft(LAMBDA b, f : AddCompose(b, f, When("override" \in f.name, "compose_override_file_detected",
                                                           <<f.path>>, "info", "high")), many, a.files)
  IN  [over EXCEPT !.findings = KeptOnce(@)]

------------------------------------------------------------------------------
(* Kubernetes                                                              *)

K8sContext(p) ==
  LET c == ContextBy(<< <<"example", ExampleDirs, ExampleWords \ {"sandbox"}>>,
                        <<"test", {}, TestWords>>, <<"development", {}, DevWords>>,
                        <<"local", {}, {"local"}>>,
                        <<"production", {"deploy"}, {"prod", "production", "release", "deploy"}>> >>, p)
  IN  CASE c # "none" -> c
        [] Cardinality(p.dirs) <= 1 -> "shared"
        [] OTHER -> "ambiguous"

AddK8s(a, f, sigs) == AddRedacted(a, f, sigs, Redaction)

WorkloadKinds == {"Pod", "Deployment"}
ClusterScoped == {"Namespace", "ClusterRole", "ClusterRoleBinding", "CustomResourceDefinition"}
K8sSecretKeys == {"API_TOKEN", "password"}

(* The value of the first line with the key, at any depth.                 *)
K8sFirstScalar(lines, key) ==
  LET at == {i \in DOMAIN lines : ~lines[i].d /\ lines[i].k = key /\ lines[i].v # ""}
  IN  IF at = {} THEN "" ELSE lines[Min(at)].v

(* The lines of every block with the key, each up to the next line that is *)
(* not indented deeper, a list item at the same indentation included.      *)
K8sBlocks(lines, key) ==
  {Nested(lines, i) : i \in {j \in DOMAIN lines : ~lines[j].d /\ lines[j].k = key /\ lines[j].v = ""}}
K8sSectionKeys(lines, section) ==
  UNION {{l.k : l \in {m \in Range(b) : IsKey(m)}} : b \in K8sBlocks(lines, section)}

(* The last name under any metadata block, the template's included.        *)
K8sMetadata(lines, key) ==
  LET under(i) == \E j \in 1..(i - 1) : ~lines[j].d /\ lines[j].k = "metadata" /\ lines[j].v = ""
                                        /\ \A x \in (j + 1)..i : lines[x].i > lines[j].i
      at == {i \in DOMAIN lines : ~lines[i].d /\ lines[i].k = key /\ under(i)}
  IN  IF at = {} THEN "" ELSE lines[Max(at)].v

K8sNearestContainer(lines, n) ==
  LET at == {i \in DOMAIN lines : lines[i].n <= n /\ lines[i].d /\ lines[i].k = "name"}
  IN  IF at = {} THEN "" ELSE lines[Max(at)].v

K8sWildcard(lines, key) ==
  \/ Says(lines, key, "[*]")
  \/ \E b \in K8sBlocks(lines, key) : \E l \in Range(b) : l.d /\ l.v = "*"

(* A resource: its kind, name and namespace.                               *)
ResourceSig(r, id, path, extra, level) ==
  Sig(id, <<r.kind, r.name, path, r.namespace>> \o extra, level, IF level = "medium" THEN "high" ELSE "medium")

K8sNamespaceSignals(r) ==
  When(r.kind \notin ClusterScoped /\ r.namespace \in {"", "default"}, "namespace_missing_or_default",
       <<r.kind, r.name, r.namespace>>, "low", "medium")

K8sSecretSignals(r, lines) ==
  {Sig("k8s_secret_stringdata_present", <<r.name, k, "[REDACTED]">>, "medium", "high") : k \in K8sSectionKeys(lines, "stringData")}
  \union {Sig("k8s_secret_plaintext_data", <<r.name, k, "[REDACTED]">>, "medium", "high") : k \in K8sSectionKeys(lines, "data")}

K8sConfigMapSignals(r, lines) ==
  {Sig("k8s_configmap_secret_like_key", <<r.name, k, "[REDACTED]">>, "medium", "medium") :
     k \in K8sSectionKeys(lines, "data") \cap K8sSecretKeys}

K8sImageSignals(r, container, image) ==
  IF image = "app:latest" THEN {ResourceSig(r, "image_latest_tag", "containers.image", <<container, image>>, "low")}
  ELSE IF image # "app@sha256:d" THEN {ResourceSig(r, "image_missing_digest", "containers.image", <<container, image>>, "low")}
  ELSE {}

(* A secret-looking name is reported when one of the next five lines, up   *)
(* to the next named item, gives it a value.                               *)
K8sEnvSignals(r, lines) ==
  LET following(i) ==
        LET near == SubSeq(lines, i + 1, IF i + 5 < Len(lines) THEN i + 5 ELSE Len(lines))
            next == {j \in DOMAIN near : near[j].d /\ near[j].k = "name"}
        IN  IF next = {} THEN near ELSE SubSeq(near, 1, Min(next) - 1)
      named == {i \in DOMAIN lines : lines[i].k = "name" /\ lines[i].v \in K8sSecretKeys
                                      /\ Mentions(following(i), "value") /\ ~Mentions(following(i), "valueFrom")}
  IN  {Sig("env_secret_like_value", <<r.kind, r.name, lines[i].v, "[REDACTED]">>, "medium", "medium") : i \in named}
      \union {Sig("env_from_secret_reference", <<r.kind, r.name, l.k>>, "info", "medium") :
                l \in {m \in Range(lines) : m.k \in {"secretRef", "secretKeyRef"}}}

(* One probe or one limit anywhere in the document is enough for all of    *)
(* its containers.                                                         *)
K8sWorkloadSignals(r, lines) ==
  LET sig(cond, id, path, level) == IF cond THEN {ResourceSig(r, id, path, <<>>, level)} ELSE {}
      at(l) == K8sNearestContainer(lines, l.n)
      each(k, v, id, path) == {ResourceSig(r, id, path, <<at(l)>>, "medium") : l \in {m \in Range(lines) : m.k = k /\ m.v = v}}
  IN       sig(Says(lines, "hostNetwork", "true"), "host_network_enabled", "spec.hostNetwork", "medium")
    \union sig(Says(lines, "hostPID", "true"), "host_pid_enabled", "spec.hostPID", "medium")
    \union sig(Says(lines, "hostIPC", "true"), "host_ipc_enabled", "spec.hostIPC", "medium")
    \union sig(Says(lines, "hostPath", ""), "host_path_volume_present", "spec.volumes.hostPath", "medium")
    \union sig(\E l \in Range(lines) : l.v = "/var/run/docker.sock", "docker_socket_mount", "volumeMounts/hostPath", "medium")
    \union each("privileged", "true", "privileged_container", "securityContext.privileged")
    \union each("allowPrivilegeEscalation", "true", "allow_privilege_escalation_true", "securityContext.allowPrivilegeEscalation")
    \union UNION {K8sImageSignals(r, at(l), l.v) : l \in {m \in Range(lines) : ~m.d /\ m.k = "image"}}
    \union K8sEnvSignals(r, lines)
    \union sig(~Mentions(lines, "resources") \/ ~Mentions(lines, "limits"), "resource_limits_missing", "containers.resources.limits", "low")
    \union sig(~Mentions(lines, "resources") \/ ~Mentions(lines, "requests"), "resource_requests_missing", "containers.resources.requests", "low")
    \union sig(~Mentions(lines, "livenessProbe"), "liveness_probe_missing", "containers.livenessProbe", "low")
    \union sig(~Mentions(lines, "readinessProbe"), "readiness_probe_missing", "containers.readinessProbe", "low")
    \union sig(Says(lines, "replicas", "1"), "replicas_singleton_hint", "spec.replicas", "low")

K8sServiceSignals(r, f, lines) ==
  LET type == K8sFirstScalar(lines, "type")
      level == IF f.context = "production" THEN "medium" ELSE "low"
  IN  CASE type = "LoadBalancer" -> {ResourceSig(r, "service_type_loadbalancer", "spec.type", <<>>, level)}
        [] type = "NodePort" -> {ResourceSig(r, "service_type_nodeport", "spec.type", <<>>, level)}
        [] OTHER -> {}

K8sIngressSignals(r, lines) ==
  IF Mentions(lines, "tls") THEN {} ELSE {ResourceSig(r, "ingress_tls_missing", "spec.tls", <<>>, "low")}

K8sClusterRoleSignals(r, lines) ==
  LET sig(k, id) == IF K8sWildcard(lines, k) THEN {ResourceSig(r, id, "rules", <<k>>, "medium")} ELSE {}
  IN  sig("verbs", "clusterrole_wildcard_verbs") \union sig("resources", "clusterrole_wildcard_resources")

K8sDocument(a, f, lines) ==
  LET r == [kind |-> K8sFirstScalar(lines, "kind"), name |-> K8sMetadata(lines, "name"),
            namespace |-> K8sMetadata(lines, "namespace")]
      own == CASE r.kind = "Secret" -> K8sSecretSignals(r, lines)
               [] r.kind = "ConfigMap" -> K8sConfigMapSignals(r, lines)
               [] r.kind \in WorkloadKinds -> K8sWorkloadSignals(r, lines)
               [] r.kind = "Service" -> K8sServiceSignals(r, f, lines)
               [] r.kind = "Ingress" -> K8sIngressSignals(r, lines)
               [] r.kind = "ClusterRole" -> K8sClusterRoleSignals(r, lines)
               [] OTHER -> {}
  IN  IF r.kind = "" THEN a ELSE AddK8s(a, f, K8sNamespaceSignals(r) \union own)

SplitK8sDocuments(lines) ==
  LET cut(docs, l) == IF l.k = "---" THEN Append(docs, <<>>)
                      ELSE [docs EXCEPT ![Len(docs)] = Append(@, l)]
  IN  SelectSeq(FoldLeft(cut, <<(<<>>)>>, lines), LAMBDA d : d # <<>>)

(* Charts and overlays are noted, not rendered; the values of a chart are  *)
(* looked at for the names of secrets.                                     *)
K8sContextFile(a, f, lines) ==
  AddK8s(a, f,
       When(f.type = "helm_template", "helm_template_detected_not_rendered", <<f.path>>, "info", "high")
    \union When(f.type = "kustomize_config", "kustomize_detected_not_built", <<f.path>>, "info", "high")
    \union {Sig("values_secret_like_key", <<l.k, "[REDACTED]">>, "low", "medium") :
              l \in {m \in Range(lines) : f.type = "helm_values" /\ IsKey(m) /\ m.k \in K8sSecretKeys}})

K8sText(a, f, lines) ==
  IF f.type \in {"helm_template", "helm_values", "kustomize_config"} THEN K8sContextFile(a, f, lines)
  ELSE FoldLeft(LAMBDA b, d : K8sDocument(b, f, d), a, SplitK8sDocuments(lines))

K8sTextFinalize(a) == [a EXCEPT !.findings = KeptOnce(@)]

------------------------------------------------------------------------------
(* Docker: Dockerfiles, and Compose files once more.  The evidence of most *)
(* findings names the context, so that contexts are not taken for one.     *)

DockerContext(p) ==
  LET c == ContextBy(<< <<"example", ExampleDirs, {"example", "examples", "sample", "samples"}>>,
                        <<"test", {}, TestWords>>, <<"development", {}, DevWords \union {"override"}>>,
                        <<"local", {}, {"local"}>>,
                        <<"production", {"deploy"}, {"prod", "production"}>> >>, p)
  IN  CASE c # "none" -> c
        [] p.dirs = {} /\ p.base \in {"Dockerfile", "docker-compose.yml", "compose.yml"} -> "shared"
        [] OTHER -> "ambiguous"

AddDocker(a, f, sigs) ==
  [a EXCEPT !.findings = @ \o InSomeOrder(Placed(f, sigs, ContextualLevel, LAMBDA c, x : c))]
DockerSig(cond, id, ev, f, level) == When(cond, id, ev \o <<f.context>>, level, "none")

(* A Dockerfile line: k is the instruction, v its argument.                *)
DockerfileText(a, f, lines) ==
  LET images == {l.v : l \in {m \in Range(lines) : m.k = "FROM"}}
      latest == images \cap {"app:latest"}
  IN  AddDocker(a, f,
           DockerSig(~Mentions(lines, "USER"), "docker_missing_user_directive", <<"USER", "not observed">>, f, "low")
    \union DockerSig(Says(lines, "USER", "root"), "docker_runs_as_root", <<"USER", "root">>, f, "medium")
    \union UNION {DockerSig(TRUE, "docker_latest_tag", <<"FROM", x>>, f, "low") : x \in latest}
    \union UNION {DockerSig(TRUE, "docker_unpinned_base_image", <<"FROM", x>>, f, "low") : x \in images \cap {"app"}}
    \union DockerSig(Says(lines, "RUN", "curl x | sh"), "docker_suspicious_curl_pipe_shell", <<"RUN">>, f, "medium"))

(* A list at the indentation of env_file is not read as its value.         *)
DockerEnvReferences(lines) ==
  LET keys == {i \in DOMAIN lines : ~lines[i].d /\ lines[i].k = "env_file"}
      values == {lines[i].v : i \in keys}
        \union UNION {{l.v : l \in {m \in Range(Nested(lines, i)) : m.d}} : i \in keys}
  IN  values \cap {".env"}

DockerComposeText(a, f, lines) ==
  AddDocker(a, f,
           DockerSig(Says(lines, "privileged", "true"), "docker_privileged_container", <<"privileged">>, f, "medium")
    \union DockerSig(Says(lines, "network_mode", "host"), "docker_host_network", <<"network_mode">>, f, "medium")
    \union DockerSig(Says(lines, "pid", "host") \/ Says(lines, "ipc", "host"), "docker_host_pid_or_ipc", <<"pid/ipc">>, f, "medium")
    \union When(\E l \in Range(lines) : l.v = "/var/run/docker.sock:/s", "docker_socket_mount", <<"docker.sock">>, "medium", "none")
    \union When(\E l \in Range(lines) : l.v = "5432:5432" \/ (l.k = "5432" /\ l.v = "5432"),
                "docker_published_database_port", <<"5432:5432">>, "low", "none")
    \union {Sig("docker_env_file_real_reference", <<v>>, "low", "none") : v \in DockerEnvReferences(lines)}
    \union UNION {DockerSig(TRUE, "docker_sensitive_env_name", <<"environment", k>>, f, "low") :
                  k \in {l.k : l \in Range(lines)} \cap {"PASSWORD"}})

DockerText(a, f, lines) ==
  IF f.type = "dockerfile" THEN DockerfileText(a, f, lines) ELSE DockerComposeText(a, f, lines)
DockerTextFinalize(a) == [a EXCEPT !.findings = KeptOnce(@)]
==============================================================================
