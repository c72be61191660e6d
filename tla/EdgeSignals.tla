---------------------------- MODULE EdgeSignals ------------------------------
(***************************************************************************)
(* The text reviews of server configuration: Nginx and Redis.  A file is a *)
(* sequence of lines.  A line of an Nginx file is a sequence of words,     *)
(* where "{", "}" and ";" are the punctuation and any other word stands    *)
(* for the text of one statement; a line of a Redis file is one word.      *)
(***************************************************************************)
EXTENDS Signals

------------------------------------------------------------------------------
(* Nginx                                                                   *)

NginxContext(p) ==
  LET c == ContextBy(<< <<"example", ExampleDirs, ExampleWords>>,
                        <<"test", {}, TestWords>>, <<"development", {}, DevWords>>,
                        <<"local", {}, {"local"}>>,
                        <<"production", {"sites-enabled", "conf.d", "reverse-proxy"},
                          {"prod", "production", "live", "release", "deploy", "edge", "gateway"}>> >>, p)
  IN  CASE c # "none" -> c
        [] p.base = "nginx.conf" -> "shared"
        [] OTHER -> "ambiguous"

(* A review under way.  stack holds the open blocks of the file, innermost *)
(* last, each with its type and its place among the servers or locations;  *)
(* pending holds the words of a directive that has no semicolon yet, or    *)
(* the private key that a Redis file is inside of.                         *)
EdgeReview == [servers |-> <<>>, locations |-> <<>>, stack |-> <<>>, pending |-> <<>>,
               seen |-> {}, findings |-> <<>>, errors |-> 0]

NginxSecretWords == {"add_header X-Token t", "proxy_set_header Auth t", "set $token t",
                     "auth_basic secret", "proxy_pass https://u:p@up"}
NginxRedaction == Redaction @@ [w \in NginxSecretWords |-> "[REDACTED]"]
AddNginx(a, f, sigs) == AddRedacted(a, f, sigs, NginxRedaction)

InBlock(st, type) == {i \in DOMAIN st : st[i].type = type}
CurrentServer(st) ==
  LET s == InBlock(st, "server") IN IF s = {} THEN 0 ELSE st[Max(s)].at
CurrentLocation(st) ==
  LET s == InBlock(st, "location") IN IF s = {} THEN 0 ELSE st[Max(s)].at

NginxLocations == ("location /.git" :> {<<"nginx_hidden_files_exposed", "medium", "high">>})
               @@ ("location ~ .bak" :> {<<"nginx_backup_files_exposed", "medium", "medium">>})
               @@ ("location /admin" :> {<<"nginx_sensitive_location_exposed", "medium", "medium">>})
               @@ ("location /" :> {})

(* A block begins with the first word before the brace, whatever it is.    *)
StartNginxBlock(a, f, w) ==
  CASE w = "server" ->
         [a EXCEPT !.servers = Append(@, [file |-> f, name |-> "unknown", facts |-> {}]),
                   !.stack = Append(@, [type |-> "server", at |-> Len(a.servers) + 1])]
    [] w \in DOMAIN NginxLocations ->
         AddNginx([a EXCEPT !.locations = Append(@, [file |-> f, name |-> w, facts |-> {}]),
                              !.stack = Append(@, [type |-> "location", at |-> Len(a.locations) + 1])],
                    f, Sigs(NginxLocations[w], <<w>>))
    [] OTHER -> [a EXCEPT !.stack = Append(@, [type |-> w, at |-> 0])]

(* Directives that are reported wherever they stand.                       *)
NginxAlone ==
     ("server_tokens on"   :> {<<"nginx_server_tokens_on", "medium", "high">>})
  @@ ("autoindex on"       :> {<<"nginx_autoindex_on", "medium", "high">>})
  @@ ("stub_status"        :> {<<"nginx_stub_status_public_hint", "medium", "medium">>})
  @@ ("proxy_ssl_verify off" :> {<<"nginx_proxy_ssl_verify_off", "medium", "high">>})
  @@ ("access_log off"     :> {<<"nginx_access_log_off", "low", "high">>})
  @@ ("error_log debug"    :> {<<"nginx_error_log_debug", "medium", "high">>})
  @@ ("auth_basic secret"  :> {<<"nginx_basic_auth_inline_secret_hint", "medium", "medium">>})

(* The rest of the words a directive table knows, by the function that     *)
(* looks at them.                                                          *)
NginxInclude ==
     ("include /etc/x"  :> {<<"nginx_include_absolute_path", "info", "high">>,
                            <<"nginx_include_not_resolved", "low", "high">>})
  @@ ("include *.conf"  :> {<<"nginx_include_glob_detected", "info", "high">>,
                            <<"nginx_include_not_resolved", "low", "high">>})

NginxBodySize(mb) == IF mb = 0 \/ mb > 100
                     THEN {<<"nginx_client_max_body_size_unlimited_or_large", "low", "high">>} ELSE {}
NginxTimeout(directive, seconds) ==
  IF seconds <= 300 THEN {}
  ELSE {<<IF directive = "proxy_read_timeout" THEN "nginx_proxy_read_timeout_high"
          ELSE "nginx_proxy_connect_timeout_high", "low", "medium">>}
NginxLimits == ("client_max_body_size 0"    :> NginxBodySize(0))
            @@ ("client_max_body_size 100m" :> NginxBodySize(100))
            @@ ("client_max_body_size 101m" :> NginxBodySize(101))
            @@ ("proxy_read_timeout 300s"   :> NginxTimeout("proxy_read_timeout", 300))
            @@ ("keepalive_timeout 6m"      :> NginxTimeout("keepalive_timeout", 360))

(* What a directive leaves with its server, and what it reports there.     *)
NginxServerFacts ==
     ("listen 80"          :> {"port80"})
  @@ ("listen 443 ssl"     :> {"tls"})
  @@ ("listen 80 default_server" :> {"port80"})
  @@ ("ssl_certificate c"  :> {"tls"})
  @@ ("ssl_certificate_key k" :> {"tls"})
  @@ ("ssl_protocols TLSv1.2 TLSv1.3" :> {"protocols"})
  @@ ("ssl_protocols TLSv1 TLSv1.2"   :> {"protocols"})
  @@ ("ssl_protocols TLSv1.2 TLSv1"   :> {"protocols"})
  @@ ("return 301 https"   :> {"redirect"})
(* The test for TLSv1 looks for the name with something after it, so that  *)
(* it does not match at the end of the list.                               *)
NginxServerSignals ==
     ("listen 80 default_server" :> {<<"nginx_default_server_public_hint", "medium", "medium">>})
  @@ ("ssl_certificate_key k"    :> {<<"nginx_ssl_certificate_key_path_present", "info", "medium">>})
  @@ ("ssl_protocols TLSv1 TLSv1.2" :> {<<"nginx_ssl_protocol_legacy_enabled", "medium", "high">>})

NginxHeaders ==
     ("add_header X-Frame-Options"      :> {"x-frame-options"})
  @@ ("add_header CSP"                  :> {"content-security-policy"})
  @@ ("add_header X-Content-Type-Options" :> {"x-content-type-options"})
  @@ ("add_header Referrer-Policy"      :> {"referrer-policy"})
  @@ ("add_header HSTS long"            :> {"hsts"})
  @@ ("add_header HSTS short"           :> {"hsts"})
  @@ ("add_header Allow-Origin *"       :> {"cors_origin_wildcard"})
  @@ ("add_header Allow-Credentials"    :> {"cors_credentials"})
  @@ ("add_header X-Token t"            :> {"x-token"})
NginxProxyHeaders ==
     ("proxy_set_header Host"   :> {"host"})
  @@ ("proxy_set_header Proto"  :> {"x-forwarded-proto"})
  @@ ("proxy_set_header For"    :> {"x-forwarded-for"})
  @@ ("proxy_set_header Auth t" :> {})
NginxProxyPass ==
     ("proxy_pass http://up"      :> {<<"nginx_proxy_pass_http_upstream", "low", "high">>})
  @@ ("proxy_pass https://up"     :> {})
  @@ ("proxy_pass https://u:p@up" :> {<<"nginx_proxy_pass_credentials_hint", "medium", "high">>})

NginxEvidence(w) == IF w \in NginxSecretWords THEN <<"[REDACTED]">> ELSE <<w>>

Note(states, at, facts) == IF at = 0 THEN states ELSE [states EXCEPT ![at].facts = @ \union facts]
FactsAt(states, at) == IF at = 0 THEN {} ELSE states[at].facts

\* Mutant of NginxAddHeader.
NginxAddHeaderInOrder(a, f, w) ==
  LET loc == CurrentLocation(a.stack)
      srv == CurrentServer(a.stack)
      before == IF loc # 0 THEN FactsAt(a.locations, loc) ELSE FactsAt(a.servers, srv)
      facts == before \union NginxHeaders[w]
      b == IF loc # 0 THEN [a EXCEPT !.locations = Note(@, loc, facts)]
                      ELSE [a EXCEPT !.servers = Note(@, srv, facts)]
      both == /\ "cors_origin_wildcard" \in before
              /\ w = "add_header Allow-Credentials" /\ loc + srv # 0
  IN  AddNginx(b, f, When(both, "nginx_cors_credentials_with_wildcard", <<"cors">>, "medium", "high"))

(* A header belongs to the location it stands in, else to the server: a    *)
(* header of a location is not one of its server's.                        *)
NginxAddHeader(a, f, w) ==
  LET loc == CurrentLocation(a.stack)
      srv == CurrentServer(a.stack)
      facts == NginxHeaders[w] \union IF loc # 0 THEN FactsAt(a.locations, loc) ELSE FactsAt(a.servers, srv)
      b == IF loc # 0 THEN [a EXCEPT !.locations = Note(@, loc, facts)]
                      ELSE [a EXCEPT !.servers = Note(@, srv, facts)]
      sigs == When(w = "add_header HSTS short", "nginx_hsts_low_max_age", <<w>>, "low", "medium")
        \union When(w = "add_header Allow-Origin *", "nginx_cors_wildcard_origin", <<w>>, "low", "high")
        \union When(loc + srv # 0 /\ {"cors_origin_wildcard", "cors_credentials"} \subseteq facts,
                    "nginx_cors_credentials_with_wildcard", <<"cors">>, "medium", "high")
  IN  AddNginx(b, f, sigs)

SecretLike(a, f, w) ==
  AddNginx(a, f, When(w \in {"add_header X-Token t", "proxy_set_header Auth t"},
                        "nginx_header_secret_like_value", <<"[REDACTED]">>, "medium", "medium")
            \union When(w = "set $token t",
                        "nginx_variable_secret_like_value", <<"[REDACTED]">>, "medium", "medium"))

ProcessNginxDirective(a, f, w) ==
  LET b == SecretLike(a, f, w)
      srv == CurrentServer(a.stack)
      loc == CurrentLocation(a.stack)
      told(table) == AddNginx(b, f, Sigs(table[w], NginxEvidence(w)))
  IN  CASE w \in DOMAIN NginxInclude -> told(NginxInclude)
        [] w \in DOMAIN NginxServerFacts ->
             IF srv = 0 THEN b
             ELSE AddNginx([b EXCEPT !.servers = Note(@, srv, NginxServerFacts[w])], f,
                             IF w \in DOMAIN NginxServerSignals THEN Sigs(NginxServerSignals[w], <<w>>) ELSE {})
        [] w = "server_name a" -> IF srv = 0 THEN b ELSE [b EXCEPT !.servers[srv].name = "a"]
        [] w \in DOMAIN NginxHeaders -> NginxAddHeader(b, f, w)
        [] w \in DOMAIN NginxAlone -> told(NginxAlone)
        [] w \in DOMAIN NginxProxyPass ->
             AddNginx([b EXCEPT !.locations = Note(@, loc, {"proxy_pass"})], f,
                        Sigs(NginxProxyPass[w], NginxEvidence(w)))
        [] w \in DOMAIN NginxProxyHeaders -> [b EXCEPT !.locations = Note(@, loc, NginxProxyHeaders[w])]
        [] w \in DOMAIN NginxLimits -> told(NginxLimits)
        [] OTHER -> b

(* A line: every "{" begins a block with the first word before it on the   *)
(* same line; then every ";" ends a directive, and what has no semicolon   *)
(* waits for the next line; the "}" close blocks last, and one too many is *)
(* ignored.                                                                *)
NginxOpenings(a, f, line) ==
  LET opens == {i \in DOMAIN line : line[i] = "{"}
      start(i) == Max({0} \union {j \in opens : j < i}) + 1
      step(b, i) == IF line[i] = "{" /\ start(i) < i THEN StartNginxBlock(b, f, line[start(i)]) ELSE b
  IN  FoldLeft(step, a, [i \in DOMAIN line |-> i])
NginxRest(line) ==
  LET opens == {i \in DOMAIN line : line[i] = "{"}
  IN  SubSeq(line, Max({0} \union opens) + 1, Len(line))
NginxLine(a, f, line) ==
  LET opened == NginxOpenings(a, f, line)
      rest == NginxRest(line)
      word(b, w) == CASE w = "}" -> b
                      [] w = ";" -> IF b.pending = <<>> THEN b
                                    ELSE [ProcessNginxDirective(b, f, Head(b.pending)) EXCEPT !.pending = <<>>]
                      [] OTHER -> [b EXCEPT !.pending = Append(@, w)]
      read == FoldLeft(word, opened, rest)
      closes == Cardinality({i \in DOMAIN rest : rest[i] = "}"})
  IN  [read EXCEPT !.stack = SubSeq(@, 1, Len(@) - closes)]

FinalizeNginxServer(a, s) ==
  LET seen == s.facts
      required == ("x-frame-options" :> "nginx_x_frame_options_missing")
               @@ ("content-security-policy" :> "nginx_content_security_policy_missing")
               @@ ("x-content-type-options" :> "nginx_x_content_type_options_missing")
               @@ ("referrer-policy" :> "nginx_referrer_policy_missing")
      missing == DOMAIN required \ seen
      low(id, conf, cond) == When(cond, id, <<s.name, id>>, "low", conf)
  IN  AddNginx(a, s.file,
           low("nginx_ssl_protocols_missing", "medium", "tls" \in seen /\ "protocols" \notin seen)
    \union low("nginx_hsts_missing", "medium", "tls" \in seen /\ "hsts" \notin seen)
    \union low("nginx_https_redirect_missing", "low", "port80" \in seen /\ seen \cap {"tls", "redirect"} = {})
    \union UNION {low(required[h], "low", TRUE) : h \in missing}
    \union When(missing # {}, "nginx_security_headers_missing", <<s.name>> \o InSomeOrder(missing), "low", "low"))

FinalizeNginxLocation(a, l) ==
  LET checks == ("host" :> "nginx_proxy_set_header_host_missing")
             @@ ("x-forwarded-proto" :> "nginx_proxy_set_header_x_forwarded_proto_missing")
             @@ ("x-forwarded-for" :> "nginx_proxy_set_header_x_forwarded_for_missing")
      missing == {h \in DOMAIN checks \ l.facts : "proxy_pass" \in l.facts}
  IN  AddNginx(a, l.file, {Sig(checks[h], <<l.name, h>>, "low", "low") : h \in missing})

(* A private key is looked for in the whole text.  A file starts with no   *)
(* open block; a directive that never ends is an error of the analysis and *)
(* nothing else.                                                           *)
NginxText(a, f, lines) ==
  LET key == \E i, j \in DOMAIN lines : i < j /\ lines[i] = <<"BEGIN KEY">> /\ lines[j] = <<"END KEY">>
      told == AddNginx(a, f, When(key, "nginx_variable_secret_like_value", <<"private_key", "[REDACTED]">>, "medium", "high"))
      start == [told EXCEPT !.stack = <<>>, !.pending = <<>>]
      end == FoldLeft(LAMBDA b, l : NginxLine(b, f, l), start, lines)
  IN  [end EXCEPT !.errors = @ + IF end.pending = <<>> THEN 0 ELSE 1]

NginxTextFinalize(a) ==
  LET s == FoldLeft(FinalizeNginxServer, a, a.servers)
      l == FoldLeft(FinalizeNginxLocation, s, a.locations)
  IN  [l EXCEPT !.findings = KeptOnce(@)]

------------------------------------------------------------------------------
(* Redis                                                                   *)

RedisContext(p) ==
  LET c == ContextBy(<< <<"example", ExampleDirs, ExampleWords>>,
                        <<"test", {}, TestWords>>, <<"development", {}, DevWords>>,
                        <<"local", {}, {"local"}>>,
                        <<"production", {}, {"prod", "production", "live", "deploy", "server", "vps"}>>,
                        <<"shared", {}, {"data", "cache", "redis"}>> >>, p)
  IN  CASE c # "none" -> c
        [] p.base \in {"redis.conf", "sentinel.conf"} -> "shared"
        [] OTHER -> "ambiguous"

(* Only a high confidence is lowered.                                      *)
RedisConfidence(conf, ctx) == IF ctx \in LowerContexts /\ conf = "high" THEN "medium" ELSE conf

RedisSecretWords == {"requirepass p", "masterauth p", "sentinel auth-pass m p", "user token-x",
                     "sentinel password p"}
RedisRedaction == Redaction @@ [w \in RedisSecretWords |-> "[REDACTED]"]
AddRedis(a, f, sigs) ==
  LET safe == {[s EXCEPT !.ev = RedactedWith(RedisRedaction, @)] : s \in sigs}
  IN  [a EXCEPT !.findings = @ \o InSomeOrder(Placed(f, safe, ContextualLevel, RedisConfidence))]

(* The confidence of a setting follows its level.                          *)
RedisSetting(id, ev, level) == Sig(id, ev, level, IF level = "medium" THEN "high" ELSE "medium")
RedisSettings(table, ev) == {RedisSetting(t[1], ev, t[2]) : t \in table}
RedisWhen(cond, id, ev, level) == IF cond THEN {RedisSetting(id, ev, level)} ELSE {}

(* What one directive reports by itself.                                   *)
RedisDirectives ==
     ("bind 0.0.0.0"        :> {<<"redis_bind_all_interfaces", "medium">>})
  @@ ("bind 8.8.8.8"        :> {<<"redis_bind_public_address_hint", "medium">>})
  @@ ("bind 127.0.0.1"      :> {})
  @@ ("protected-mode no"   :> {<<"redis_protected_mode_no", "medium">>})
  @@ ("port 6379"           :> {<<"redis_port_default_exposed_hint", "low">>})
  @@ ("unixsocketperm 777"  :> {<<"redis_unixsocket_permissions_permissive", "low">>})
  @@ ("unixsocketperm 700"  :> {})
  @@ ("requirepass p"       :> {<<"redis_requirepass_present_redacted", "medium">>})
  @@ ("masterauth p"        :> {<<"redis_masterauth_present_redacted", "medium">>})
  @@ ("aclfile f"           :> {<<"redis_aclfile_reference", "info">>})
  @@ ("user default on"     :> {<<"redis_default_user_enabled_hint", "medium">>})
  @@ ("user token-x"        :> {<<"redis_password_like_value", "medium">>})
  @@ ("tls-port 0"          :> {<<"redis_tls_disabled_or_missing", "low">>, <<"redis_tls_port_missing_hint", "low">>})
  @@ ("tls-port 6380"       :> {})
  @@ ("tls-cert-file f"     :> {<<"redis_tls_cert_path_present", "info">>})
  @@ ("tls-key-file f"      :> {<<"redis_tls_key_path_present", "low">>})
  @@ ("tls-auth-clients no" :> {<<"redis_tls_auth_clients_disabled_hint", "low">>})
  @@ ("tls-protocols TLSv1.1" :> {<<"redis_tls_protocols_legacy_hint", "low">>})
  @@ ("save ''"             :> {<<"redis_save_disabled_hint", "low">>})
  @@ ("appendonly no"       :> {<<"redis_appendonly_no", "low">>})
  @@ ("appendfilename appendonly.aof" :> {<<"redis_appendfilename_default_hint", "info">>})
  @@ ("dir /etc"            :> {<<"redis_dir_sensitive_path_hint", "low">>})
  @@ ("dbfilename dump.rdb" :> {<<"redis_dbfilename_default_hint", "info">>})
  @@ ("rdbcompression no"   :> {<<"redis_rdbcompression_no_hint", "info">>})
  @@ ("replicaof h 6379"    :> {<<"redis_replicaof_present", "info">>})
  @@ ("replica-read-only no" :> {<<"redis_replica_read_only_no", "low">>})
  @@ ("repl-diskless-sync yes" :> {<<"redis_repl_diskless_sync_enabled_hint", "info">>})
  @@ ("rename-command FLUSHALL ''" :> {<<"redis_dangerous_command_renamed_to_empty_hint", "info">>})
  @@ ("rename-command FLUSHALL x" :> {})
  @@ ("loadmodule m"        :> {<<"redis_module_load_present", "medium">>})
  @@ ("lua-time-limit 10000" :> {})
  @@ ("lua-time-limit 10001" :> {<<"redis_lua_time_limit_high_hint", "low">>})
  @@ ("loglevel debug"      :> {<<"redis_loglevel_debug_or_verbose", "low">>})
  @@ ("logfile ''"          :> {<<"redis_logfile_stdout_or_empty_hint", "info">>})
  @@ ("supervised no"       :> {<<"redis_supervised_no_hint", "info">>})
  @@ ("daemonize yes"       :> {<<"redis_daemonize_yes_hint", "info">>})
  @@ ("maxmemory 1gb"       :> {})
  @@ ("maxmemory-policy noeviction" :> {<<"redis_maxmemory_policy_noeviction_hint", "low">>})
  @@ ("timeout 0"           :> {<<"redis_timeout_zero_hint", "low">>})
  @@ ("tcp-keepalive 59"    :> {<<"redis_tcp_keepalive_low_or_missing_hint", "low">>})
  @@ ("tcp-keepalive 60"    :> {})
RedisSentinelDirectives ==
     ("sentinel monitor m"  :> {})
  @@ ("sentinel auth-pass m p" :> {<<"redis_sentinel_auth_pass_present_redacted", "medium">>})
  @@ ("sentinel down-after-milliseconds m 4999" :> {<<"redis_sentinel_down_after_milliseconds_low_hint", "low">>})
  @@ ("sentinel down-after-milliseconds m 5000" :> {})
  @@ ("sentinel password p" :> {<<"redis_password_like_value", "medium">>})
RedisIncludes ==
     ("include /etc/r"      :> {"redis_include_absolute_path", "redis_include_not_resolved"})
  @@ ("include r.conf"      :> {"redis_include_not_resolved"})

RedisEvidence(w) == IF w \in RedisSecretWords THEN <<"[REDACTED]">> ELSE <<w>>

(* What one directive leaves for the end of its file.                      *)
RedisFacts ==
     ("bind 0.0.0.0" :> {"public_bind"}) @@ ("bind 8.8.8.8" :> {"public_bind"})
  @@ ("protected-mode no" :> {"protected_mode_no"}) @@ ("port 6379" :> {"port_6379"})
  @@ ("requirepass p" :> {"requirepass"}) @@ ("masterauth p" :> {"masterauth"})
  @@ ("tls-port 0" :> {"tls_port", "tls_disabled"}) @@ ("tls-port 6380" :> {"tls_port"})
  @@ ("replicaof h 6379" :> {"replicaof"})
  @@ ("rename-command FLUSHALL ''" :> {"dangerous_rename"}) @@ ("rename-command FLUSHALL x" :> {"dangerous_rename"})
  @@ ("maxmemory 1gb" :> {"maxmemory"})
  @@ ("tcp-keepalive 59" :> {"tcp-keepalive"}) @@ ("tcp-keepalive 60" :> {"tcp-keepalive"})
  @@ ("sentinel monitor m" :> {"sentinel_monitor"}) @@ ("sentinel auth-pass m p" :> {"sentinel_auth"})

RedisFactsOf(w) == IF w \in DOMAIN RedisFacts THEN RedisFacts[w] ELSE {}

(* The files a Redis review has read are told apart by path: a second file *)
(* of the same path adds to the first one's state.                         *)
RedisState(a, f) == {i \in DOMAIN a.servers : a.servers[i].file.path = f.path}
RedisOpen(a, f) ==
  IF RedisState(a, f) # {} THEN a
  ELSE [a EXCEPT !.servers = Append(@, [file |-> f, name |-> f.type, facts |-> {}])]

RedisDirective(a, f, w) ==
  LET at == CHOOSE i \in RedisState(a, f) : TRUE
      sigs == CASE w \in DOMAIN RedisIncludes ->
                     {Sig(id, <<w>>, "low", "high") : id \in RedisIncludes[w]}
                [] w \in DOMAIN RedisSentinelDirectives -> RedisSettings(RedisSentinelDirectives[w], RedisEvidence(w))
                [] OTHER -> RedisSettings(RedisDirectives[w], RedisEvidence(w))
  IN  AddRedis([a EXCEPT !.servers[at].facts = @ \union RedisFactsOf(w)], f, sigs)

(* Lines inside a private key are not directives.                          *)
RedisLine(a, f, w) ==
  CASE a.pending # <<>> -> [a EXCEPT !.pending = IF w = "END KEY" THEN <<>> ELSE @]
    [] w = "BEGIN KEY" ->
         AddRedis([a EXCEPT !.pending = <<w>>], f,
                  {Sig("redis_private_key_hint", <<"[REDACTED]">>, "medium", "high")})
    [] w = "END KEY" ->
         AddRedis(a, f, {Sig("redis_private_key_hint", <<"[REDACTED]">>, "medium", "high")})
    [] OTHER -> RedisDirective(a, f, w)

RedisText(a, f, lines) ==
  LET open == RedisOpen([a EXCEPT !.pending = <<>>], f)
      told == AddRedis(open, f, IF f.type = "sentinel"
                                THEN {Sig("redis_sentinel_config_detected", <<f.path>>, "low", "high")} ELSE {})
  IN  FoldLeft(LAMBDA b, l : RedisLine(b, f, l), told, lines)

(* What a file never said, known at its end.                               *)
FinalizeRedisState(a, s) ==
  LET seen == s.facts
      open == seen \cap {"public_bind", "protected_mode_no"} # {}
      redis(cond, id, ev, level) == RedisWhen(s.name = "redis" /\ cond, id, <<ev>>, level)
  IN  AddRedis(a, s.file,
           redis("requirepass" \notin seen, "redis_requirepass_missing",
                 IF open THEN "requirepass missing with public bind" ELSE "requirepass missing",
                 IF open THEN "medium" ELSE "low")
    \union redis("port_6379" \in seen /\ "tls_port" \notin seen, "redis_tls_port_missing_hint", "tls-port missing", "low")
    \union redis("tls_port" \notin seen \/ "tls_disabled" \in seen, "redis_tls_disabled_or_missing",
                 "tls-port missing or disabled", "low")
    \union redis("replicaof" \in seen /\ "masterauth" \notin seen, "redis_masterauth_missing_for_replica_hint",
                 "masterauth missing", "low")
    \union redis("maxmemory" \notin seen, "redis_maxmemory_missing", "maxmemory missing", "low")
    \union redis("tcp-keepalive" \notin seen, "redis_tcp_keepalive_low_or_missing_hint", "tcp-keepalive missing", "low")
    \union redis("dangerous_rename" \notin seen, "redis_rename_command_missing_for_dangerous_command_hint",
                 "rename-command missing", "low")
    \union RedisWhen(s.name = "sentinel" /\ "sentinel_monitor" \in seen /\ "sentinel_auth" \notin seen,
                     "redis_sentinel_monitor_without_auth_hint", <<"auth-pass missing">>, "low"))

RedisTextFinalize(a) ==
  LET end == FoldLeft(FinalizeRedisState, a, a.servers)
  IN  [end EXCEPT !.findings = KeptOnce(@)]

------------------------------------------------------------------------------
(* PostgreSQL, MySQL and MariaDB                                           *)

DatabaseContext(p) ==
  LET c == ContextBy(<< <<"example", ExampleDirs, ExampleWords>>,
                        <<"test", {}, TestWords>>, <<"development", {}, DevWords>>,
                        <<"local", {}, {"local"}>>,
                        <<"production", {}, {"prod", "production", "live", "deploy", "release", "server",
                                             "vps", "data", "database", "db"}>> >>, p)
  IN  IF c = "none" THEN "shared" ELSE c

(* Text that is a secret wherever it stands, looked for before the lines.  *)
DatabaseSecrets == {"password = s", "url postgres://u:p@h", "BEGIN KEY"}
DatabaseRedaction == Redaction @@ [w \in DatabaseSecrets |-> "[REDACTED]"]
AddDatabase(a, f, sigs) == AddRedacted(a, f, sigs, DatabaseRedaction)

DetectDatabaseSecrets(a, f, lines) ==
  AddDatabase(a, f, When("BEGIN KEY" \in Range(lines), "database_private_key_hint", <<"[REDACTED]">>, "medium", "high")
            \union When("url postgres://u:p@h" \in Range(lines), "database_credential_url_hint",
                        <<"[REDACTED]@h">>, "medium", "high"))

DatabaseIncludes ==
     ("include /etc/d" :> {"database_include_absolute_path", "database_include_not_resolved"})
  @@ ("include d.conf" :> {"database_include_not_resolved"})
AddDatabaseInclude(a, f, w) == AddDatabase(a, f, {Sig(id, <<w>>, "low", "high") : id \in DatabaseIncludes[w]})

PostgresSettings ==
     ("listen_addresses = *"       :> {<<"postgres_listen_addresses_all", "medium">>,
                                       <<"postgres_listen_addresses_public_hint", "medium">>})
  @@ ("listen_addresses = 0.0.0.0" :> {<<"postgres_listen_addresses_public_hint", "medium">>})
  @@ ("port = 5432"                :> {<<"postgres_port_default_exposed_hint", "low">>})
  @@ ("password_encryption = md5"  :> {<<"postgres_password_encryption_weak_or_missing", "low">>})
  @@ ("password_encryption = scram-sha-256" :> {})
  @@ ("ssl = off"                  :> {<<"postgres_ssl_disabled", "medium">>})
  @@ ("logging_collector = off"    :> {<<"postgres_logging_collector_off", "low">>})
  @@ ("log_connections = off"      :> {<<"postgres_log_connections_off", "low">>})
  @@ ("log_disconnections = off"   :> {<<"postgres_log_disconnections_off", "low">>})
  @@ ("log_statement = all"        :> {<<"postgres_log_statement_all_hint", "low">>})
  @@ ("archive_mode = off"         :> {<<"postgres_archive_mode_off", "low">>})
  @@ ("wal_level = replica"        :> {<<"postgres_wal_level_replica_or_logical_hint", "info">>})
  @@ ("password = s"               :> {<<"database_password_like_value", "medium">>})
  @@ ("url postgres://u:p@h"       :> {})

(* A rule is a record: type, database, user, address and method.           *)
PgHbaSignals(r) ==
  LET open == r.address \in {"0.0.0.0/0", "::/0"}
      ev == <<r.database, r.user, r.address, r.method>>
  IN       RedisWhen(r.method = "trust", "postgres_pg_hba_trust_auth", ev, "medium")
    \union RedisWhen(r.method = "md5", "postgres_pg_hba_md5_auth_hint", ev, "low")
    \union RedisWhen(r.method = "password", "postgres_pg_hba_password_auth_hint", ev, "low")
    \union RedisWhen(r.database = "all" /\ r.user = "all" /\ open, "postgres_pg_hba_all_all_open_world", ev, "medium")
    \union RedisWhen(r.database = "replication" /\ open, "postgres_pg_hba_replication_open_world", ev, "medium")
PgHbaRules ==
     ("local all all trust"          :> [type |-> "local", database |-> "all", user |-> "all", address |-> "local", method |-> "trust"])
  @@ ("host all all 0.0.0.0/0 md5"   :> [type |-> "host", database |-> "all", user |-> "all", address |-> "0.0.0.0/0", method |-> "md5"])
  @@ ("host replication r ::/0 password" :> [type |-> "host", database |-> "replication", user |-> "r", address |-> "::/0", method |-> "password"])
  @@ ("hostssl app app 10.0.0.0/8 scram" :> [type |-> "hostssl", database |-> "app", user |-> "app", address |-> "10.0.0.0/8", method |-> "scram"])

MysqlSettings ==
     ("bind-address = *"           :> {<<"mysql_bind_address_all", "medium">>})
  @@ ("mysqlx-bind-address = *"    :> {<<"mysql_mysqlx_bind_all_hint", "medium">>})
  @@ ("skip-networking = off"      :> {<<"mysql_skip_networking_disabled_hint", "low">>})
  @@ ("port = 3306"                :> {<<"mysql_port_default_exposed_hint", "low">>})
  @@ ("skip-grant-tables"          :> {<<"mysql_skip_grant_tables_enabled", "medium">>})
  @@ ("allow-empty-password"       :> {<<"mysql_allow_empty_password_hint", "medium">>})
  @@ ("local-infile = on"          :> {<<"mysql_local_infile_enabled", "medium">>})
  @@ ("secure-file-priv = null"    :> {<<"mysql_secure_file_priv_empty_or_missing_hint", "low">>})
  @@ ("secure-file-priv = /d"      :> {})
  @@ ("old-passwords = 1"          :> {<<"mysql_old_passwords_enabled_hint", "low">>})
  @@ ("skip-ssl"                   :> {<<"mysql_ssl_disabled_or_missing", "medium">>})
  @@ ("ssl = off"                  :> {<<"mysql_ssl_disabled_or_missing", "medium">>})
  @@ ("ssl-ca = c"                 :> {})
  @@ ("require-secure-transport = off" :> {<<"mysql_require_secure_transport_off", "medium">>,
                                           <<"mysql_ssl_disabled_or_missing", "medium">>})
  @@ ("tls-version = TLSv1"        :> {<<"mysql_tls_version_legacy_hint", "low">>})
  @@ ("general-log = on"           :> {<<"mysql_general_log_enabled_hint", "low">>})
  @@ ("slow-query-log = off"       :> {<<"mysql_slow_query_log_disabled_hint", "low">>})
  @@ ("skip-log-bin"               :> {<<"mysql_log_bin_disabled_hint", "low">>})
  @@ ("symbolic-links = on"        :> {<<"mysql_symbolic_links_enabled", "medium">>})
  @@ ("secure-auth = off"          :> {<<"mysql_secure_auth_off_hint", "low">>})
  @@ ("password = s"               :> {<<"database_password_like_value", "medium">>})

DatabaseEvidence(w) == IF w \in DatabaseSecrets THEN <<"[REDACTED]">> ELSE <<w>>
DatabaseSetting(a, f, w, table) ==
  IF w \in DOMAIN table THEN AddDatabase(a, f, RedisSettings(table[w], DatabaseEvidence(w))) ELSE a

(* The settings seen are kept for the whole archive, not for each file.    *)
PostgresText(a, f, lines) ==
  LET step(b, w) == IF w \in DOMAIN DatabaseIncludes THEN AddDatabaseInclude(b, f, w)
                    ELSE DatabaseSetting([b EXCEPT !.seen = @ \union {w}], f, w, PostgresSettings)
  IN  FoldLeft(step, [a EXCEPT !.servers = Append(@, [file |-> f, name |-> "postgres", facts |-> {}])], lines)

PgHbaText(a, f, lines) ==
  LET step(b, w) == IF w \in DOMAIN PgHbaRules THEN AddDatabase(b, f, PgHbaSignals(PgHbaRules[w])) ELSE b
  IN  FoldLeft(step, a, lines)

MysqlText(a, f, lines) ==
  LET step(b, w) == CASE w = "[client]" -> b
                      [] w \in DOMAIN DatabaseIncludes -> AddDatabaseInclude(b, f, w)
                      [] OTHER -> DatabaseSetting([b EXCEPT !.seen = @ \union {w}], f, w, MysqlSettings)
  IN  FoldLeft(step, [a EXCEPT !.servers = Append(@, [file |-> f, name |-> "mysql", facts |-> {}])], lines)

DatabaseText(a, f, lines) ==
  LET b == DetectDatabaseSecrets(a, f, lines)
  IN  CASE f.type = "pg_hba" -> PgHbaText(b, f, lines)
        [] f.type = "postgres" -> PostgresText(b, f, lines)
        [] OTHER -> MysqlText(b, f, lines)

DatabaseTextFinalize(a) ==
  LET encryption == {"password_encryption = md5", "password_encryption = scram-sha-256"}
      filePriv == {"secure-file-priv = null", "secure-file-priv = /d"}
      tls == {"ssl-ca = c", "require-secure-transport = off"}
      missing(name) ==
        IF name = "postgres"
        THEN RedisWhen(a.seen \cap encryption = {}, "postgres_password_encryption_weak_or_missing",
                       <<"password_encryption missing">>, "low")
        ELSE RedisWhen(a.seen \cap filePriv = {}, "mysql_secure_file_priv_empty_or_missing_hint",
                       <<"secure_file_priv missing">>, "low")
      \union RedisWhen(a.seen \cap tls = {}, "mysql_ssl_disabled_or_missing", <<"TLS missing">>, "low")
      end == FoldLeft(LAMBDA b, s : AddDatabase(b, s.file, missing(s.name)), a, a.servers)
  IN  [end EXCEPT !.findings = KeptOnce(@)]
==============================================================================
