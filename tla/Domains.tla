------------------------------ MODULE Domains ------------------------------
(***************************************************************************)
(* The domains of a repository: which files speak for which domain, which  *)
(* of the detected domains a selection in the configuration leaves, the    *)
(* gates and the findings of each, and the graph that is drawn of them.    *)
(* Pure operators over the repositories of Discovery, which have besides   *)
(*   proto    the lines of each .proto file (see Lines)                    *)
(*   members  the lines between the brackets of the workspace members of   *)
(*            Cargo.toml, each a sequence of directories                   *)
(*   plugins  what each file says of protobuf plugins (see Plugins)        *)
(*   sets     the issue sets with a readable manifest: id, parent, and the *)
(*            ids of the readable proposals                                *)
(***************************************************************************)
EXTENDS Discovery

CONSTANT Ids   \* the id of a directory or name: what is no letter or digit is ":"

FileId(f) == <<Ids[f[1]], Ids[f[2]]>>
Plugins == {"none", "unpinned", "pinned"}

\* What a path contains, in the case the code compares in.
Said(f) == Words[f[1]] \cup Words[f[2]]
Says(f, words) == Said(f) \cap words # {}
Has(f, word)   == word \in Said(f)
Sql(f)         == Has(f, ".sql")

-----------------------------------------------------------------------------
\* Signals: domain_signals

PostgresSignal(f) ==
  \/ Sql(f) /\ Says(f, {"postgres", "pgsql", "migration", "backfill", "prisma", "drizzle"})
  \/ f[2] \in {"schema.prisma", "drizzle.config.ts", "drizzle.config.js", "sqlx-data.json"}
ClickhouseSignal(f) == Says(f, {"clickhouse", "materialized_view"}) \/ (Sql(f) /\ Has(f, "analytics"))
WordsFor ==
  [valkey         |-> {"valkey", "redis", "xreadgroup", "xadd", "pubsub", "rate_limit", "cache"},
   kafka          |-> {"kafka", "schema-registry", "schema_registry", "outbox"},
   storage        |-> {"s3", "gcs", "google.storage", "blob", "bucket", "storage"},
   communications |-> {"resend", "sendgrid", "mailgun", "smtp", "email"},
   observability  |-> {"opentelemetry", "otel", "prometheus", "metrics", "tracing", "observability"},
   resilience     |-> {"circuit", "retry", "bulkhead", "deadline", "middleware"},
   tenancy        |-> {"tenant", "multi_tenant", "multitenant", "row_level", "rls"},
   security       |-> {"authz", "authn", "authorization", "authentication", "permission", "policy"},
   uuidv7         |-> {"uuidv7", "uuid_v7", "uuid-v7"},
   errors         |-> {"error_registry", "errors/registry", "error-codes", "error_codes"},
   pulumi         |-> {"pulumi."}]

LanguageMarkers ==
  [rust   |-> Markers.rust \cup {"rust-toolchain", "rust-toolchain.toml"},
   golang |-> Markers.golang \cup {"go.work"},
   python |-> Markers.python \ {"requirements.txt"},
   typescript |-> Markers.typescript]

\* A signal says how much a file speaks for a domain.
Signal(holds, domain, weight) == IF holds THEN {[domain |-> domain, weight |-> weight]} ELSE {}
Signals(f) ==
  (UNION {Signal(f[2] \in LanguageMarkers[s], LanguageDomain[s], 10) : s \in Languages})
  \cup (UNION {Signal(f[2] \in Sources[s], LanguageDomain[s], 1) : s \in Languages})
  \cup Signal(Has(f, ".proto"), "api_contracts.protobuf", 8)
  \cup Signal(Has(f, ".proto"), "rpc.grpc", 4)
  \cup Signal(f[2] \in {"buf.yaml", "buf.gen.yaml", "buf.lock"}, "api_contracts.protobuf", 10)
  \cup Signal(Says(f, WordsFor.pulumi), "iac.pulumi", 8)
  \cup Signal(Has(f, ".tf") \/ f[2] \in {".terraform.lock.hcl", ".tflint.hcl"}, "iac.terraform", 8)
  \cup Signal(PostgresSignal(f), "database.postgres_migrations", 7)
  \cup Signal(ClickhouseSignal(f), "database.clickhouse_migrations", 7)
  \cup Signal(Says(f, WordsFor.valkey), "streaming.valkey", 5)
  \cup Signal(Says(f, WordsFor.kafka), "streaming.kafka", 5)
  \cup Signal(Says(f, WordsFor.storage), "storage.object", 5)
  \cup Signal(Says(f, WordsFor.communications), "communications.email", 5)
  \cup Signal(Says(f, WordsFor.observability), "observability.otel_prometheus", 5)
  \cup Signal(Says(f, WordsFor.resilience), "resilience.service_patterns", 4)
  \cup Signal(Says(f, WordsFor.tenancy), "tenancy.multi_tenant", 4)
  \cup Signal(Says(f, WordsFor.security), "security.auth_authz", 4)
  \cup Signal(Says(f, WordsFor.uuidv7), "identity.uuidv7", 4)
  \cup Signal(Says(f, WordsFor.errors), "errors.registry", 4)

\* detect_auto_domain_profiles: the weights are added in 16 bits, then bounded.
Profile(d, confidence) == [id |-> d, confidence |-> confidence]
Evidence(repo) ==
  UNION {{[file |-> f, domain |-> s.domain, weight |-> s.weight] : s \in Signals(f)} : f \in Visible(repo)}
Confidence(evidence, d) ==
  LET score == MapThenSumSet(LAMBDA e : e.weight, {e \in evidence : e.domain = d}) % 2^16
  IN Max({50, Min({100, score})})
AutoProfiles(repo) ==
  LET evidence == Evidence(repo)
  IN {Profile(d, Confidence(evidence, d)) : d \in {e.domain : e \in evidence}}

-----------------------------------------------------------------------------
\* Selections: compose_domain_profiles

Modes == {"auto", "detected_only", "declared_only", "disabled", "none"}
Categories ==
  [language |-> LanguageDomains,
   iac      |-> {"iac.pulumi", "iac.terraform"},
   database |-> {"database.postgres_migrations", "database.clickhouse_migrations"},
   streaming |-> {"streaming.valkey", "streaming.kafka"},
   storage   |-> {"storage.object"},
   communications |-> {"communications.email"},
   observability  |-> {"observability.otel_prometheus"},
   security   |-> {"security.auth_authz"},
   resilience |-> {"resilience.service_patterns"},
   tenancy    |-> {"tenancy.multi_tenant"},
   service_patterns |-> {"resilience.service_patterns", "identity.uuidv7", "errors.registry"}]
Expand(item) == IF item \in DOMAIN Categories THEN Categories[item] ELSE {item}
Off(selection) == selection \cap {"disabled", "none"} # {}

Declared(d) == Profile(d, 100)
ComposeProfiles(repo, selection) ==
  LET auto == AutoProfiles(repo)
      selectors == UNION {Expand(item) : item \in selection \ Modes}
      detected(d) == \E p \in auto : p.id = d
      declared == {Declared(d) : d \in {e \in selectors : ~detected(e)}}
      selected == {p \in auto : p.id \in selectors}
  IN IF Off(selection) THEN {}
     ELSE IF "declared_only" \in selection THEN {Declared(d) : d \in selectors}
     ELSE IF "detected_only" \in selection THEN IF selectors = {} THEN auto ELSE selected
     ELSE IF selection = {} \/ "auto" \in selection THEN auto \cup declared
     ELSE selected \cup declared

\* domain_matches_selection, by which templates are chosen.
MatchesSelection(d, selection) ==
  /\ ~Off(selection)
  /\ \/ selection = {}
     \/ selection \cap {"auto", "detected_only"} # {}
     \/ d \in UNION {Expand(item) : item \in selection \ {"declared_only"}}

-----------------------------------------------------------------------------
\* Gates: domain_quality_plan_for_domains

Gate(d, name, runs, opt) ==
  [domain |-> d, name |-> name, dir |-> ".", runs |-> runs, opt |-> opt, at |-> 0]
\* The domains and the names of their gates: findings, commands, and commands
\* that wait for an opt-in.
FindingGates ==
  {<<d, "stack_contract">> : d \in LanguageDomains}
  \cup {<<"api_contracts.protobuf", "protobuf_generated_drift">>,
        <<"rpc.grpc", "grpc_deadlines">>, <<"rpc.grpc", "grpc_boundary_mapping">>,
        <<"database.postgres_migrations", "postgres_migration_safety">>,
        <<"database.clickhouse_migrations", "clickhouse_schema_evolution">>,
        <<"streaming.valkey", "valkey_semantics">>, <<"streaming.kafka", "kafka_operational_contract">>,
        <<"storage.object", "object_storage_policy">>, <<"communications.email", "communications_idempotency">>,
        <<"observability.otel_prometheus", "observability_semantics">>,
        <<"security.auth_authz", "security_boundary_policy">>,
        <<"resilience.service_patterns", "resilience_patterns">>,
        <<"tenancy.multi_tenant", "tenant_isolation">>, <<"identity.uuidv7", "uuidv7_policy">>,
        <<"errors.registry", "error_registry">>, <<"iac.pulumi", "pulumi_component_architecture">>,
        <<"iac.terraform", "terraform_module_architecture">>}
CommandGates ==
  {<<"api_contracts.protobuf", n>> : n \in {"protobuf_format", "protobuf_lint", "protobuf_breaking", "protobuf_generate"}}
  \cup {<<"iac.terraform", n>> : n \in {"terraform_fmt", "terraform_validate"}}
OptInGates  == {<<"iac.pulumi", "pulumi_preview">>}
Degraded    == <<"api_contracts.protobuf", "protobuf_governance_degraded">>
GateRows    == FindingGates \cup CommandGates \cup OptInGates \cup {Degraded}
GateDomains == {row[1] : row \in GateRows}
GateNames   == {row[2] : row \in GateRows}

AnyNamed(repo, names) == \E f \in Visible(repo) : f[2] \in names
GatesOf(repo, d) ==
  LET of(rows) == {row \in rows : row[1] = d} IN
  IF d = Degraded[1] /\ ~AnyNamed(repo, {"buf.yaml", "buf.gen.yaml"}) THEN {Gate(d, Degraded[2], FALSE, FALSE)}
  ELSE {Gate(d, row[2], FALSE, FALSE) : row \in of(FindingGates)}
       \cup {Gate(d, row[2], TRUE, FALSE) : row \in of(CommandGates)}
       \cup {Gate(d, row[2], TRUE, TRUE) : row \in of(OptInGates)}
DomainGates(repo, selection) == UNION {GatesOf(repo, p.id) : p \in ComposeProfiles(repo, selection)}

-----------------------------------------------------------------------------
\* Protobuf: parse_proto_detail.  The code looks for words in each line, trimmed:
\* `begins` is what it finds at the beginning ("close" for a closing brace), `says`
\* has what it finds anywhere ("service" with a name after it; "rpc"; "stream"
\* after "rpc" and before a brace; "zero" for "= 0", "unspecified" where the name
\* before it is such).  What a line declares in the language of .proto files is
\* another matter, which the code does not look at: a remark may say anything and
\* declares nothing, and a line may declare "more" than one thing.

Lines == {l \in [begins : {"package", "message", "reserved", "enum", "service", "close", "text"},
                 says : SUBSET {"service", "rpc", "stream", "zero", "unspecified"},
                 declares : {"nothing", "service", "rpc", "more"}] :
            l.begins = "service" => "service" \in l.says}
ProtoFiles(repo) == {f \in Visible(repo) : Has(f, ".proto")}
NoService == [open |-> FALSE, rpcs |-> 0]

ProtoStart == [services |-> <<>>, current |-> NoService, enum |-> FALSE, seen |-> FALSE, zeros |-> 0]
\* Mutant: the service that is closed stays the current one.
CloseServiceInPlace(p) == [p EXCEPT !.services = IF p.current.open THEN Append(@, p.current.rpcs) ELSE @]
CloseService(p) ==
  [p EXCEPT !.services = IF p.current.open THEN Append(@, p.current.rpcs) ELSE @, !.current = NoService]
ParseEnum(p, line) ==
  IF line.begins = "enum" THEN [p EXCEPT !.enum = TRUE, !.seen = FALSE]
  ELSE IF line.begins = "close" /\ p.enum THEN [p EXCEPT !.enum = FALSE, !.seen = FALSE]
  ELSE IF "zero" \in line.says /\ p.enum /\ ~p.seen
       THEN [p EXCEPT !.seen = TRUE, !.zeros = IF "unspecified" \in line.says THEN @ ELSE @ + 1]
  ELSE p
OpenService(p) == [CloseService(p) EXCEPT !.current = [open |-> TRUE, rpcs |-> 0]]
AddRpc(p) == IF p.current.open THEN [p EXCEPT !.current.rpcs = @ + 1] ELSE p
ParseService(p, line) ==
  LET begun   == IF "service" \in line.says THEN OpenService(p) ELSE p
      counted == IF "rpc" \in line.says THEN AddRpc(begun) ELSE begun
  IN IF line.begins = "close" THEN CloseService(counted) ELSE counted
ParseLine(p, line) == ParseService(ParseEnum(p, line), line)

\* `services` has the number of rpcs of each service, in their order.
Parse(lines) ==
  LET after[k \in 0 .. Len(lines)] == IF k = 0 THEN ProtoStart ELSE ParseLine(after[k - 1], lines[k])
      p == CloseService(after[Len(lines)])
      begins(word) == \E k \in DOMAIN lines : lines[k].begins = word
  IN [services |-> p.services, zeros |-> p.zeros, package |-> begins("package"),
      message |-> begins("message"), reserved |-> begins("reserved")]

-----------------------------------------------------------------------------
\* Findings: domain_findings, whatever domains are selected

PluginConfigs(repo) ==
  {f \in Visible(repo) : f[2] \in {"buf.gen.yaml", "buf.gen.yml", "prototool.yaml", "prototool.yml"}
                          \/ repo.plugins[f] # "none"}
GeneratedArtifacts(repo) == {f \in Visible(repo) : Says(f, {".pb.go", "_pb2.py", "_pb2_grpc.py", ".pb.ts", "_pb.ts"})
                               \/ {".rs", "proto", "generated"} \subseteq Said(f)}
Finding(d, id, about) == [domain |-> d, id |-> id, about |-> about]
If(condition, set) == IF condition THEN set ELSE {}

ProtobufFindings(repo) ==
  LET finds(condition, id, about) == If(condition, {Finding("api_contracts.protobuf", id, about)})
      buf == AnyNamed(repo, {"buf.yaml", "buf.gen.yaml", "buf.lock"})
      parse(f) == Parse(repo.proto[f])
  IN finds(~buf, "governance_degraded", {})
     \cup finds(buf /\ ~AnyNamed(repo, {"buf.lock"}), "buf_lock_missing", {})
     \cup finds(PluginConfigs(repo) = {}, "plugin_pinning_missing", {})
     \cup finds(/\ PluginConfigs(repo) # {}
                /\ \A f \in PluginConfigs(repo) : repo.plugins[f] # "pinned", "plugin_version_pins_missing", {})
     \cup (UNION {finds(parse(f).message /\ ~parse(f).reserved, "reserved_fields_missing", FileId(f))
                  \cup finds(parse(f).zeros > 0, "enum_zero_value", FileId(f)) : f \in ProtoFiles(repo)})
     \cup (UNION {finds(Has(f, "/src/") /\ ~Says(f, {"generated", "/gen/", "/proto/"}),
                        "generated_domain_mixing", FileId(f)) : f \in GeneratedArtifacts(repo)})

\* rpc_profile, unlike the parser, takes for a service only what begins a line.
RpcLines(repo) == UNION {ToSet(repo.proto[f]) : f \in ProtoFiles(repo)}
RpcService(repo) == \E l \in RpcLines(repo) : l.begins = "service"
RpcFindings(repo) ==
  LET finds(condition, id) == If(condition, {Finding("rpc.grpc", id, {})})
      marked(words) == \E f \in Visible(repo) : Says(f, words)
      written(words) == \E f \in ProtoFiles(repo) : \E w \in words : <<f[1], f[2], w>> \in repo.says
  IN finds(TRUE, "client_operational_contract")
     \cup finds(~written({"grpc.health"}), "health_reflection_missing")
     \cup finds(~marked({"connectrpc"}) /\ ~written({"connectrpc"}), "connect_policy_missing")
     \cup finds(~marked({"openapi"}) /\ ~written({"openapi", "google.api.http"}), "openapi_contract_missing")
     \cup finds(\E l \in RpcLines(repo) : {"rpc", "stream"} \subseteq l.says, "streaming_operational_contract")

\* Mutant: protobuf is judged where there is none.
DomainFindingsAlways(repo) == ProtobufFindings(repo) \cup If(RpcService(repo), RpcFindings(repo))
DomainFindings(repo) ==
  If(ProtoFiles(repo) # {}, ProtobufFindings(repo))
  \cup If(RpcService(repo), RpcFindings(repo))

-----------------------------------------------------------------------------
\* The graph: build_domain_graph_from_parts

Node(id, kind) == [id |-> id, kind |-> kind]
Edge(from, to, kind) == [from |-> from, to |-> to, kind |-> kind]
Root == <<"repo", "root">>
Part(from, id, kind, edge) == [nodes |-> {Node(id, kind)}, edges |-> {Edge(from, id, edge)}]
Joined(parts) == [nodes |-> UNION {p.nodes : p \in parts}, edges |-> UNION {p.edges : p \in parts}]

\* parse_cargo_workspace_members: a list over several lines gives the first
\* member of each line.
Members(repo) ==
  {d \in (IF Len(repo.members) = 1 THEN ToSet(Head(repo.members))
          ELSE {Head(line) : line \in {l \in ToSet(repo.members) : l # <<>>}}) :
     Exists(repo, d, {"Cargo.toml"})}
Modules(repo) ==
  {d \in Dirs \ {"."} : ~Has(<<d, "package.json">>, "node_modules")
     /\ \E f \in Visible(repo) : f[1] = d /\ f[2] \in {"Cargo.toml", "package.json", "go.mod", "pyproject.toml"}}
ModuleParts(repo) ==
  {Part(Root, <<"repo_module", Ids[d]>>, "repo_module", "depends_on") : d \in Modules(repo) \cup Members(repo)}

\* The kind of a file's node is that of the first row that it says a word of.
FirstOf(rows, f, other) ==
  LET hits == SelectSeq(rows, LAMBDA row : Says(f, row[1])) IN IF hits = <<>> THEN other ELSE Head(hits)[2]
Kinds ==
  [postgres |-> << <<{"backfill"}, "db_backfill">>, <<{"seed"}, "db_seed">>,
                   <<{"migration", ".sql"}, "db_migration">> >>,
   clickhouse |-> << <<{"materialized_view"}, "clickhouse_materialized_view">>,
                     <<{"dictionary"}, "clickhouse_dictionary">>, <<{"replicated"}, "clickhouse_replicated_table">>,
                     <<{"ingestion"}, "clickhouse_ingestion_schema">> >>,
   valkey |-> << <<{"xreadgroup", "xadd", "stream"}, "valkey_stream">>,
                 <<{"pubsub", "publish", "subscribe"}, "valkey_pubsub">>, <<{"lock"}, "valkey_lock">>,
                 <<{"rate_limit", "ratelimit"}, "valkey_rate_limit_counter">>,
                 <<{"queue"}, "valkey_ephemeral_queue">>, <<{"cache"}, "valkey_cache">> >>,
   kafka |-> << <<{"dead_letter", "dead-letter", "dlq"}, "kafka_dlq">>, <<{"retry"}, "kafka_retry_topic">>,
                <<{"schema-registry", "schema_registry"}, "schema_registry_subject">>, <<{"outbox"}, "outbox">>,
                <<{"inbox"}, "inbox">>, <<{"projection"}, "event_projection">>,
                <<{"consumer_group", "consumer-group"}, "consumer_group">> >>,
   storage |-> << <<{"signed_url", "signed-url", "presign"}, "object_storage_signed_url">>,
                  <<{"bucket"}, "object_storage_bucket">>,
                  <<{"lifecycle", "retention"}, "object_storage_lifecycle_policy">>,
                  <<{"storage"}, "object_storage_surface">> >>,
   communications |-> << <<{"template"}, "notification_template">>,
                         <<{"bounce", "suppression"}, "notification_suppression">> >>,
   observability |-> << <<{"prometheus", "metrics"}, "metric_signal">>,
                        <<{"trace", "tracing", "otel"}, "trace_signal">>, <<{"log"}, "log_signal">>,
                        <<{"observability"}, "observability_signal">> >>,
   security |-> << <<{"authz", "authorization", "permission"}, "authorization_policy">>,
                   <<{"authn", "authentication"}, "authentication_boundary">> >>,
   resilience |-> << <<{"circuit"}, "circuit_breaker">>, <<{"retry"}, "retry_policy">>,
                     <<{"bulkhead"}, "bulkhead_policy">>, <<{"deadline"}, "deadline_policy">> >>]

FileRow(d, holds, kind, edge) == [domain |-> d, holds |-> holds, kind |-> kind, edge |-> edge]
FileRows(f) ==
  {FileRow("database.postgres_migrations", PostgresSignal(f), FirstOf(Kinds.postgres, f, "db_schema"), "depends_on"),
   FileRow("database.clickhouse_migrations", ClickhouseSignal(f),
           FirstOf(Kinds.clickhouse, f, "clickhouse_schema"), "depends_on"),
   FileRow("streaming.valkey", Says(f, WordsFor.valkey), FirstOf(Kinds.valkey, f, "valkey_surface"),
           IF Says(f, {"xreadgroup", "subscribe", "queue"}) THEN "consumes" ELSE "depends_on"),
   FileRow("streaming.kafka", Says(f, WordsFor.kafka), FirstOf(Kinds.kafka, f, "kafka_topic"),
           IF Says(f, {"producer", "outbox"}) THEN "serves" ELSE "consumes"),
   FileRow("storage.object", Says(f, WordsFor.storage), FirstOf(Kinds.storage, f, "object_storage_object"), "consumes"),
   FileRow("communications.email", Says(f, WordsFor.communications),
           FirstOf(Kinds.communications, f, "notification_channel"), "serves"),
   FileRow("observability.otel_prometheus", Says(f, WordsFor.observability),
           FirstOf(Kinds.observability, f, "telemetry_signal"), "observes"),
   FileRow("security.auth_authz", Says(f, WordsFor.security), FirstOf(Kinds.security, f, "security_policy"), "validates"),
   FileRow("resilience.service_patterns", Says(f, WordsFor.resilience),
           FirstOf(Kinds.resilience, f, "middleware"), "depends_on")}
FileParts(f, domains) ==
  {Part(<<"domain", r.domain>>, <<r.kind, FileId(f)>>, r.kind, r.edge) :
     r \in {row \in FileRows(f) : row.holds /\ row.domain \in domains}}
  \cup If(Has(f, "template") \/ f[2] = "AGENTS.md",
          {Part(Root, <<"template", FileId(f)>>, "template", "depends_on")})

\* Services are drawn only below a package.
ProtoParts(repo) ==
  LET protobuf == <<"domain", "api_contracts.protobuf">>
      package(f) == <<"proto_package", FileId(f)>>
      service(f, i) == <<"grpc_service", FileId(f), i>>
      services(f) == IF Parse(repo.proto[f]).package THEN Parse(repo.proto[f]).services ELSE <<>>
      drawn(f) ==
        {Part(protobuf, <<"schema", FileId(f)>>, "protobuf_schema", "depends_on")}
        \cup If(Parse(repo.proto[f]).package,
                {Part(<<"schema", FileId(f)>>, package(f), "proto_package", "imports")})
        \cup (UNION {{Part(package(f), service(f, i), "grpc_service", "serves"),
                      Part(<<"domain", "rpc.grpc">>, service(f, i), "grpc_service", "serves")}
                     \cup {Part(service(f, i), <<"rpc", FileId(f), i, r>>, "rpc", "serves") : r \in 1..services(f)[i]} :
                      i \in DOMAIN services(f)})
  IN (UNION {drawn(f) : f \in ProtoFiles(repo)})
     \cup If(ProtoFiles(repo) # {},
             If(AnyNamed(repo, {"buf.lock"}),
                {Part(protobuf, <<"protobuf_lock", "buf.lock">>, "protobuf_dependency_lock", "depends_on")})
             \cup {Part(protobuf, <<"protobuf_plugin_config", FileId(f)>>, "protobuf_plugin_config", "depends_on") :
                     f \in PluginConfigs(repo)}
             \cup {Part(protobuf, <<"generated_artifact", FileId(f)>>, "generated_artifact", "generates") :
                     f \in GeneratedArtifacts(repo)})

IssueSetParts(repo) ==
  UNION {{Part(Root, <<"issue_set", s.id>>, "issue_set", "maps_to_issue")}
         \cup {Part(<<"issue_set", s.id>>, <<"tracker_issue", i>>, "tracker_issue", "maps_to_issue") : i \in s.parent}
         \cup {Part(<<"issue_set", s.id>>, <<"issue_proposal", p>>, "issue_proposal", "maps_to_issue") :
                 p \in s.proposals} : s \in repo.sets}

DomainGraph(repo, profiles, gates) ==
  LET domains == {p.id : p \in profiles} IN
  Joined({[nodes |-> {Node(Root, "repo")}, edges |-> {}]}
    \cup ModuleParts(repo)
    \cup {Part(Root, <<"domain", d>>, "domain", "has_domain") : d \in domains}
    \cup If(domains \cap {"api_contracts.protobuf", "rpc.grpc"} # {}, ProtoParts(repo))
    \cup (UNION {FileParts(f, domains) : f \in Visible(repo)})
    \cup IssueSetParts(repo)
    \cup {Part(<<"domain", n.domain>>, <<"domain_finding", n.id, n.about>>, "domain_finding", "has_gap") :
            n \in DomainFindings(repo)}
    \cup {Part(<<"domain", g.domain>>, <<"quality_gate", g.domain, g.name>>, "quality_gate", "covered_by_gate") :
            g \in gates})
=============================================================================
