-------------------------- MODULE MCRunPreparation --------------------------
\* RunPreparation for a set of small repositories, configurations and machines.
EXTENDS RunPreparation

MCDirs == {".", "app", "lib", "rusty"}

\* The names of the model and the words the code finds in them.
MCWords ==
  [n \in {".", "app", "lib", "Cargo.toml", "Cargo.lock", "deny.toml", "a.rs", "b.rs", "go.mod", "go.sum",
          ".golangci.yml", "a.go", "package.json", "package-lock.json", "tsconfig.json", "biome.json",
          ".nvmrc", "a.ts", "pyproject.toml", "uv.lock", "tox.ini", "mypy.ini", "deno.json", "buf.yaml",
          "buf.gen.yaml", "AGENTS.md", ".tflint.hcl"} |-> {}]
  @@ ("rusty" :> {"rust"}) @@ ("api.proto" :> {".proto"}) @@ ("shop.proto" :> {".proto"})
  @@ ("api.pb.go" :> {".pb.go", "go"}) @@ ("main.tf" :> {".tf"}) @@ ("Pulumi.yaml" :> {"pulumi."})
  @@ ("migration_1.sql" :> {".sql", "migration"}) @@ ("clickhouse_seed.sql" :> {".sql", "clickhouse", "seed"})
  @@ ("redis_stream.rs" :> {"redis", "stream", ".rs"}) @@ ("kafka_outbox.rs" :> {"kafka", "outbox", ".rs"})
  @@ ("bucket_retry.rs" :> {"bucket", "retry", ".rs"}) @@ ("email_template.rs" :> {"email", "template", ".rs"})
  @@ ("metrics_policy.rs" :> {"metrics", "policy", ".rs"}) @@ ("tenant_uuidv7.rs" :> {"tenant", "uuidv7", ".rs"})
  @@ ("error_codes.rs" :> {"error_codes", ".rs"})
MCIds == [n \in DOMAIN MCWords |-> n]

\* Names are told apart by their place in this list.
MCAlphabet ==
  <<".", "api_contracts.protobuf", "app", "audit", "biome", "build", "clickhouse_schema_evolution", "clippy",
    "communications.email", "communications_idempotency", "database.clickhouse_migrations",
    "database.postgres_migrations", "deny", "deps", "doc_tests", "error_registry", "errors.registry", "fmt",
    "format", "framework_smoke", "gofmt", "golangci_lint", "grpc_boundary_mapping", "grpc_deadlines",
    "iac.pulumi", "iac.terraform", "identity.uuidv7", "install", "kafka_operational_contract",
    "language.golang", "language.python", "language.rust", "language.typescript", "lib", "lint", "machete",
    "mod_verify", "nextest", "object_storage_policy", "observability.otel_prometheus",
    "observability_semantics", "postgres_migration_safety", "protobuf_breaking", "protobuf_format",
    "protobuf_generate", "protobuf_generated_drift", "protobuf_governance_degraded", "protobuf_lint",
    "pulumi_component_architecture", "pulumi_preview", "resilience.service_patterns", "resilience_patterns",
    "rpc.grpc", "rusty", "security.auth_authz", "security_boundary_policy", "stack_contract", "storage.object",
    "streaming.kafka", "streaming.valkey", "sync", "tenancy.multi_tenant", "tenant_isolation",
    "terraform_fmt", "terraform_module_architecture", "terraform_validate", "test", "tidy_check", "typecheck",
    "types", "uuidv7_policy", "valkey_semantics", "vet", "vulncheck">>

-----------------------------------------------------------------------------
\* Repositories

Top(names) == {<<".", n>> : n \in names}
In(d, names) == {<<d, n>> : n \in names}
Files(files) ==
  [files |-> files, json |-> [d \in MCDirs |-> NoJson], mod |-> [d \in MCDirs |-> NoMod], says |-> {},
   git |-> TRUE, proto |-> <<>>, members |-> <<>>, plugins |-> [f \in files |-> "none"], sets |-> {}]

Nothing == Files({})
OneFile == Files(Top({"a.rs"}))
RustFiles == Top({"Cargo.toml", "Cargo.lock", "deny.toml"}) \cup In("lib", {"Cargo.toml", "a.rs"})
Rust == [Files(RustFiles) EXCEPT !.members = << <<"lib", "app">> >>]
Unlocked == Files((RustFiles \ Top({"Cargo.lock"})) \cup In("app", {"Cargo.toml"}))
GoMod(external) ==
  [version |-> TRUE, replaces |-> {[module |-> "b", version |-> "any"]},
   requires |-> {[module |-> "b", version |-> "v1"]} \cup (IF external THEN {[module |-> "c", version |-> "v1"]} ELSE {})]
GoFiles == Top({"go.mod", "go.sum", ".golangci.yml", "a.go"}) \cup In("lib", {"go.mod"})
Go == [Files(GoFiles) EXCEPT !.mod = [d \in MCDirs |-> GoMod(d = ".")]]
Script(scripts, workspaces) == [NoJson EXCEPT !.scripts = scripts, !.workspaces = workspaces]
NodeFiles == Top({"package.json", "package-lock.json", "tsconfig.json", "biome.json", ".nvmrc"})
Npm == [Files(NodeFiles \cup In("app", {"package.json", "a.ts"})) EXCEPT
           !.json = [d \in MCDirs |-> Script({"lint", "test"}, d = ".")]]
Apart == [Files(In("app", {"package.json", "package-lock.json", "tsconfig.json", "biome.json"}) \cup Top({".nvmrc"})
                \cup In("lib", {"package.json", "package-lock.json"})) EXCEPT
           !.json = [d \in MCDirs |-> [Script({"test", "smoke"}, FALSE) EXCEPT !.uses = {"framework"}]]]
Deno == Files(Top({"deno.json", "tsconfig.json", "biome.json", "package-lock.json"}) \cup In("lib", {"deno.json"}))
Python == [Files(Top({"pyproject.toml", "uv.lock", "tox.ini", "mypy.ini"})) EXCEPT
             !.says = {<<".", "pyproject.toml", "requires-python">>}]
RustNode == [Files(RustFiles \cup NodeFiles) EXCEPT !.json = [d \in MCDirs |-> Script({"test"}, FALSE)]]
GoNode == [Files(GoFiles \cup NodeFiles) EXCEPT !.json = [d \in MCDirs |-> Script({"build"}, FALSE)],
                                                !.mod = Go.mod]
\* Commands of two languages that are given to a third, under one name.
Rusty == [Files(In("rusty", {"go.mod", "package.json"})) EXCEPT !.json = [d \in MCDirs |-> Script({"test"}, FALSE)]]
Services == Files(RustFiles \cup In("lib", {"migration_1.sql", "clickhouse_seed.sql", "redis_stream.rs",
              "kafka_outbox.rs", "bucket_retry.rs", "email_template.rs", "metrics_policy.rs", "tenant_uuidv7.rs",
              "error_codes.rs"}) \cup Top({"AGENTS.md"}))
Infrastructure == Files(RustFiles \cup Top({"main.tf", "Pulumi.yaml", ".tflint.hcl"}))
\* Lines of .proto files, by how they begin, what they say and what they declare.
Line(begins, says, declares) == [begins |-> begins, says |-> says, declares |-> declares]
Package == Line("package", {}, "nothing")
Message == Line("message", {}, "nothing")
Reserved == Line("reserved", {}, "nothing")
Enum == Line("enum", {}, "nothing")
Zero == Line("text", {"zero"}, "nothing")
Unspecified == Line("text", {"zero", "unspecified"}, "nothing")
Brace == Line("close", {}, "nothing")
Service == Line("service", {"service"}, "service")
Rpc == Line("text", {"rpc"}, "rpc")
Stream == Line("text", {"rpc", "stream"}, "rpc")
\* `// This rpc ...`, `string service = 1;`, `service A { rpc B(C) returns (D); }`,
\* `} // end of the service A` and `rpc`, which goes on in the next line.
Remark == Line("text", {"rpc"}, "nothing")
Field == Line("text", {"service"}, "nothing")
OneLine == Line("service", {"service", "rpc"}, "more")
EndRemark == Line("close", {"service"}, "nothing")
Broken == Line("text", {}, "rpc")
Shop == <<Package, Message, Brace, Enum, Zero, Brace, Service, Rpc, Stream, Brace>>
Proto ==
  [Files(RustFiles \cup Top({"buf.yaml", "buf.gen.yaml", "api.proto", "shop.proto"}) \cup In("lib", {"api.pb.go"})) EXCEPT
     !.proto = (<<".", "api.proto">> :> <<Service, Rpc, Brace>>) @@ (<<".", "shop.proto">> :> Shop),
     !.plugins = [@ EXCEPT ![<<".", "buf.gen.yaml">>] = "unpinned"],
     !.sets = {[id |-> "1", parent |-> {"7"}, proposals |-> {"2", "3"}]}]
BareProto == [Files(RustFiles \cup Top({"shop.proto"})) EXCEPT !.proto = (<<".", "shop.proto">> :> Shop)]

Repositories == {Nothing, OneFile, Rust, Unlocked, Go, Npm, Apart, Deno, Python, RustNode, GoNode, Rusty, Services,
                 Infrastructure, Proto, BareProto}
\* The agent removes a module and files, or adds what another stack has.
MCWorktrees ==
  {RustNode, [Go EXCEPT !.files = Top({"go.mod", "go.sum"})],
   [Go EXCEPT !.files = Top({"go.sum", ".golangci.yml"}) \cup In("lib", {"go.mod", "a.go"})]}

-----------------------------------------------------------------------------
\* Configurations

MCDefaults ==
  [repo |-> "o/r", mode |-> "cli_json", auth |-> "auto", transport |-> "stdio", experimental |-> FALSE, bridge |-> "typescript",
   fallback |-> "cli_json", intervention |-> "fail_closed", approval |-> "never",
   finalization |-> "require_human_review", kill_policy |-> "self", oom_policy |-> "self",
   declared |-> "auto", profile |-> "strict", qdomains |-> {"auto"}, adomains |-> {"auto"}, opts |-> {},
   lowconf |-> TRUE, dirty |-> TRUE, backend |-> "auto", strict |-> TRUE, pull |-> "if_missing"]
Layers(toml, env, cli) == [file |-> toml # <<>>, toml |-> toml, env |-> env, cli |-> cli]
Toml(toml) == Layers(toml, <<>>, <<>>)
Key(k, v) == k :> Given(v)

Configurations ==
  {Toml(<<>>), Toml(Key("declared", "rust")), Toml(Key("declared", "Rust")), Toml(Key("declared", "ts")),
   Toml(Key("declared", "golang") @@ Key("profile", "standard")), Toml(Key("declared", "mixed") @@ Key("profile", "minimal")),
   Toml(Key("profile", "standard") @@ Key("qdomains", {"detected_only", "database"})
        @@ Key("adomains", {"declared_only", "language"})),
   Toml(Key("profile", "minimal") @@ Key("lowconf", FALSE) @@ Key("qdomains", {}) @@ Key("adomains", {})
        @@ Key("opts", {[domain |-> "iac.pulumi", name |-> "*"], [domain |-> "*", name |-> "install"]})),
   Toml(Key("qdomains", {"database", "streaming", "rpc.grpc"}) @@ Key("adomains", {"service_patterns", "iac.terraform"})
        @@ Key("opts", {[domain |-> "*", name |-> "*"]})),
   Toml(Key("qdomains", {"disabled"}) @@ Key("adomains", {"auto", "storage"})),
   Layers(<<>>, <<>>, Key("dry_run", TRUE))}
\* A configuration that codex or the loader refuses, or takes only in one layer.
Odd ==
  {Toml(Key("mode", "app_server")), Toml(Key("transport", "websocket")),
   Toml(Key("transport", "websocket") @@ Key("experimental", TRUE)),
   Layers(Key("transport", "websocket"), Key("experimental", TRUE), <<>>),
   Layers(<<>>, Key("transport", "websocket") @@ Key("experimental", TRUE), <<>>),
   Layers(<<>>, "experimental" :> Junk, <<>>), Layers(<<>>, <<>>, "approval" :> Junk),
   Layers(Key("repo", "a/b"), Key("repo", "c/d"), Key("repo", "e/f")), Toml(Key("kill_policy", "group")),
   Toml(Key("bridge", "python")), Toml(Key("auth", "token")), Toml(Key("fallback", "app_server"))}

Tracker(online, stacks) == [online |-> online, stacks |-> stacks]
Silent == Tracker(TRUE, {})
Trackers == {Silent, Tracker(TRUE, {"golang"}), Tracker(TRUE, {"rust", "golang"}), Tracker(FALSE, {})}

Fresh == Equipment \ {"image"}
On(host, has) == [host |-> host, has |-> has]
Linux == On("linux", Fresh)
Case(r, l, s, m) == [repo |-> r, layers |-> l, said |-> s, machine |-> m]

\* Each repository with each configuration, and with each answer of the tracker
\* those it may be asked about.
Unclear == {Nothing, OneFile, RustNode, GoNode}
Asking == {Toml(<<>>), Toml(Key("declared", "rust")), Toml(Key("declared", "Rust")), Toml(Key("lowconf", FALSE))}
RunCases == {Case(r, l, Silent, Linux) : r \in Repositories, l \in Configurations}
            \cup {Case(r, l, s, Linux) : r \in Unclear, l \in Asking, s \in Trackers}
\* Each odd configuration, and each thing a host may lack.
Backed == {Toml(<<>>), Toml(Key("backend", "docker") @@ Key("pull", "never")),
           Toml(Key("strict", FALSE) @@ Key("dirty", FALSE)), Toml(Key("backend", "linux") @@ Key("pull", "always"))}
Machines == {On(h, e \ {p}) : h \in Hosts, e \in {Equipment, Fresh}, p \in Equipment}
HostCases == {Case(Rust, l, Silent, Linux) : l \in Odd} \cup {Case(Rust, l, Silent, m) : l \in Backed, m \in Machines}
\* Each combination of the layers of the policy, refused for the lack of git.
Maybe(k, values) == {<<>>} \cup {k :> v : v \in values}
Ungit(r) == [r EXCEPT !.git = FALSE]
PolicyCases ==
  {Case(Ungit(Rust), Layers(ti @@ ta, ei @@ ea, ci @@ ca), Silent, Linux) :
     ti \in Maybe("intervention", {Given("interactive"), Junk}),
     ei \in Maybe("intervention", {Given("interactive"), Given("review_required")}),
     ci \in Maybe("intervention", {Given("interactive"), Given("fail_closed")}),
     ta \in Maybe("approval", {Given("on_request"), Junk}),
     ea \in Maybe("approval", {Given("on_request"), Given("never")}),
     ca \in Maybe("approval", {Given("on_request"), Given("never"), Given("sometimes")})}
\* Each .proto file of three blocks.
Blocks ==
  {<<Package>>, <<Message, Brace>>, <<Message, Reserved, Brace>>, <<Message, Field, Brace>>, <<Enum, Unspecified, Zero, Brace>>,
   <<Service, Brace>>, <<Service, Rpc>>, <<Service, Rpc, Brace>>, <<Service, Stream, Rpc, Brace>>,
   <<Service, Remark, Rpc, EndRemark>>, <<Service, Rpc, Brace, Rpc, Brace>>, <<OneLine>>, <<Rpc, Broken>>}
ProtoCases ==
  {Case(Ungit([Files(RustFiles \cup Top({"api.proto"})) EXCEPT !.proto = (<<".", "api.proto">> :> a \o b \o c)]),
        Toml(<<>>), Silent, Linux) : a \in Blocks, b \in Blocks, c \in Blocks}
MCCases == RunCases \cup HostCases \cup PolicyCases \cup ProtoCases
=============================================================================
