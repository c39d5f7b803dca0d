--------------------------- MODULE Configuration ---------------------------
(***************************************************************************)
(* Where the settings of a run come from: defaults, agentactr.toml, the    *)
(* environment and the command line, in this order; what is refused, and   *)
(* what the banner names as the source of the run's policy.  Pure          *)
(* operators.  A layer is a function from the keys it has to what it gives:*)
(*   is      "junk" (a value of another type) or "value"                   *)
(*   value   the value                                                     *)
(***************************************************************************)
EXTENDS Integers, Sequences, FiniteSets

CONSTANT Defaults   \* the settings of strict_defaults that the model tells apart

Keys == DOMAIN Defaults
PolicyKeys == {"intervention", "approval", "finalization"}
EnvKeys == PolicyKeys \cup {"repo", "experimental", "transport", "bridge", "fallback"}

Junk == [is |-> "junk", value |-> "junk"]
Given(v) == [is |-> "value", value |-> v]
Present(layer, k) == k \in DOMAIN layer
Gives(layer, k)   == k \in DOMAIN layer /\ layer[k].is = "value"

\* merge_config_from_toml: a value of another type leaves the setting as it
\* was, and so does a list none of whose members is text.
FromToml(old, toml) ==
  LET merged == [k \in Keys |-> IF Gives(toml, k) THEN toml[k].value ELSE old[k]]
  IN IF Present(toml, "kill_policy") /\ ~Present(toml, "oom_policy")
     THEN [merged EXCEPT !.oom_policy = merged.kill_policy] ELSE merged

\* merge_config_from_env: `experimental` must look like a boolean.
FromEnv(old, env) == [k \in Keys |-> IF k \in EnvKeys /\ Gives(env, k) THEN env[k].value ELSE old[k]]
EnvReadable(env) == ~(Present(env, "experimental") /\ env["experimental"].is = "junk")

\* validate_milestone_policy: canonical names, and no websocket unless asked for.
Valid(s) ==
  /\ s.mode \in {"cli_json", "app_server", "codex_sdk"}
  /\ s.transport \in {"stdio", "websocket"}
  /\ s.transport = "websocket" => s.experimental
  /\ s.bridge = "typescript"
  /\ s.fallback = "cli_json"

\* load_agentactr_config: --repo comes before the environment.
WithRepo(s, cli) == IF Gives(cli, "repo") THEN [s EXCEPT !.repo = cli["repo"].value] ELSE s
AfterToml(layers) == FromToml(Defaults, layers.toml)
Load(layers) == FromEnv(WithRepo(AfterToml(layers), layers.cli), layers.env)
AuthModes == {"auto", "chatgpt", "subscription", "chatgpt_subscription", "api-key", "api_key",
              "openai_api_key"}
Loads(layers) ==
  /\ layers.file => /\ Gives(layers.toml, "auth") => layers.toml["auth"].value \in AuthModes
                    /\ Valid(AfterToml(layers))
  /\ EnvReadable(layers.env)
  /\ Valid(Load(layers))

-----------------------------------------------------------------------------
\* RunPolicy: the command line, else the settings; both are parsed.

Interventions == {"fail_closed", "interactive", "review_required"}
Approvals     == {"never", "on_request"}
Finalizations == {"automatic_after_quality_gates", "require_human_review", "disabled",
                  "disabled_in_this_milestone"}
Parses(p) == /\ p.intervention \in Interventions
             /\ p.approval \in Approvals
             /\ p.finalization \in Finalizations
Policy(layers, s) ==
  [k \in PolicyKeys |-> IF Gives(layers.cli, k) THEN layers.cli[k].value ELSE s[k]]
PolicyAccepted(p) == p.approval # "never" => p.intervention = "interactive"
PolicyHolds(layers, s) ==
  /\ Parses([k \in PolicyKeys |-> s[k]])
  /\ Parses(Policy(layers, s))
  /\ PolicyAccepted(Policy(layers, s))

\* policy_source: the layer that mentions the key, whatever it gives.
\* Mutant: the file is named before the environment.
BaseSourceOfFile(layers, k) ==
  IF Present(layers.toml, k) THEN "toml" ELSE IF Present(layers.env, k) THEN "env" ELSE "default"
BaseSource(layers, k) ==
  IF Present(layers.env, k) THEN "env" ELSE IF Present(layers.toml, k) THEN "toml" ELSE "default"
PolicySource(layers, k) == IF Present(layers.cli, k) THEN "cli" ELSE BaseSource(layers, k)

-----------------------------------------------------------------------------
\* resolve_execution_backend and docker_image_readiness_action

Hosts == {"linux", "macos", "other"}
Backends == [linux |-> "native_linux", docker |-> "docker", macos_observe |-> "macos_observe",
             observe |-> "observe"]
AutoBackend == [linux |-> "native_linux", macos |-> "docker", other |-> "observe"]
BackendKnown(s) == s.backend = "auto" \/ s.backend \in DOMAIN Backends
Backend(s, host) == IF s.backend = "auto" THEN AutoBackend[host] ELSE Backends[s.backend]
InContainer(s, host) == Backend(s, host) = "docker"
Enforceable(s, host) == Backend(s, host) \in {"native_linux", "docker"} \/ ~s.strict

ImageAction(s, present) ==
  IF s.pull = "always" THEN "pull"
  ELSE IF present THEN "use" ELSE IF s.pull = "if_missing" THEN "pull" ELSE "forbidden"
ImageRefused(s, present) ==
  s.pull \notin {"always", "if_missing", "never"} \/ ImageAction(s, present) = "forbidden"
=============================================================================
