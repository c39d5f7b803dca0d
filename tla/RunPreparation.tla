--------------------------- MODULE RunPreparation ---------------------------
(***************************************************************************)
(* `agentactr run issue` from its arguments to the verdict of its quality  *)
(* gates, and `agentactr quality run` after it: settings, policy, the      *)
(* stack of the repository and who declares it, the preflight checks, the  *)
(* work of the agent, and the gates.                                       *)
(*                                                                         *)
(* The plan of the gates is made from the source checkout before the run,  *)
(* and carried out in the worktree after the agent has worked there;       *)
(* `quality run` makes its plan from the worktree.  The composition of     *)
(* Configuration, Discovery, Domains and QualityGates: `tree` is the       *)
(* repository in the worktree.                                             *)
(***************************************************************************)
EXTENDS QualityGates, Configuration

CONSTANTS
  Cases,      \* the situations that runs start in, records of the first four variables
  Worktrees   \* what a worktree may be like after base_ref and the agent's work

ASSUME ConstantsAssumption ==
  /\ PolicyKeys \subseteq Keys
  /\ \A r \in {c.repo : c \in Cases} \cup Worktrees :
       IsFiniteSet(r.files) /\ \A f \in ProtoFiles(r) : r.proto[f] \in Seq(Lines)
  /\ \A c \in Cases : c.said.stacks \subseteq Languages
  /\ \A c \in Cases : \A l \in {"toml", "env", "cli"} :
       \A k \in DOMAIN c.layers[l] : c.layers[l][k].is \in {"value", "junk"}

VARIABLES
  repo,      \* the source checkout
  layers,    \* the layers of the configuration, the command line among them
  said,      \* what the tracker says of the issue: online, stacks
  machine,   \* the host, and what it has
  stage,     \* how far the run is
  context    \* EffectiveRepositoryContext: the inspection and who named the stack

given == <<repo, layers, said>>
vars  == <<given, machine, stage, context, tree, gateVars>>
ungated == <<given, machine, tree, gateVars>>

settings == Load(layers)
DryRun   == Gives(layers.cli, "dry_run")

Equipment == {"codex", "auth", "capacity", "token", "mcp", "daemon", "image", "registry", "memory files",
           "tools", "api key", "clean"}
NoContext == [inspection |-> {}, source |-> "none"]

Init ==
  /\ \E c \in Cases : /\ repo = c.repo /\ tree = c.repo
                      /\ layers = c.layers /\ said = c.said /\ machine = c.machine
  /\ stage = "arguments"
  /\ context = NoContext
  /\ steps = <<>> /\ opted = {} /\ results = <<>>
  /\ command = "none" /\ held = FALSE /\ status = "none" /\ returned = "none"

\* A check of cmd_run: the run is refused, or goes on.
Preflight(from, holds, to) ==
  /\ stage = from
  /\ stage' = IF holds THEN to ELSE "refused"

-----------------------------------------------------------------------------
\* Arguments, settings and policy

ReadArguments ==   \* validate_run_issue_args: a flag has a value
  /\ Preflight("arguments", \A k \in DOMAIN layers.cli : layers.cli[k].is # "junk", "settings")
  /\ UNCHANGED <<ungated, context>>
LoadSettings ==
  /\ Preflight("settings", Loads(layers), "policy")
  /\ UNCHANGED <<ungated, context>>
DecidePolicy ==
  /\ Preflight("policy", PolicyHolds(layers, settings), "inspection")
  /\ UNCHANGED <<ungated, context>>

-----------------------------------------------------------------------------
\* effective_repository_context

Context(inspection, source) == [inspection |-> inspection, source |-> source]
ConfigDeclares == settings.declared \in DOMAIN DeclaredAs
\* Mutant: the tracker is asked whatever the configuration declares.
NeedsTrackerAlways ==
  \/ context.inspection.empty
  \/ context.inspection.stack = "mixed"
  \/ context.inspection.confidence < 70
NeedsTracker ==
  /\ ~ConfigDeclares
  /\ \/ context.inspection.empty
     \/ context.inspection.stack = "mixed"
     \/ context.inspection.confidence < 70

Inspect ==
  /\ stage = "inspection"
  /\ context' = Context(Configured(repo, settings), "unresolved")
  /\ stage' = "context"
  /\ UNCHANGED ungated

TakeDeclared ==   \* the declared stack is applied a second time, to the same effect
  /\ stage = "context"
  /\ ConfigDeclares
  /\ context' = [context EXCEPT !.source = "config"]
  /\ stage' = "findings"
  /\ UNCHANGED ungated

TakeDetected ==
  /\ stage = "context"
  /\ ~ConfigDeclares /\ ~NeedsTracker
  /\ context' = [context EXCEPT !.source = "detection"]
  /\ stage' = "findings"
  /\ UNCHANGED ungated

\* stack_from_tracker_metadata: labels and fields must agree on one stack.
AskTracker ==
  /\ stage = "context"
  /\ NeedsTracker
  /\ said.online
  /\ IF said.stacks = {} THEN UNCHANGED context
     ELSE \E s \in said.stacks : said.stacks = {s} /\ context' = Context(Declare(repo, s, settings), "tracker")
  /\ stage' = "findings"
  /\ UNCHANGED ungated
TrackerFails ==
  /\ stage = "context"
  /\ NeedsTracker
  /\ ~said.online \/ Cardinality(said.stacks) > 1
  /\ stage' = "refused"
  /\ UNCHANGED <<ungated, context>>

\* fail_on_blocking_repo_findings
Ambiguous(i) == i.stack = "mixed" \/ i.confidence < 70
FindingsAllow(c) ==
  LET named == c.source \in {"config", "tracker"} IN
  /\ c.inspection.empty => named
  /\ c.inspection.git
  /\ settings.lowconf /\ ~named => ~Ambiguous(c.inspection)
  /\ c.inspection.missing = {}
JudgeFindings ==   \* and resolve_execution_backend
  /\ Preflight("findings", FindingsAllow(context) /\ BackendKnown(settings), "codex")
  /\ UNCHANGED <<ungated, context>>

-----------------------------------------------------------------------------
\* Preflight

Contained == InContainer(settings, machine.host)
HasAll(parts) == parts \subseteq machine.has

\* Host probes are skipped when codex runs in a container.
ProbeCodex ==
  /\ Preflight("codex", /\ settings.mode = "cli_json"
                        /\ Contained \/ HasAll({"codex", "auth", "capacity"}), "token")
  /\ UNCHANGED <<ungated, context>>
RequireToken ==
  /\ Preflight("token", HasAll({"token"}), "mcp")
  /\ UNCHANGED <<ungated, context>>
CheckMcp ==
  /\ Preflight("mcp", Contained \/ HasAll({"mcp"}), "backend")
  /\ UNCHANGED <<ungated, context>>

ResolveBackend ==
  /\ ~Contained
  /\ Preflight("backend", Enforceable(settings, machine.host), "ready")
  /\ UNCHANGED <<ungated, context>>
EnsureImage ==   \* an image that is pulled stays, whatever becomes of the run
  /\ Contained
  /\ LET present == "image" \in machine.has
         pulls == HasAll({"daemon"}) /\ ~ImageRefused(settings, present) /\ ImageAction(settings, present) = "pull"
     IN /\ Preflight("backend", /\ HasAll({"daemon"}) /\ ~ImageRefused(settings, present)
                                /\ pulls => HasAll({"registry"}), "container")
        /\ machine' = IF pulls /\ HasAll({"registry"}) THEN [machine EXCEPT !.has = @ \cup {"image"}] ELSE machine
  /\ UNCHANGED <<given, context, tree, gateVars>>
ProbeContainer ==
  /\ Preflight("container", HasAll({"memory files", "tools", "api key"}), "ready")
  /\ UNCHANGED <<ungated, context>>

EndDryRun ==
  /\ DryRun
  /\ Preflight("ready", TRUE, "dry run")
  /\ UNCHANGED <<ungated, context>>
GoOn ==
  /\ ~DryRun
  /\ Preflight("ready", TRUE, "checkout")
  /\ UNCHANGED <<ungated, context>>
CheckCheckout ==
  /\ Preflight("checkout", settings.dirty => HasAll({"clean"}), "worktree")
  /\ UNCHANGED <<ungated, context>>

-----------------------------------------------------------------------------
\* The worktree and its gates

\* A worktree of base_ref, changed by the agent; the plan is the checkout's.
Work ==
  /\ stage = "worktree"
  /\ tree' \in Worktrees \cup {repo}
  /\ stage' = "gates"
  /\ Open(StepsOf(context.inspection), settings.opts)
  /\ UNCHANGED <<given, machine, context>>

Gated == stage \in {"gates", "gates again"}
Gating ==
  /\ Gated
  /\ GateStep
  /\ UNCHANGED <<given, machine, stage, context, tree>>

\* cmd_quality: a report of its own, of the worktree as it is.
\* Mutant: the rerun makes its plan without the declared stack.
RunAgainDiscovered ==
  /\ stage = "gates"
  /\ returned # "none"
  /\ stage' = "gates again"
  /\ Open(StepsOf(Inspected(tree, Discovered(tree, settings), settings)), settings.opts)
  /\ UNCHANGED <<given, machine, context, tree>>
RunAgain ==
  /\ stage = "gates"
  /\ returned # "none"
  /\ stage' = "gates again"
  /\ Open(StepsOf(Configured(tree, settings)), settings.opts)
  /\ UNCHANGED <<given, machine, context, tree>>

Next == \/ ReadArguments \/ LoadSettings \/ DecidePolicy
        \/ Inspect \/ TakeDeclared \/ TakeDetected \/ AskTracker \/ TrackerFails \/ JudgeFindings
        \/ ProbeCodex \/ RequireToken \/ CheckMcp \/ ResolveBackend \/ EnsureImage \/ ProbeContainer
        \/ EndDryRun \/ GoOn \/ CheckCheckout
        \/ Work \/ Gating \/ RunAgain

\* The program goes through its gates, and its clock reaches the timeout.
\* Nothing makes a command end, or what it left behind let go of its output.
GateProgress == Gated /\ Progress /\ UNCHANGED <<given, machine, stage, context, tree>>
GateTimeout  == Gated /\ Timeout /\ UNCHANGED <<given, machine, stage, context, tree>>
Fairness == WF_vars(GateProgress) /\ WF_vars(GateTimeout)
Spec == Init /\ [][Next]_vars /\ Fairness

-----------------------------------------------------------------------------
\* Properties of the gates

PlanHere == IF stage = "gates" THEN context.inspection ELSE Configured(tree, settings)
\* What the migration keeps: of a mixed repository, commands of a known language.
Owed(i) == {n \in DOMAIN i.plan : ~Migrated(i) \/ LanguageOf(i.stack, i.plan[n]) # "none"}
Done(k) == results[k] = "ok" \/ (results[k] = "skipped" /\ steps[k].opt /\ ~EnabledByConfig(steps[k]))
AllDone(i) ==
  /\ \A n \in Owed(i) : \E k \in DOMAIN steps : steps[k].at = n /\ Done(k)
  /\ \A g \in i.gates : g.runs => \E k \in DOMAIN steps : steps[k] = g /\ Done(k)

\* A report passes only when every command of the plan whose language is known
\* has ended well, or needs what the configuration has not opted in to: the
\* migration of the plan into typed gates, their order, and the stop at the
\* first failure (run_quality_gates_to_report) lose none.
PassedMeansGated == Gated /\ returned = "passed" => AllDone(PlanHere)

\* `agentactr quality run` goes through the gates of the run when the worktree
\* is like the checkout, unless the tracker named the stack: the rerun reads
\* the configuration and the files again and does not ask the tracker.
RerunRunsTheSame ==
  [][stage = "gates" /\ stage' = "gates again" /\ tree = repo /\ context.source # "tracker"
       => steps' = steps]_vars

\* A language that the configuration declares is the only one whose gates run,
\* in the run and in its rerun, whatever the files and the tracker say.
DeclaredStackWins ==
  Gated /\ settings.declared \in DOMAIN DeclaredAs \ {"mixed"} =>
    \A k \in DOMAIN steps :
      steps[k].runs /\ steps[k].domain \in LanguageDomains =>
        steps[k].domain = LanguageDomain[DeclaredAs[settings.declared]]

\* A report that is begun comes to a verdict, unless something that outlives a
\* command holds its output: commands that never end meet the timeout.
VerdictComes == Gated ~> (returned # "none" \/ held)

-----------------------------------------------------------------------------
\* Properties of the settings

\* The layer that the banner names for a setting of the policy is the one that
\* gave its value, as long as no layer holds a value of another type.
LayerNamed(k) ==
  [cli |-> layers.cli, env |-> layers.env, toml |-> layers.toml, default |-> <<>>][PolicySource(layers, k)]
NamedLayerDecides ==
  (\A l \in {"cli", "env", "toml"} : \A k \in DOMAIN layers[l] : layers[l][k].is # "junk") =>
    \A k \in PolicyKeys :
      Policy(layers, settings)[k] =
        IF PolicySource(layers, k) = "default" THEN Defaults[k] ELSE LayerNamed(k)[k].value

-----------------------------------------------------------------------------
\* Properties of the domains

Examined == stage = "findings"   \* once in each run

\* A domain that is drawn is one whose templates are chosen: what
\* compose_domain_profiles leaves, domain_matches_selection takes.  Drawn for the
\* domains that are detected, the graph has no edge to or from a node it does
\* not have: findings, gates, files and issue sets all hang on nodes that are
\* drawn elsewhere.
Whole(graph) ==
  \A e \in graph.edges : {e.from, e.to} \subseteq {n.id : n \in graph.nodes}
GraphIsWhole ==
  Examined =>
    LET drawn == ComposeProfiles(repo, settings.adomains) IN
    /\ \A p \in drawn : MatchesSelection(p.id, settings.adomains)
    /\ settings.adomains \in {{}, {"auto"}} /\ settings.qdomains = settings.adomains =>
         Whole(DomainGraph(repo, drawn, DomainGates(repo, settings.qdomains)))

\* The services of a .proto file and the number of their rpcs, by what its lines
\* declare: services do not nest and each rpc is in one, so an rpc belongs to the
\* service that is declared last before it.
ServiceLines(lines) == {i \in DOMAIN lines : lines[i].declares = "service"}
Within(lines, i) ==
  {j \in i + 1 .. Len(lines) : /\ lines[j].declares = "rpc"
                               /\ \A k \in i + 1 .. j : lines[k].declares # "service"}
ServicesOf(lines) ==
  [n \in 1 .. Cardinality(ServiceLines(lines)) |->
     LET i == CHOOSE i \in ServiceLines(lines) : Cardinality(ServiceLines(lines) \cap 1 .. i) = n
     IN Cardinality(Within(lines, i))]

\* A plain line declares one service or one rpc and says so, with no brace before
\* it, or it declares neither and has neither word anywhere: not in a remark, in
\* the name or type of a field, or in what another line goes on from.
PlainLine(line) ==
  /\ line.declares # "more"
  /\ \A word \in {"service", "rpc"} : word \in line.says <=> line.declares = word
  /\ line.declares # "nothing" => line.begins # "close"
\* No line between a service and an rpc of it begins with a closing brace, as the
\* last line of the body of another rpc, of an option or of a message would.
Legible(lines) ==
  /\ \A k \in DOMAIN lines : PlainLine(lines[k])
  /\ \A i \in ServiceLines(lines) : \A j \in Within(lines, i) : \A k \in i .. j : lines[k].begins # "close"
\* parse_proto_detail keeps what is open on a line in a few variables and looks
\* for `service ` and `rpc ` anywhere in it.  It finds the services of a legible
\* file, in their order, and counts the rpcs of each.  It errs on others: it counts
\* `// This rpc lists users`, takes `string service = 1;` for a service, and
\* loses the rpcs after the body of one.
ParseAgrees ==
  Examined => \A f \in ProtoFiles(repo) :
    Legible(repo.proto[f]) => Parse(repo.proto[f]).services = ServicesOf(repo.proto[f])
=============================================================================
