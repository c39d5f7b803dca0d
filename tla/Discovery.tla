----------------------------- MODULE Discovery -----------------------------
(***************************************************************************)
(* What agentactr concludes from the files of a repository: its stack, the *)
(* prerequisites that are missing, the plan of quality commands, and the   *)
(* typed gates the plan is migrated into.  Pure operators; a repository is *)
(* a record                                                                *)
(*   files   set of <<directory, name>>, regular files only                *)
(*   json    what package.json says in each directory (see Json)           *)
(*   mod     what go.mod says in each directory (see GoMod)                *)
(*   says    set of <<directory, name, word>>: words of the other files    *)
(*   git     is there a .git                                               *)
(* Source files are represented by two names of each language.             *)
(***************************************************************************)
EXTENDS Integers, Sequences, FiniteSets, FiniteSetsExt, SequencesExt

CONSTANTS
  Dirs,        \* directories; "." is the root
  Words        \* the words the code looks for that a directory or a name has

ASSUME DirsAssumption == IsFiniteSet(Dirs) /\ "." \in Dirs

\* The members of a set in a sequence, in their order.
Those(s, set) == FlattenSeq([i \in DOMAIN s |-> IF s[i] \in set THEN <<s[i]>> ELSE <<>>])

Json  == [scripts : SUBSET {"lint", "typecheck", "test", "build", "smoke:check", "test:smoke", "smoke"},
          manager : {"none", "bun", "pnpm", "npm", "yarn", "yarn@1"},
          workspaces : BOOLEAN, node : BOOLEAN, uses : SUBSET {"biome", "framework"}]
NoJson == [scripts |-> {}, manager |-> "none", workspaces |-> FALSE, node |-> FALSE, uses |-> {}]
NoMod  == [version |-> FALSE, requires |-> {}, replaces |-> {}]

-----------------------------------------------------------------------------
\* Evidence: score_evidence, select_stack

StackOrder == <<"typescript", "rust", "golang", "python">>
Languages  == ToSet(StackOrder)

Lockfiles == {"bun.lock", "bun.lockb", "pnpm-lock.yaml", "package-lock.json", "yarn.lock"}
Markers ==
  [typescript |-> Lockfiles \cup {"package.json", "tsconfig.json", "biome.json", "biome.jsonc",
                                  "deno.json", "deno.jsonc", "deno.lock"},
   rust   |-> {"Cargo.toml", "Cargo.lock", "deny.toml"},
   golang |-> {"go.mod", "go.sum", ".golangci.yml", ".golangci.yaml"},
   python |-> {"pyproject.toml", "uv.lock", "poetry.lock", "pdm.lock", "Pipfile.lock", "setup.py",
               "setup.cfg", "tox.ini", "noxfile.py", "pytest.ini", "mypy.ini", "requirements.txt"}]
Sources ==
  [typescript |-> {"a.ts", "b.tsx"}, rust |-> {"a.rs", "b.rs"},
   golang |-> {"a.go", "b.go"}, python |-> {"a.py", "b.py"}]

IgnoredEntries == {".git", ".agentactr", ".trunk", ".gomodcache", ".cache", "target", "node_modules",
                   "dist", "build", ".next", ".venv", "vendor", "__pycache__"}
IgnoredFiles   == {".gitignore", "agentactr.toml", "WORKFLOW.md", "Specs.md", "specs_v01.md"}
Visible(repo) ==
  {f \in repo.files : /\ {f[1], f[2]} \cap IgnoredEntries = {}
                      /\ f[1] # "." \/ f[2] \notin IgnoredFiles}
IsEmpty(repo) == Visible(repo) = {}

Score(repo, s) ==
  LET weight == IF s = "typescript" THEN 4 ELSE 5
      of(names) == Cardinality({f \in Visible(repo) : f[2] \in names})
  IN (weight * of(Markers[s]) + of(Sources[s])) % 2^16
Active(repo)   == {s \in Languages : Score(repo, s) > 0}
Detected(repo) == Those(StackOrder, Active(repo))

Leader(repo) == CHOOSE s \in Active(repo) : \A t \in Languages : Score(repo, t) <= Score(repo, s)
Contested(repo) ==
  \E s \in Active(repo) \ {Leader(repo)} : Score(repo, s) >= Score(repo, Leader(repo)) \div 2

SelectStack(repo) ==
  IF Active(repo) = {} THEN [stack |-> "unknown", confidence |-> 0]
  ELSE IF Contested(repo) THEN [stack |-> "mixed", confidence |-> 70]
  ELSE [stack |-> Leader(repo),
        confidence |-> 50 + Min({Score(repo, Leader(repo)), 50})]

-----------------------------------------------------------------------------
\* What is in a directory

Exists(repo, d, names)     == \E n \in names : <<d, n>> \in repo.files
Mentions(repo, d, n, words) == <<d, n>> \in repo.files /\ \E w \in words : <<d, n, w>> \in repo.says
PackageJson(repo, d) == IF Exists(repo, d, {"package.json"}) THEN repo.json[d] ELSE NoJson
RootsOf(repo, names) == {d \in Dirs : \E n \in names : <<d, n>> \in Visible(repo)}
ProjectRoots(repo) == RootsOf(repo, {"package.json", "deno.json", "deno.jsonc"})
ModuleRoots(repo)  == RootsOf(repo, {"go.mod"})
OrRoot(roots) == IF roots = {} THEN {"."} ELSE roots

\* Lockfiles first, in this order; then packageManager, then deno, then npm.
LockfileManager(repo, d) ==
  IF Exists(repo, d, {"pnpm-lock.yaml"}) THEN "pnpm"
  ELSE IF Exists(repo, d, {"yarn.lock"}) THEN "yarn"
  ELSE IF Exists(repo, d, {"package-lock.json", "npm-shrinkwrap.json"}) THEN "npm"
  ELSE IF Exists(repo, d, {"bun.lock", "bun.lockb"}) THEN "bun"
  ELSE IF Exists(repo, d, {"deno.lock"}) THEN "deno"
  ELSE "none"
JsonManager(repo, d) ==
  LET said == PackageJson(repo, d).manager IN IF said = "yarn@1" THEN "yarn" ELSE said
DenoConfigured(repo, d) == Exists(repo, d, {"deno.json", "deno.jsonc"})
PackageManager(repo, d) ==
  IF LockfileManager(repo, d) # "none" THEN LockfileManager(repo, d)
  ELSE IF JsonManager(repo, d) # "none" THEN JsonManager(repo, d)
  ELSE IF DenoConfigured(repo, d) THEN "deno" ELSE "npm"
HasOwnManager(repo, d) ==
  LockfileManager(repo, d) # "none" \/ JsonManager(repo, d) # "none" \/ DenoConfigured(repo, d)

-----------------------------------------------------------------------------
\* The plan: quality_plan_for_repository_with_profile

\* `name:dir` and `cd dir && ...` where dir is not the root.
Command(name, dir, tool, does) == [name |-> name, dir |-> dir, tool |-> tool, does |-> does]

RustNames   == <<"fmt", "clippy", "nextest", "doc_tests", "deny", "machete">>
PythonNames == <<"sync", "format", "lint", "types", "test", "audit", "deps">>
GolangNames == <<"gofmt", "mod_verify", "tidy_check", "vet", "golangci_lint", "vulncheck", "test">>
DenoNames   == <<"fmt", "lint", "test">>
ScriptNames == <<"lint", "typecheck", "test", "build">>
CommandNames ==
  (UNION {ToSet(names) : names \in {RustNames, PythonNames, GolangNames, DenoNames, ScriptNames}})
  \cup {"install", "biome", "framework_smoke"}

Named(names, dir, tool) == [i \in DOMAIN names |-> Command(names[i], dir, tool, names[i])]

RustPlan   == Named(RustNames, ".", "cargo")
PythonPlan == Named(PythonNames, ".", "uv")
GoTool(name) ==
  IF name \in {"gofmt", "golangci_lint", "vulncheck"}
  THEN [gofmt |-> "gofmt-check", golangci_lint |-> "golangci-lint", vulncheck |-> "govulncheck"][name]
  ELSE "go"
ModulePlan(d) == [i \in DOMAIN GolangNames |-> Command(GolangNames[i], d, GoTool(GolangNames[i]), GolangNames[i])]
GolangPlan(repo) ==
  LET roots == SetToSeq(OrRoot(ModuleRoots(repo)))
  IN FlattenSeq([i \in DOMAIN roots |-> ModulePlan(roots[i])])

Install(repo, d, manager) ==
  Command("install", d, manager,
    IF manager = "npm" THEN "ci"
    ELSE IF manager = "yarn" /\ PackageJson(repo, d).manager # "yarn@1" THEN "install --immutable"
    ELSE "install --frozen-lockfile")
Scripts(repo, d) == Those(ScriptNames, PackageJson(repo, d).scripts)
Smoke(repo, d)   == Those(<<"smoke:check", "test:smoke", "smoke">>, PackageJson(repo, d).scripts)
UsesBiome(repo, d) ==
  Exists(repo, d, {"biome.json", "biome.jsonc"}) \/ "biome" \in PackageJson(repo, d).uses

ProjectPlan(repo, d, manager, installs) ==
  IF manager = "deno" THEN Named(DenoNames, d, "deno")
  ELSE (IF installs THEN <<Install(repo, d, manager)>> ELSE <<>>)
    \o (IF UsesBiome(repo, d) THEN <<Command("biome", d, "npx", "biome check")>> ELSE <<>>)
    \o Named(Scripts(repo, d), d, manager)
    \o (IF "framework" \in PackageJson(repo, d).uses /\ Smoke(repo, d) # <<>>
        THEN <<Command("framework_smoke", d, manager, Head(Smoke(repo, d)))>> ELSE <<>>)

\* A project below the root without a manager of its own has the root's.
TypescriptPlan(repo) ==
  LET roots == SetToSeq(OrRoot(ProjectRoots(repo)))
      plan(d) == ProjectPlan(repo, d,
                   PackageManager(repo, IF d = "." \/ HasOwnManager(repo, d) THEN d ELSE "."),
                   d = "." \/ (HasOwnManager(repo, d) /\ ~PackageJson(repo, ".").workspaces))
  IN FlattenSeq([i \in DOMAIN roots |-> plan(roots[i])])

LanguagePlan(repo, s) ==
  IF s = "typescript" THEN TypescriptPlan(repo)
  ELSE IF s = "rust" THEN RustPlan
  ELSE IF s = "golang" THEN GolangPlan(repo)
  ELSE IF s = "python" THEN PythonPlan ELSE <<>>
StrictPlan(repo, stack) ==
  IF stack = "mixed"
  THEN FlattenSeq([i \in DOMAIN Detected(repo) |-> LanguagePlan(repo, Detected(repo)[i])])
  ELSE LanguagePlan(repo, stack)

\* The profiles match full names: a command of a directory below the root has
\* the directory in its name, and matches none of these.
Drops == [rust |-> {"deny", "machete"}, golang |-> {"golangci_lint", "vulncheck"},
          python |-> {"audit", "deps"}, typescript |-> {}, mixed |-> {}, unknown |-> {}]
Keeps == [rust |-> {"fmt", "nextest"}, golang |-> {"gofmt", "test"}, python |-> {"format", "lint", "test"},
          typescript |-> {"install", "lint", "test", "build"}]
Passes(c, stack, profile) ==
  CASE profile = "standard" -> ~(c.dir = "." /\ c.name \in Drops[stack])
    [] profile = "minimal"  -> stack = "mixed" \/ (c.dir = "." /\ c.name \in Keeps[stack])
    [] OTHER -> TRUE
Renamed(c, stack, profile) ==
  IF stack = "rust" /\ profile # "strict" /\ c.name = "nextest"
  THEN [c EXCEPT !.name = "test", !.does = "test"] ELSE c
QualityPlan(repo, stack, profile) ==
  LET strict == StrictPlan(repo, stack)
      kept == Those(strict, {c \in ToSet(strict) : Passes(c, stack, profile)})
  IN [i \in DOMAIN kept |-> Renamed(kept[i], stack, profile)]

-----------------------------------------------------------------------------
\* The migration into typed gates: language_quality_command_gates

\* infer_language_domain_from_command: the first language of which a word
\* stands in the name or the command, the directory included.
ToolWords == [rust |-> {"cargo", "rust"}, golang |-> {"go", "gofmt-check", "golangci-lint", "gofmt", "golangci"},
              python |-> {"uv", "ruff", "pytest", "pyright"},
              typescript |-> {"bun", "npm", "pnpm", "yarn", "deno", "npx"}]
Inferred(c) ==
  LET said == {c.tool} \cup Words[c.dir]
      speaks(s) == said \cap ToolWords[s] # {}
  IN IF speaks("rust") THEN "rust"
     ELSE IF speaks("golang") THEN "golang"
     ELSE IF speaks("python") THEN "python"
     ELSE IF speaks("typescript") THEN "typescript" ELSE "none"
LanguageOf(stack, c) == IF stack = "mixed" THEN Inferred(c) ELSE stack

NetworkRequired(c) == c.name \in {"install", "sync"}

\* A gate with a command `runs`; one that needs the network, a credential or
\* an opt-in is `opt`; `at` is the place in the plan of the command that it was
\* migrated from, or 0.
LanguageDomain == [rust |-> "language.rust", golang |-> "language.golang",
                   python |-> "language.python", typescript |-> "language.typescript"]
LanguageDomains == {LanguageDomain[s] : s \in Languages}
LanguageGate(s, c, place) ==
  [domain |-> LanguageDomain[s], name |-> c.name, dir |-> c.dir, runs |-> TRUE,
   opt |-> NetworkRequired(c), at |-> place]
Known(stack, plan) == {k \in DOMAIN plan : stack # "unknown" /\ LanguageOf(stack, plan[k]) # "none"}
\* Mutant: one gate for a name, of whatever directory.
LanguageGatesByName(stack, plan) ==
  LET first(n) == CHOOSE k \in Known(stack, plan) : plan[k].name = n
      firsts == {first(plan[k].name) : k \in Known(stack, plan)}
  IN {LanguageGate(LanguageOf(stack, plan[k]), plan[k], k) : k \in firsts}
LanguageGates(stack, plan) ==
  {LanguageGate(LanguageOf(stack, plan[k]), plan[k], k) : k \in Known(stack, plan)}

\* compose_typed_domain_quality_plan: the contract of a stack is dropped, of
\* whatever language, once there are gates of any.
TypedGates(stack, plan, domainGates) ==
  IF LanguageGates(stack, plan) = {} THEN domainGates
  ELSE {g \in domainGates : g.runs \/ g.domain \notin LanguageDomains} \cup LanguageGates(stack, plan)

-----------------------------------------------------------------------------
\* missing_prerequisites_for_profile

NodePinned(repo, d) ==
  \/ Exists(repo, d, {".nvmrc", ".node-version"})
  \/ Mentions(repo, d, "mise.toml", {"node"})
  \/ PackageJson(repo, d).node
DenoOnly(repo, d) ==
  Exists(repo, d, {"deno.json", "deno.jsonc", "deno.lock"}) /\ ~Exists(repo, d, {"package.json"})
Needs(what, d) == [what |-> what, dir |-> d]

MissingTypescript(repo) ==
  LET projects == {d \in OrRoot(ProjectRoots(repo)) : ~DenoOnly(repo, d)} IN
  {Needs("node version", d) : d \in {p \in projects : ~NodePinned(repo, p) /\ ~NodePinned(repo, ".")}}
  \cup {Needs("lockfile", d) : d \in {p \in projects :
                                 ~Exists(repo, p, Lockfiles \cup {"npm-shrinkwrap.json"})}}

\* Required modules without a local replacement of that version, or of any.
HasExternal(mod) ==
  \E q \in mod.requires :
    ~ \E r \in mod.replaces : r.module = q.module /\ r.version \in {"any", q.version}
GolangciPinned(repo) ==
  \E d \in ModuleRoots(repo) \cup {"."} :
    \/ Exists(repo, d, {".golangci.yml", ".golangci.yaml"})
    \/ \E n \in {"mise.toml", ".tool-versions", "agentactr.toml", "tools.go", "go.mod", "Makefile",
                 "Taskfile.yml", "Taskfile.yaml", "justfile", "magefile.go",
                 "scripts/install-golangci-lint.sh", "scripts/tools.sh"} :
         Mentions(repo, d, n, {"golangci-lint"})
MissingGolang(repo) ==
  LET modules == ModuleRoots(repo) IN
  (IF modules = {} THEN {Needs("go.mod", ".")} ELSE {})
  \cup {Needs("go version", d) : d \in {m \in modules :
         /\ ~repo.mod[m].version
         /\ ~Mentions(repo, ".", ".tool-versions", {"go"}) /\ ~Mentions(repo, ".", "mise.toml", {"go"})}}
  \cup {Needs("go.sum", d) : d \in {m \in modules :
         HasExternal(repo.mod[m]) /\ ~Exists(repo, m, {"go.sum"})}}
  \cup (IF GolangciPinned(repo) THEN {} ELSE {Needs("golangci-lint", ".")})

PythonPinned(repo) ==
  \/ Exists(repo, ".", {".python-version", "runtime.txt"})
  \/ Mentions(repo, ".", "pyproject.toml", {"requires-python", "python-preference"})
  \/ \E n \in {"mise.toml", ".tool-versions", "uv.toml"} : Mentions(repo, ".", n, {"python"})
MissingOf(repo, s) ==
  CASE s = "typescript" -> MissingTypescript(repo)
    [] s = "rust"   -> IF Exists(repo, ".", {"Cargo.lock"}) THEN {} ELSE {Needs("Cargo.lock", ".")}
    [] s = "golang" -> MissingGolang(repo)
    [] s = "python" -> (IF Exists(repo, ".", {"uv.lock"}) THEN {} ELSE {Needs("uv.lock", ".")})
                       \cup (IF PythonPinned(repo) THEN {} ELSE {Needs("python version", ".")})
    [] OTHER -> {Needs("stack", ".")}

\* The strict profile looks at the members of a mixed repository; the others
\* only ask for a stack.  What is missing in an empty repository is a stack.
MissingPrerequisites(repo, stack, profile) ==
  IF IsEmpty(repo) THEN {}
  ELSE IF stack = "mixed" /\ Active(repo) = {} THEN {Needs("member stacks", ".")}
  ELSE IF stack = "unknown" THEN {Needs("stack", ".")}
  ELSE IF profile # "strict" THEN {}
  ELSE UNION {MissingOf(repo, s) : s \in IF stack = "mixed" THEN Active(repo) ELSE {stack}}
=============================================================================
