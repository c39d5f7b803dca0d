---------------------------- MODULE QualityGates ----------------------------
(***************************************************************************)
(* The quality gates of a run: the inspection of a repository under the    *)
(* configuration, the order of its gates, and their execution one by one   *)
(* in the worktree with a timeout, to a report and its status file.        *)
(* The commands that gates run are the environment: they pass, fail, run   *)
(* for ever, and leave processes behind that hold their output.            *)
(***************************************************************************)
EXTENDS Domains

CONSTANT Alphabet   \* the names of domains, gates and directories in their order

ASSUME AlphabetAssumption ==
  /\ Alphabet \in Seq(STRING)
  /\ Dirs \cup CommandNames \cup GateNames \cup LanguageDomains \cup GateDomains \subseteq ToSet(Alphabet)

VARIABLES
  tree,      \* the repository as it is in the worktree
  steps,     \* what the report goes through: a sequence of gates
  opted,     \* the opt-ins of the configuration
  results,   \* the results of the gates gone through
  command,   \* the command of the gate at hand
  held,      \* something left behind holds the command's output
  status,    \* quality_report.status.json
  returned   \* what run_quality_gates_to_report returned

gateVars == <<steps, opted, results, command, held, status, returned>>

-----------------------------------------------------------------------------
\* Inspections: discover_repository_with_config, apply_declared_stack

\* `known` is what is certain of the repository: its stack was declared.
Inspection(r, stack, confidence, known, s) ==
  LET plan == QualityPlan(r, stack, s.profile) IN
  [stack |-> stack, confidence |-> confidence, empty |-> IsEmpty(r), git |-> r.git,
   missing |-> MissingPrerequisites(r, stack, s.profile) \cup If(IsEmpty(r) /\ ~known, {Needs("stack", ".")}),
   plan |-> plan, gates |-> TypedGates(stack, plan, DomainGates(r, s.qdomains))]
Declare(r, stack, s) == Inspection(r, stack, 100, TRUE, s)

\* declared_stack_from_config is lenient in the case and knows no short names;
\* declared_primary_stack is strict and knows some, and mixed.
DiscoveredAs == [typescript |-> "typescript", Rust |-> "rust", rust |-> "rust", golang |-> "golang",
                 go |-> "golang", python |-> "python"]
DeclaredAs == [typescript |-> "typescript", ts |-> "typescript", rust |-> "rust", golang |-> "golang",
               go |-> "golang", python |-> "python", mixed |-> "mixed"]
Choice(stack, confidence, known) == [stack |-> stack, confidence |-> confidence, known |-> known]
Discovered(r, s) ==
  IF s.declared \in DOMAIN DiscoveredAs THEN Choice(DiscoveredAs[s.declared], 100, TRUE)
  ELSE Choice(SelectStack(r).stack, SelectStack(r).confidence, FALSE)
Chosen(r, s) ==
  IF s.declared \in DOMAIN DeclaredAs THEN Choice(DeclaredAs[s.declared], 100, TRUE) ELSE Discovered(r, s)
Inspected(r, c, s) == Inspection(r, c.stack, c.confidence, c.known, s)
Configured(r, s) == Inspected(r, Chosen(r, s), s)

\* The gates are sorted by domain and name, and those of one name stay as they
\* are: first the domain's own, then the plan's.
Rank == [name \in ToSet(Alphabet) |-> CHOOSE i \in DOMAIN Alphabet : Alphabet[i] = name]
Before(a, b) ==
  \/ Rank[a.domain] < Rank[b.domain]
  \/ a.domain = b.domain /\ Rank[a.name] < Rank[b.name]
  \/ a.domain = b.domain /\ a.name = b.name /\ Rank[a.dir] < Rank[b.dir]
  \/ a.domain = b.domain /\ a.name = b.name /\ a.dir = b.dir /\ a.at < b.at
Sorted(gates) ==
  [k \in 1..Cardinality(gates) |->
     CHOOSE g \in gates : Cardinality({h \in gates : Before(h, g)}) = k - 1]

\* The commands of the plan are run as they are only when no typed gate of a
\* language runs, and then whatever they need.
Migrated(i) == i.plan # <<>> /\ \E g \in i.gates : g.domain \in LanguageDomains /\ g.runs
Legacy(c, place) ==
  [domain |-> "plan", name |-> c.name, dir |-> c.dir, runs |-> TRUE, opt |-> FALSE, at |-> place]
StepsOf(i) ==
  (IF Migrated(i) THEN <<>> ELSE [k \in DOMAIN i.plan |-> Legacy(i.plan[k], k)]) \o Sorted(i.gates)

-----------------------------------------------------------------------------
\* run_quality_gates_to_report

Idle == command = "none" /\ returned = "none"
Current == steps[Len(results) + 1]
AtGate == Idle /\ Len(results) < Len(steps)

Open(gates, optIns) ==
  /\ steps' = gates
  /\ opted' = optIns
  /\ results' = <<>>
  /\ command' = "none"
  /\ held' = FALSE
  /\ status' = "none"
  /\ returned' = "none"
Return(verdict) ==
  /\ status' = verdict
  /\ returned' = verdict
Fails == Return("failed")
Goes == UNCHANGED <<status, returned>>
Keep == UNCHANGED <<steps, opted>>

EnabledByConfig(g) == \E o \in opted : o.domain \in {"*", g.domain} /\ o.name \in {"*", g.name}
Skipped(g) == g.opt /\ ~EnabledByConfig(g)

\* Checks of Go that agentactr makes itself.
Logical(g) == g.name \in {"gofmt", "tidy_check"} /\ g.domain \in {"language.golang", "plan"}
Scope(g) == {f \in tree.files : g.dir = "." \/ f[1] = g.dir}
NoScope(g) == Logical(g) /\ Scope(g) = {} /\ g.dir # "."
NothingToCheck(g) == g.name = "gofmt" /\ Logical(g) /\ {f \in Scope(g) : f[2] \in Sources.golang} = {}
NoModule(g) == g.name = "tidy_check" /\ Logical(g) /\ <<g.dir, "go.mod">> \notin tree.files

EmptyPlan ==
  /\ Idle
  /\ steps = <<>>
  /\ Fails
  /\ UNCHANGED <<steps, opted, results, command, held>>

Find ==
  /\ AtGate
  /\ ~Current.runs
  /\ results' = Append(results, "finding")
  /\ Goes /\ Keep
  /\ UNCHANGED <<command, held>>

Skip ==
  /\ AtGate
  /\ Current.runs
  /\ Skipped(Current)
  /\ results' = Append(results, "skipped")
  /\ Goes /\ Keep
  /\ UNCHANGED <<command, held>>

Runnable == AtGate /\ Current.runs /\ ~Skipped(Current)

Check ==   \* nothing has to be started
  /\ Runnable
  /\ \/ NoScope(Current) /\ results' = Append(results, "bad") /\ Fails
     \/ ~NoScope(Current) /\ NothingToCheck(Current) /\ results' = Append(results, "ok") /\ Goes
     \/ ~NoScope(Current) /\ NoModule(Current) /\ results' = Append(results, "bad") /\ Fails
  /\ Keep
  /\ UNCHANGED <<command, held>>

Starts == Runnable /\ ~NoScope(Current) /\ ~NothingToCheck(Current) /\ ~NoModule(Current)
StartCommand ==
  /\ Starts
  /\ command' = "running"
  /\ Goes /\ Keep
  /\ UNCHANGED <<results, held>>

CannotStart ==
  /\ Starts
  /\ results' = Append(results, "bad")
  /\ Fails
  /\ Keep
  /\ UNCHANGED <<command, held>>

\* The command ends by itself; what it started may go on and hold its output.
Exit ==
  /\ command = "running"
  /\ command' \in {"ok", "bad"}
  /\ held' \in BOOLEAN
  /\ Goes /\ Keep
  /\ UNCHANGED results

\* terminate_child reaches the whole process group, and nothing outside it.
\* Mutant: the deadline is looked at and not enforced.
TimeoutUnenforced == command = "running" /\ UNCHANGED gateVars
Timeout ==
  /\ command = "running"
  /\ command' = "bad"
  /\ held' \in BOOLEAN
  /\ Goes /\ Keep
  /\ UNCHANGED results

Released ==
  /\ held
  /\ held' = FALSE
  /\ Goes /\ Keep
  /\ UNCHANGED <<results, command>>

\* Both readers are joined; then the result counts.
Join ==
  /\ command \in {"ok", "bad"}
  /\ ~held
  /\ results' = Append(results, command)
  /\ command' = "none"
  /\ IF command = "ok" THEN Goes ELSE Fails
  /\ Keep
  /\ UNCHANGED held

\* The report or the status cannot be written: no status is left behind.
CannotWrite ==
  /\ Idle
  /\ steps # <<>>
  /\ returned' = "failed"
  /\ Keep
  /\ UNCHANGED <<results, command, held, status>>

Pass ==
  /\ Idle
  /\ steps # <<>>
  /\ Len(results) = Len(steps)
  /\ Return("passed")
  /\ Keep
  /\ UNCHANGED <<results, command, held>>

GateStep == \/ EmptyPlan \/ Find \/ Skip \/ Check \/ StartCommand \/ CannotStart
            \/ Exit \/ Timeout \/ Released \/ Join \/ CannotWrite \/ Pass

\* What is done without waiting for anything but the timeout.
Progress == EmptyPlan \/ Find \/ Skip \/ Check \/ StartCommand \/ Join \/ Pass
=============================================================================
