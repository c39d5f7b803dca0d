# A TLA+ model of agentactr

`agentactr` runs coding agents on GitHub issues. The command `run issue` settles
what it is to do (configuration, the repository's stack, the quality plan), takes
a lease on the issue, prepares a worktree and memory groups, claims the issue on
GitHub, starts a plan of agent processes under a memory governor, runs the quality
gates and records and publishes the outcome; `finalize` lets a person decide on a
run that waits for review, `vcs` and `merge` take its changes out of the
worktree, and `issue` turns drafts into GitHub issues. This directory holds TLA+
models of the parts of that program whose correctness depends on order, time,
failure or arithmetic, TLC configurations that check them on small instances, and
proofs, checked by TLAPS, of the properties that matter most.

Paths are relative to the repository's root; the crates are under
`crates/` (in `PROJECT.json` with the prefix `src/`).

## 1. Inventory

What each part of the system keeps, does and depends on, and what makes it
correct. Parts in bold have a model.

| part | state | operations | what is hard | what makes it correct |
|---|---|---|---|---|
| **local run store and lease** (`agentactr-cli/src/main.rs`: `record_run_state`, `LocalLeaseHeartbeat`, `refresh_local_lease`) | SQLite tables `runs`, `local_leases`; a heartbeat thread per run | admit, record a status, sweep, renew, release | several processes share the store; heartbeats race expiry and sweeps; crashes | one working run per issue and machine; no live lease is taken; nothing but an admission makes a lease live |
| **GitHub issue lifecycle** (`agentactr-cli/src/adapters.rs`: `claim`, `release`, `upsert_lifecycle_comment`, `apply_issue_labels`; `agentactr-sdk/src/use_cases.rs`) | the remote issue: state, labels, marker and summary comments | claim, release in each mode, finalize | every request is a step of its own, and other machines, people and retries interleave with it | claims overlap only by a race nobody saw; nobody closes an unreviewed issue; records match the issue; retries do not duplicate |
| **run pipeline and its records** (`main.rs`: `cmd_run`, `run_phase_inner`, `record_phase`, `cmd_finalize`; use case `run_issue`) | trace events, `runs.status`, `finalization_status.json`, `quality_report.status.json`, `context_manifest.json` | the six phases, the report of success or failure, finalize | records are separate writes: a crash or a refused write falls between any two | what is offered for review is clean; the row follows the file; decisions stand; traced failures are recorded |
| **spawn manager** (`agentactr-core/src/spawn.rs`) | a budget snapshot and the plan under construction | decide on a candidate, spawn it | limits at the ends of `u32` and `u64`; the order of candidates | children and tokens are capped; one writer; no helper under pressure |
| **memory pressure governor** (`resource_governor.rs`, `linux_memory.rs`: the sampling) | cgroup counters, the previous sample, the governor's state and counts | sample, compare, observe, choose a victim | pressure that comes and goes; files that cannot be read; kills before the first sample | pauses and releases are earned; an out-of-memory kill is never missed; the victim does not depend on listing order |
| **agent runtime supervision** (`agentactr-codex/src/lib.rs`: `run_issue_request`, `run_child_agents`, `run_codex_exec`, `RuntimeProcessLifecycle`; `linux_memory.rs`: the monitor thread and the active registry; the kill helpers of the adapters) | a thread, a process group and a monitor per agent; process events | spawn, join, wait, time out, kill, cancel | threads, monitors, processes and signals race; any event may fail to be written | the writer runs alone; success is accounted for; nothing is left running; the runtime returns |
| **issue submission and its ledger** (`agentactr-cli/src/issue_commands.rs`, `issue_submission.rs` of `agentactr-core` and `agentactr-sdk`, `create_issue`, `recover_created_issue_by_marker`, `link_issue` of the adapter) | a drafted proposal, a table `issue_submission_ledger`, the issues with their markers | draft, mark, submit, resume | a crash or a lost answer between request and record; two submits at once; records without a condition | one issue per proposal; the ledger claims no more than GitHub shows; nothing incomplete is linked |
| **memory groups and attribution** (`linux_memory.rs`, `memory_attribution.rs`, `process.rs`) | cgroups of the run and its agents with their limits; the tree of an agent's processes; the monitor's sample | prepare, limit, attach, walk the tree, attribute | the process is put into its group after it was spawned, and forks meanwhile; the tree changes while it is walked | a strict claim is true; what forks away is brought in; a reviewed run was confined |
| **quality gates** (`agentactr-cli/src/quality_command.rs`) | the results of the gates, `quality_report.status.json` | go through the gates, time out, run again | a plan made in one tree and run in another; output held open; gates that are opted out | passed means that every gate that must run did; a verdict comes; a rerun runs the same |
| **version control adapter** (`vcs_adapter.rs`, `vcs_commands.rs`, `artifacts.rs`) | worktrees and branches; patch, metadata and merge plan of each run | prepare a worktree, record a diff, check, apply, plan a merge | the worktree, the base ref and the source move between the reads of one command; commands overlap and die | metadata describe the patch; a candidate applies; what is applied is fresh |
| **GitHub transport** (`agentactr-cli/src/adapters.rs`: `github_json_request`, `github_retry_decision`; the paged lists; labels and projects around `create_issue`) | attempts, the rate-limit artifacts; what a list has read; what GitHub has of labels, projects and fields | request, retry, give up; read page by page; look for and make | faults after the effect, lost and late answers; lists that change between pages; two submits that make what neither saw | a request takes effect at most once and ends; a list is whole; what is recorded as created is whole |
| **configuration** (`agentactr-core/src/config.rs`, `domain.rs`, `main.rs`: the run's policy) | none | merge the layers, validate, name the source | precedence; settings of a wrong type | the layer that is named decides |
| **repository discovery and domains** (`agentactr-sdk/src/discovery.rs`, `domains.rs`) | none | detect the stack, plan the gates, detect domains, read `.proto` files, draw the graph | several languages; what a project declares against what is there | the declared stack wins; the graph has no loose ends; the reader of `.proto` files counts what a legible file declares |
| **execution backend** (`agentactr-execution/src/lib.rs`) | none | choose host or container, check the image | | (a part of the preparation) |
| setup, bootstrap and rendering; inspection commands | none, or files written once | text | nothing concurrent | unit tests reach them |

How they interact. `cmd_run` is one process: it reads arguments, configuration and
repository, decides what the stack is and which gates there will be (it asks the
tracker when the repository does not tell), admits itself in the run store
(transaction), starts the heartbeat thread, and then goes through the phases in
one thread. The phase `memory` makes the run's cgroups, `worktree` its workspace,
`quality` carries out the plan of gates in it. The phase `codex_exec` calls the
runtime, which asks the spawn manager for a plan (a pure call) and starts a thread
and a process per child; each process has a monitor thread that brings its
descendants into its cgroup and feeds the governor, and monitors share the active
registry, through which one can cancel the helper of another. The claim and the
reports go to GitHub, where they meet the requests of other machines and of
people. Each phase leaves trace events and each outcome a file and a row;
`finalize`, a later process, reads the file, drives GitHub and writes file and row
again. Nothing locks `finalize` against the run or against another `finalize`. The
`issue` commands are processes of their own, which share the proposals' file and
the ledger with each other, and GitHub with everybody; so are `vcs` and `merge`,
which share the worktrees with the agents and the source checkout with people.
Every request to GitHub, of a lifecycle or of a submission, goes through the
transport.

## 2. The modules

| module | models | proofs | instance |
|---|---|---|---|
| `IssueLease` | the abstract lease: grants, renewals, lapses, give-ups | | through `LocalLease` |
| `LocalLease` | run store, heartbeat, `cmd_run` and `cmd_finalize` as they reach it | `LocalLeaseProofs` | `MCLocalLease` |
| `IssueLifecycle` | the issue on GitHub and every request of claim and release | `IssueLifecycleProofs` | `MCIssueLifecycle` |
| `RunIssue` | phases and records of one run, and its `finalize` commands | `ConfinedRunProofs` | through `ConfinedRun` |
| `MemoryGroups` | cgroups, process trees and the monitor's walk | | through `ConfinedRun` |
| `ConfinedRun` | the composition of `RunIssue` and `MemoryGroups` | `ConfinedRunProofs` | `MCConfinedRun` |
| `SpawnManager` | `SpawnManager::plan` and `decide` | `HelperProofs` | `MCHelpers` |
| `MemoryGovernor` | one monitor's sampling and its `RunResourceGovernor` | `HelperProofs` | `MCHelpers` |
| `RuntimeSupervision` | the threads, processes, monitors and events of the runtime | `RuntimeSupervisionProofs` | `MCRuntimeSupervision` |
| `IssueSubmission` | `issue draft`, `mark` and `submit` of one proposal, and its ledger | `IssueSubmissionProofs` | `MCIssueSubmission` |
| `GithubExchange` | the abstract exchange: what a caller may rely on of one request | | through `GithubTransport` |
| `GithubTransport` | attempts, refusals, losses and late effects of a run's requests | `IssueSubmissionProofs` | `MCGithubTransport` |
| `GithubListing` | lists read page by page | `IssueSubmissionProofs` | `MCIssueSubmission` |
| `GithubProvisioning` | labels, projects and fields around a new issue | `IssueSubmissionProofs` | `MCIssueSubmission` |
| `Workspaces` | worktrees, patches, merge plans, and the commands on them | `WorkspacesProofs` | `MCWorkspaces` |
| `Discovery`, `Domains` | what is concluded from a repository's files (operators) | `RunPreparationProofs` | through `RunPreparation` |
| `Configuration` | layers, validation, policy, backend (operators) | | through `RunPreparation` |
| `QualityGates` | the plan of gates and its execution | `RunPreparationProofs` | through `RunPreparation` |
| `RunPreparation` | `run issue` from its arguments to the gates, and `quality run` | `RunPreparationProofs` | `MCRunPreparation` |

`PROJECT.json` maps each definition to the lines it models. Definitions preceded
by a comment `Mutant:` are deliberately wrong variants of a definition beside
them; no behaviour uses them, and they serve to show that the properties notice
such a mistake.

### LocalLease

`lease` is table `local_leases` (a row per issue), `runs` the ids in table
`runs`. A process goes `idle`, `named` (it has its run id), `leased`
(the transaction of `record_run_state` committed), `working` (the heartbeat
runs), `done`, `ended`, or is `refused`. `Admit` and `Refuse` are the two
outcomes of the transaction, sweep of elapsed rows and upsert included; a store
that fails is a `Refuse` too, since it rolls back. `RecordStatus` is any later
`record_run_state`. The heartbeat is two steps, `HeartbeatWakes`, where the
code reads the clock, and `HeartbeatRefreshes`, where its UPDATE is executed:
everything may happen in between. `Crash` leaves what was committed. Instants
are abstract; `Tick` may not overtake a lease step of a live process by more
than `MaxDelay`, which is what "the heartbeat is timely" means here, and a
`MaxDelay` beyond `MaxTime` takes that assumption away.

`IssueLease` says what the table promises without clock, rows and heartbeats.
`LocalLease!Abstract` maps to it: the holder is the run of the row that is
active and has not elapsed, and `open` is whether a renewal would still match.

### IssueLifecycle

Each HTTP request is an action: `FetchForClaim`, `ScanMarkers`, `PostMarker`,
`AddClaimLabels`, `RereadIssue`, `RecheckMarker` for a claim, and
`ListSummaries`, `PostSummary`, `AddLabels`, `RemoveLabel`, `CheckGone`,
`Settle`, `Confirm` for a release, which ends in `RecordStatus` of its caller.
`Abort` is a failed request, a lost answer or a crash: the effect of the request
may or may not have taken place, and the actor is gone. `StartFinalize` has the
admission checks of the use case, `--resume` included. `Edit` is a person who
closes, reopens or relabels the issue. A label is a member of a set, a comment is
its marker's expiry or a count per run and mode.

### RunIssue

`at` and `step` are the place of `cmd_run`: the phases `memory`, `worktree`,
`github_fetch`, `codex_preflight`, `codex_exec`, `quality`, each with `begin`,
`body`, `complete`, and on failure `record` and `report`; then the report of
success (`lifecycle`) or failure (`failure`), each with the tracker's mutation,
the file and the row as steps of their own. `PhaseStoreFails`, `FileFails` and
`RowFails` are refused writes, and `Crash` may happen anywhere; a file that is
being written when the process dies is `torn`, because it is truncated first. A
command goes from `idle`, where it reads the file and checks it (`Permits`), through
the same three writes. `Overlap` says whether commands may start while
the run or another command is under way.

### SpawnManager

`Decide` is one iteration of the loop of `plan`: `Failed` collects the reasons
of `decide`, `Reason` picks the one it returns, `Spawn` applies `Spent` to the
budget. Sums saturate at `MaxCount` and `MaxTokens`, the widths of the code in the
proofs and small ones in the runs. `default_spawn_plan` is `plan` on the
helpers that its callers list.

### MemoryGovernor

`Count` is the kernel counting an event, `Sample` one iteration of the monitor:
it reads all of the cgroup's files, all but `memory.pressure`, or none, compares
with the sample before, classifies (`Kind`), lets the governor `Observe`, and
picks a `Victim` among the helpers the registry lists. `history` is a history
variable: the kind of each sample. The counters of the governor saturate at
`MaxCount`.

### RuntimeSupervision

`Main` is `run_issue_request` with `run_child_agents`: it spawns a thread per
helper, joins them in order, then runs the writer. `Thread(p)` is `run_codex_exec`
from launch to the joined output streams, one action per call that can fail or
be interleaved. `Sample(p)` is a decision of a monitor, which chooses freely
here whether to fail its process, kill it or cancel a helper; when it may is the
subject of `MemoryGovernor`. `Exit` is a process that ends by itself, and may
leave others behind in its group (`Leftovers`): silent ones, or ones that hold
its output open. Killing a group is one step, its two grace periods included.
`refused` and `losing` are chosen once per run: which children the plan makes
unacceptable, and of which processes events can fail to be written;
`MayLeave` bounds who leaves something behind.

### IssueSubmission

One proposal, from `issue draft` to the sub-issue. `proposal` is its entry in
`issue_proposals.json` with the mode of its set, `ledger` the table's rows of
this proposal, keyed by digest, `github` the issues that carry a marker. Each
`submit[s]` is an execution of `issue submit`, with what it has read: `Start`
reads the proposal, `Fetch` (local sets) the candidates, `Plan` the row, `Begin`
is the transaction that compares and writes, `Create`, `Search` and `Link` are
requests, and the `Record...` actions are the single UPDATEs. `Stop` is an error
between any two of them, or a crash; a request may have its effect and
lose its answer. `Mark` is `issue mark`. It changes the digest of a local
proposal, because provenance is a part of it and a local set's digest is computed
at the submit; digests are therefore numbered by the marks before them, and
`MaxMarks` bounds them.

Assumed of what is outside: an answer of GitHub has number and id; the search
may miss an issue but shows no other; nobody edits the requested metadata or
the marker of an issue. The state `failed` and an answer that does not link
(`linked: false`) exist as types, but no code produces them. All submits name
the same target repository.

### MemoryGroups and ConfinedRun

`done` is what has been made below the cgroup root, a group or a value written
to it, step by step (`RunSteps`, `AgentSteps`): a preparation that is refused or
fails leaves what came before. `context` tells whether limits are enforced or
only observed, `leases` which agents the runtime has a group for. One agent is
followed, whichever it is: `alive`, `parent` and `cgroup` are its tree of
processes, which fork, exit and are orphaned at any time. `Launch` spawns the
root outside, `Attach` puts it, and only it, into the group and starts the
monitor. A sample is `StartSample`, a `ReadChildren` per listed process, a
`Check` per process (two steps in the code: read its group, write it), and
`EndSample`; `Stopped` waits for the sample that is under way. `AttributionOf`
and `Validate` are the claim that `MemoryAttributionPolicy` makes of it.

`ConfinedRun` joins them with the run: the body of phase `memory` is
`PrepareRun`, the children's groups are made between the phases and the claim
(`PrepareAgents`), the body of `codex_exec` is the life of the agent
(`AgentsRun`, `AgentsEnd`), `Dies` kills both. Everything else of `RunIssue`
happens `Elsewhere`. Every step of the composition is a step of `RunIssue` or
leaves it alone, which is proved, so that what is proved of `RunIssue` holds here.

### GithubTransport and GithubExchange

One run's requests, one after the other. `pc` is the client between `idle`,
`sending`, `waiting` for an answer and `answered`; `wire` holds the attempts under
way. `RetryDecision` is `github_retry_decision` with its order: status,
`retry-after`, remaining quota, reset, secondary limit, and a backoff that
doubles. `Retry` sleeps and sends again, `GiveUp` is the last attempt or a wait
longer than `MaxWait`, `Finish` any other answer, `SendFails` a `?` after
`send()`. A request is tried again only when it says so (`retries`): the raw requests
try once. GitHub is external: `Perform` has the effect and may answer with a
fault, `Turned` refuses, `Lose` loses either way; all three also happen
to an attempt whose client has given up.

`GithubExchange` is what the other modules take for granted of one request: it
takes effect at most once, `done` means that it has, and it ends; an effect may
come after the answer was given up. `ImplementsExchange` is the refinement.

### GithubListing

`shelf` is what GitHub lists, in its order, `page` and `got` the reader's place and
what it has. `ReadComments` is `list_issue_comments`, `ReadCandidates`
`fetch_issue_candidates` with its filter of pull requests, its limit and the
search that may be incomplete; `reader` says whether one is under way. What is left of a
list that is filtered, by GitHub's selection or by the code, is `Kept`: the items in
their order, each at the place that counts those up to it. Between two pages people `Add`, `Delete` and
`Touch`. `steady` is a history variable: the items that have been in their place
or behind it since the reading began, so that no reader of pages could miss
them.

### GithubProvisioning

What `create_issue` does around its POST, for several submitters that share a
repository and a project: `GetLabel` and `PostLabel`, `PostIssue`, `FindProject`
and `CreateProject` (a search shows the first `Shown` projects), `CreateField`,
`AddItem`, `SetValue`, and `Compare`, which is `metadata_mismatches`. Any request
may be `Refused`, or have its effect and be `Unheard`. `People` delete labels and make
projects and fields. `IssueSubmission` takes all of this as one step, whose result
is whole or not; this module says when it is whole.

### Workspaces

`src` is the source checkout (its ref, whether it is changed, whose run file it
holds), `wt` each run's worktree, from `ResolveBase` through `EnsureClean`,
`AddWorktree` and the overlay of configuration to `ready`. Contents are versions:
an edit makes the next one. `patch`, `meta` and `plan` are the three
artifacts of a run. A `job` is one execution of `vcs diff`, `check`, `apply` or `merge
plan`; its steps are the git calls and the writes of the code: `ReadTracked`,
`ReadUntracked`, `WritePatch`, `WriteMetadata`, `AppendEvent`,
`EnsureSourceClean`, `Applies` or `Conflicts`, `ReadHeads`, `WritePlan`, and `Dies`
between any two. The agent edits and moves `HEAD`, people edit, commit and
restore. `blurred` is a history variable: runs on which commands overlapped or
were cut short. What `git apply` makes of a patch is left open where it
depends on text, and settled where it does not: a patch made against exactly
this clean source applies, an empty one or one that adds a file that is there
does not.

### Discovery, Domains, Configuration

Operators without state, translated function by function: `SelectStack`, the plan
of quality commands of each language and profile (`QualityPlan`), the typed gates
they become (`TypedGates`), missing prerequisites; domains that are detected,
declared or disabled (`ComposeProfiles`, `MatchesSelection`), their gates and
findings, the reader of `.proto` files (`Parse`, line by line: a line is what it begins with and
says, which the code looks at, and what it declares, which it does not), the graph (`DomainGraph`); the
layers of the configuration (`Load`, `Valid`, `Policy`, `PolicySource`), backend and
image. A file is its directory and name; of its text the model keeps the words that
the code looks for.

### QualityGates and RunPreparation

`steps` is what a report goes through: the commands of the plan when nothing of it
became a typed gate that runs, and the typed gates in the order of their names. A gate
knows the place in the plan of the command it was made of (`at`), so that two commands
of one name stay two gates and keep their order, as in the code's stable sort.
`Find`, `Skip`, `Check`, `StartCommand`, and the ends of a command (by itself, by
the timeout, with output `held`) append to `results`; `status` and `returned` are
the file and what the caller gets.

`RunPreparation` is the way there. `stage` goes through arguments, settings,
policy, inspection, context, findings, codex, token, mcp, backend, container,
ready, checkout, worktree to the gates; each check refuses or goes on. `context` is the
inspection with who named the stack: configuration, detection or tracker. `tree`
is the repository in the worktree, which base ref and agent may have made
different from the checkout that was inspected. `RunAgain` is `agentactr quality
run`, which makes its plan again.

## 3. What the runs check

All passing runs are exhaustive on their instance. `CHECK_DEADLOCK FALSE` is
set everywhere because every behaviour stops: commands end, a plan is
finished, and the bounds on time, edits and samples are reached.

| run | instance | shows |
|---|---|---|
| `lease` | 2 processes, 1 issue, lease of 4 units, heartbeat every unit, steps at most 1 late, 7 units | `ExclusiveDispatch`, `DispatcherHoldsLease`: one dispatcher at a time and it owns its row; `ImplementsIssueLease`: the refinement, which covers takeovers, revivals and releases |
| `lifecycle` | 2 runs that overlap freely, 2 finalize commands, 1 edit by a person, failures anywhere, claims of 1 unit in 2 | `OverlapOnlyByRace`; `TerminalMutationNeedsApproval`; `RecordedStatusMatchesIssue`; `OneSummaryPerKind` |
| `records` | 1 run with a writer and a helper, 4 settings, 3 hosts, 3 processes, 3 finalize commands in sequence, refused writes and crashes anywhere | `ReviewedRunIsClean`; `RowFollowsFile`; `TracedFailureIsRecorded`; `DecisionStands`; `StrictClaimIsTrue`; `ReviewedRunWasConfined`; `StraysAreBroughtIn` (liveness) |
| `helpers` | governor: 2 samples sustain and 2 clear, 6 samples, 2 events per counter, any file unreadable; or plans: up to 4 candidates of 3 kinds, 97 policies and 32 budgets at and beyond types of 2 and 3 bits | `PauseIsEarned`, `ReleaseIsEarned`; `OomIsNeverMissed`; `VictimIgnoresOrder`; `TokensAreCapped` |
| `runtime` | 2 helpers and the writer: the first helper may leave something that holds its output, the second may be refused, the writer's events may be lost | `WriterRunsAlone`; `SuccessIsAccounted`; `NothingLeftRunning`; `EndIsRecorded`; `RuntimeReturns` (liveness) |
| `submission` | 3 submits, 2 issues, 1 mark, every verdict about other issues; or provisioning: 2 submitters, 3 configurations, 1 edit by people; or a list: 6 items, pages of 2, 129 queries, 2 changes | `OneIssuePerMarker`; `LedgerIsTruthful`; `LinkedIsWhole`; `CreatedIsProvisioned`; `ListingIsWhole` |
| `workspaces` | 1 run, 2 commands of 3 kinds, 1 edit, 1 commit, crashes anywhere | `RecordsAgree`; `CandidateApplies`; `AppliesFreshPatch` |
| `preparation` | 16 repositories under 11 configurations, with every answer of the tracker; 12 odd configurations; hosts that lack one thing; every combination of policy layers; every `.proto` file of three out of 13 blocks | `PassedMeansGated`; `DeclaredStackWins`; `NamedLayerDecides`; `GraphIsWhole`; `ParseAgrees`; `RerunRunsTheSame`; `VerdictComes` (liveness) |
| `transport` | 2 requests, 8 refusals, one for each branch of the retry decision | `ImplementsExchange`: the refinement, its fairness included |
| `claim_race` | 2 runs | refuted, see section 5 |

No run checks a type invariant by itself: `TypeOK` is a part of the inductive
invariants where there are proofs and documents the types elsewhere.
`MCHelpers` puts two modules into one run, and `MCIssueSubmission` three: a behaviour has
steps of one of them, chosen at the start, so that their states add up and do not multiply.

Why the bounds are enough.

- `lease`: seven units hold an admission, a crash, the expiry of the lease, a
  second admission and its renewals, and a refresh that has read its instant
  before any of these. Two processes are what a conflict takes; a second issue is
  covered by the proofs. Processes are interchangeable, hence the symmetry (the
  run checks no liveness).
- `lifecycle`: expiry needs one unit and a second claim one more; one edit is
  enough to reopen, close or relabel at any point; two commands are one that
  dies and one that resumes. In this run commands and edits come when no actor is under way
  (runs still overlap each other and whatever has begun), since
  `OneSummaryPerKind` is about retries; that the other three hold when commands
  overlap as well is proved.
  `RecordedStatusMatchesIssue` is about a run whose issue nobody else has claimed
  or edited.
- `records`: three commands are a decision that dies half-way, its resumption
  and a contrary decision. Three processes are a root, a child that it forks
  before it is attached, and a grandchild that is forked while the sample
  walks; four pass as well and take longer. The settings are limits that are
  enforced, that are only observed, that overflow, and that one parser knows and
  the other does not; with a kilobyte of 2 and 24 for the largest number, all of
  these are small.
- `helpers`: six samples hold a sustained pressure of two, a cooldown of two, and
  an interruption of each; `MaxCount` 3 lets the governor's counts saturate, and a
  plan's count of children. Four candidates exceed every limit of the policies, and
  two and three bits are wide enough to tell saturation from a limit.
- `runtime`: with two helpers, one can fail, be cancelled or be refused while
  another is in any state, and a monitor can choose a helper other than its own.
  Each kind of trouble is given to one process to keep the liveness check small;
  the safety properties that are proved hold for every such choice.
- `submission`: three submits are one that dies, one that resumes and one that
  races with them; a second issue is what a duplicate takes, and one mark gives
  two digests. Two submitters share a missing label, the project and a
  field; a search that shows one project of two or more is one that does not
  show all, and one edit is a label, a project or a field that comes or goes between
  a look and what follows.
- `workspaces`: two commands are what one needs to overwrite, with a diff of its
  own, what the other has read; an edit and a commit make everything that is
  read old. The kinds are the writer of another file (`diff --output`), the
  command that reads, writes and applies (`apply --3way`), and the reader of both
  heads (`plan`).
- `preparation`: behaviours are short and inputs many; the repositories are one
  for each language, mixtures, workspaces, empty and contested ones, and the
  configurations change one thing each. Three blocks of a `.proto` file are a service, what
  may disturb it and another service. One kind of service is never closed. Some blocks
  are misread by the code (a remark with `rpc `, a field that says `service `, a service on
  one line, an rpc with a body, an rpc over two lines), so that without a conjunct of
  `Legible` about them `ParseAgrees` fails in this run.
- `transport`: with two requests, a late effect or answer of the first can meet
  the second.
- Lists, in `submission`: two changes between pages of two over five or six items move the rest
  by a whole page; items 1 and 4 are pull requests, so that a page may have too few
  issues and be full.

### Fairness

`RuntimeSupervision`: weak fairness of `Main`, of each `Thread(p)` and of each
`Monitor(p)`. These are threads of one process which the operating system
schedules; the poll loop of `wait_child_with_timeout` sleeps a fixed time, so a
deadline that has not been reached is reached after finitely many polls. `Timeout`
is therefore always possible for a thread that waits, and fairness of the thread
makes it leave the loop. Nothing is assumed of the agent processes, which may run
for ever, nor of `Sample`: a monitor may never see pressure. What an agent leaves
behind is not assumed to end either: `RuntimeReturns` has that as its premise.

`ConfinedRun`: weak fairness of the monitor thread, while the agents run, and of
nothing else. `RunPreparation`: weak fairness of the gate loop and of its
timeout, which poll in the same way; commands may run for ever.
`GithubTransport`: weak fairness of the client's own steps, and of `SendFails`,
because the client is built with a timeout of 30 seconds. GitHub owes nothing.

The other modules claim no liveness: `run issue`, `finalize` and `submit` may die at
any point and nothing restarts them.


## 4. What is proved

The theorems are in the `*Proofs` modules and hold for every value of the
constants that satisfy the module's `ConstantsAssumption`: any number of
processes, issues, commands, helpers or candidates, any lease duration, any
threshold, any width.

**LocalLeaseProofs.** `TypeCorrect`, `RollbackIsComplete`, `HolderKeepsLease`,
`MutualExclusion`, `NoTakeover`, `Refinement`. All but the first have the premise
`Timely`: run ids are distinct, and
`HeartbeatInterval + 2 * MaxDelay < Ttl`, that is, a period and two delays (of
the wake-up, of the write) fit in a lease. With the clamp of
`lease_heartbeat_interval` to at least a second, no lease of a second or less
is timely. None of the invariants is inductive alone. The strengthening `Inv` says
that ids are fresh, that rows belong to recorded runs, that the heartbeat thread
lives exactly inside the run, and, the crux, `DueInTime` and
`DueBeforeExpiry`: the instant by which a process's next lease step is due lies
before the expiry of the row it owns. A sweep or an admission of another
process therefore finds the row live, and a refresh that is under way writes an
expiry that lies after the next due instant. `Refinement` maps each step of
`LocalLease` to a step of `IssueLease` or to a stutter.

**IssueLifecycleProofs.** `TypeCorrect`. `RaceOnly` from `ClaimInv`: a marker is
posted only after the scan, and whatever the scan returned had expired.
`Approval` from `ApprovalInv`, under the review policy: no run has the mode
`finalized`, a command has it only for a run whose gates passed, and a verdict of
the gates is final. Both hold under every interleaving of requests, with every
number of machines, commands and edits. So does `StatusIsShown`. `FollowInv` says that
a command follows its run: it is let through by a recorded status, which is there only
once the run has ended, so at most commands are under way for one run at the same time,
and once a failed run is recorded they all reject it. To it `StatusIsShown` adds what a
release has yet to remove (`TodoIsRemovable`), that what it has been told or has
confirmed is shown until it is recorded, since commands beside it remove what it removes
and add at most `done` (`VerifiedIsShown`), and that nobody has closed the issue of a run
that has not come to be finalized (`OpenUntouched`). `OneSummary` has the premise
`~ Overlap`: commands start, and people edit, only while no actor is under way; runs
overlap each other all the same. Without it the property is false, since two commands
that both see no summary both post one. With it one command at most is releasing
(`OneCommand`), so whoever is about to post a summary has none of that kind on the issue
(`Posting`).

**ConfinedRunProofs** is about `RunIssue` and its composition. Of `RunIssue`:
`TypeCorrect`; `CleanReviews`, which needs no assumption on
overlap: success is written only at the place `lifecycle`, which is reached only
through every phase. `FailuresAreRecorded` needs none either: `TracedInv` adds that a
phase about to be reported as failed has its row already, and that a failure that was
traced is the cause that is being told. `RecordsAgree` and `DecisionsStand` assume that
commands do not overlap the run or each other; without that assumption they are false
(section 5).

`ConfinedRunIsARun`: the composition restricts `RunIssue`,
so its theorems hold here (`ConfinedReviewsAreClean` is one of them).
`ReviewsAreConfined`, from `ConfInv`: what a monitor could not bring in is an
error it holds or a failure already told, unless the program has died (`Seen`); a
verdict is given only after the monitor has stopped (`Watched`); where limits are
enforced every agent has its group from the claim on (`Leased`); and once the agents
have ended well nothing is added to what was seen (`DoneConfined`). `StrictClaims`,
from `StrictInv`: what is leased has its limits (`Limited`), and a leased agent that
the runtime waits for has its root in its own group and a monitor (`Held`).
`GroupsAreTyped` is the type invariant of the
groups. All for any number of agents and processes.

**HelperProofs.** Of the governor: `TypeCorrect`, `PressureIsSustained`,
`CooldownIsServed`, `OomFailsTheRun`, `VictimIsDetermined`. `CountsAreBacked` bounds
each counter of the governor by the samples in the history that justify it, so a
threshold that is reached has been earned. `VictimIsDetermined` is an argument about
`Victim` itself: the order in which helpers precede each other is total on
what tells them apart, so the least is the same in every listing.

Of the spawn manager: `PlansAreTyped`, `ChildCap`, `TokenCap`, `SingleWriter`,
`PressurePausesHelpers`. The invariant `PlanInv` relates the saturating budget to the
exact sum over the children. `TokenCap` has an exception that the proof brought out: a
total of `u64::MAX` is never exceeded, since the sum saturates there.

**RuntimeSupervisionProofs.** `TypeCorrect`, `WriterAlone`, `Accounts`, which
hold whatever fails, and `OrderlyReturn`, whose property has a premise of its own,
`Orderly`: no event is lost, no child refused, and no process leaves anything silent
behind. `Stage(p)` ties the place of a thread to its process, its monitor and its
events, and `Order` ties the threads to the main one. `EndsAreRecorded` holds whatever
fails, of every process whose events can be recorded; its invariant `Life(p)`
says what the events of a process are at each place of its thread, and which of them
tell of an end.

**IssueSubmissionProofs.** `TypeCorrect`, `AtMostOneIssue`, `TruthfulLedger`,
`OnlyWholeIssuesAreLinked`, for any number of submits, marks and issues. The
invariant `Inv` joins them with what they rest on. `FreeRowsAreUnused`: while a
row is absent or pending, no issue carries its digest and nobody is about to
create one. `CreatorIsAlone`: the submit at `create` is the only one under its
digest, and no issue carries the digest yet; this is what the transaction of
`begin_issue_submission` buys, and why the later UPDATEs need no condition.
`HeldIssues` and `RowsAreWhole` say what a submit and a row that name
an issue know of it. `OneDigest` says that the digest of a tracker-backed
proposal never changes.

`CreatedIsWhole` is about `GithubProvisioning`, for any submitters, proposals, settings,
projects and edits. `Progresses(c)` says what a submitter that has come so far has
made sure of: the labels it has gone through are the issue's, its project is the
configured one or bears the title (`HasProject`), the fields before `n` are set
(`IsPrefix`) and shown (`HasValues`). People can take labels away and add projects and
fields but undo none of this, because an issue's labels and values are its own, and a
project keeps its place and its title whatever is made beside it.

`RequestsAreExchanges` is the refinement of `GithubExchange` by `GithubTransport`, step
by step: `Begin` is an `Ask`, `Perform` a `TakeEffect`, an end a `Confirm` or a
`Fail`, all else a stutter. `ExchangeInv` has the reason why five attempts have one
effect: of a request one attempt at most is under way (`OnceUnderWay`), because
another is sent only after a 403 or 429, which GitHub answers without
doing anything, and never after an attempt that was lost or is still waited for
(`Current`). The premise is the module's `ConstantsAssumption` on refusals.

**WorkspacesProofs.** `TypeCorrect`, `MetadataDescribePatch`, `CandidatesApply`,
`FreshPatchApplied`, for any runs, commands, edits and commits. `Busy(j)` says what a
command in the midst of its requests knows: that what it has read is of the
worktree's base and no older than its own start, and, on a run that is not blurred, that
the patch that lies there is what it read. `Alone` is what the history variable
`blurred` means: of two commands on a run that is not blurred one at most is at work.
`Kept(r)` is what commands leave behind: a patch and a candidate's plan are of the
worktree's base commit, which stays, and the metadata lag behind the patch only while
a command is about to write them.

`ListsAreWhole` is about `GithubListing`, for any items, attributes, queries, page sizes
and changes. The crux of `ListingInv` is `IsAhead`: an item that has been steady and is asked
for has been read, or its number among the selected items lies beyond the pages that
have been, so that the next page is not past it. A page that is read takes exactly the
numbers of that page (`PageItems`); whatever people do to other items leaves the number of a
steady one as it is or makes it larger, since what comes before it may grow but not
shrink (`Further`); and a page that is not full leaves no number beyond it. That
`Kept` has each item once, in order, at its number (`KeptItems`) is the lemma all of this
rests on.

**RunPreparationProofs.** `NamedLayer`, for any layers: `Readable` says that a
layer holds values or junk, and `LayersStay` that no step changes that.
`RerunGoesThroughTheSame`: `Prepared` says that once the stack
is settled the context is what configuration and repository make of it, unless the
tracker named the stack, and that the gates come from it, so the second plan is the first.

`PassedGated` and `DeclaredWins` need two more invariants. `Trusted`: files are finite
in number, what the tracker names are languages, every context is an inspection made
by the code, and the tracker names a stack only where the configuration does not.
`Reported`: the results are those of a beginning of the gates, a skipped one waited for
an opt-in, a bad one has failed the report, and one that passes has a result for each.
Beside them stands what the plan is. `QualityPlans`: every profile and stack gives a
sequence of commands with known names in known directories. `SortedListsAll`: the order of
the gates is total, so that sorting them loses none. From these, `StepsAre` says that each
step is a typed gate or a command of the plan, and that every gate, and every command of a
plan that is not migrated, is among the steps.

`ParserAgrees` is about the reader of `.proto` files, and says that in every legible file
it finds the services that are declared, in their order, and counts the rpcs of each.
`Legible` is the premise, and each part of it is a way in which the code goes wrong (section
5): a line declares at most one service or rpc, has the words `service ` and `rpc ` only where
it declares one, and no line between a service and an rpc of it begins with a closing brace.
`ReadTo(lines, p, k)` says what the reader has after k lines: for each service that it has
closed the number of all its rpcs, and of the one that is open the rpcs so far. A brace may
close a service that goes on, after a message or an option within it; in a legible file no
rpc of that service follows, so its count is whole. `LineRead` takes `ReadTo` from a line to
the next for each kind of line and each state of the reader, and `ServicesParsed` to the end
of the file.

`DomainsAreDrawn` is about `Domains` rather than about steps: every part of the graph
brings one node and hangs it on a node of another part (`Hangs`), findings and gates are
those of domains that are profiled (`FindingsAreSpokenFor`, `GatesAreComposed`), and
what is joined from such parts is whole (`JoinedIsWhole`).

The attempts at these proofs corrected the models in two places. `Sorted` had no order
for two gates of one domain, name and directory, which the code's stable sort
keeps as they are in the plan; they differ now by `at`. The reference
definition of a file's services counted an `rpc` for an earlier service when a later one
had begun before the earlier was closed; an `rpc` belongs to the service that is declared
last before it.

Assumptions on constants, beside the obvious types: `Workspaces` has a patch and a
plan told apart from none and from one cut short; in `GithubProvisioning` a proposal's
fields and the projects at the start are finite sequences; in `RunPreparation` the policy's
keys are keys of the layers, a value there is of the type asked for or not, repositories
have finitely many files, `.proto` files are sequences of lines with any beginning, words and declaration (`Lines`), and the stacks
that a tracker names are languages; `Discovery` has finitely many directories, the root
among them, and `QualityGates` an alphabet with all names in it. `GithubListing` starts with
a list that has no item twice and has pages of 1 to 100 items, as GitHub does.

Proved, and checked by no run of its own because a smaller instance would add
nothing: `RefusedRunsLeaveNoRow`, `NoTakeoverOfLiveLease`, `ChildrenAreCapped`,
`OneWriter`, `NoHelperUnderPressure`, and the type invariants.

Every safety property and every action property that a passing run checks is stated by
a theorem. Where a sequence is built by a recursive function, as in `Parse` and where plans are
flattened, the proofs argue on the set of the places for which the claim holds
(`Upward`, which rests on `Least`: a set of naturals has a least one, because finite sets are
well-founded under inclusion), since a theorem that takes an operator cannot be
instantiated. Where it is built by counting, as in `Kept` and `Sorted`, they use what is known
of cardinalities.
Only model-checked are the liveness properties `RuntimeReturns`, `StraysAreBroughtIn` and
`VerdictComes`, and the fairness part of `ImplementsExchange`: they rest on fairness and
on `ENABLED`, which are out of the proof system's reach.

## 5. Where the code and its documents part

One run shows a behaviour that contradicts what the specification of the
repository, `specs_agentactrSDK.md`, says. `claim_race`,
`AcceptedClaimsAreExclusive`: after posting its marker, `claim` looks only for its
own. Two machines that list before either has posted are both accepted.

The models also show what follows, for which no run is kept; each can be seen by
changing a constant, by dropping a property's premise, or by stating the sentence as a
property. The lists say too what the models take over from the code although a reader
may not expect it.

Lease and lifecycle:

- `refresh_local_lease` does not look at how many rows its UPDATE matched
  (`main.rs:2727`). A heartbeat that comes later than the lease lasts finds
  another run's row, changes nothing, and goes on waiting; the run works on
  without a lease.
- A heartbeat whose refresh fails ends its thread, and the error is looked at
  only by `stop()` after the run (`main.rs:2663`): the run works on, its lease lapses
  and a second run is admitted. `ExclusiveDispatch` is therefore about working
  heartbeats.
- Run ids differ only per millisecond (`main.rs:5487`), and the lease tells runs
  apart by their ids: with `SameInstantRuns = TRUE` two runs are admitted.
- `finalize --resume` performs the whole release again and closes an issue that
  a person has reopened since (`agentactr-sdk/src/use_cases.rs:315`).
- `release` compares no fencing token (`agentactr-cli/src/adapters.rs:1483`): a
  run whose claim has expired changes the labels of the run that claimed after
  it.
- A reject after an approval that died half-way is admitted
  (`agentactr-sdk/src/use_cases.rs:324`), and records `review_rejected` on an issue
  that is done or closed.

Records and runtime:

- An error between two phases, or in the report of a success, leaves
  `runs.status` at `started` (`main.rs:1995`).
- Two `finalize` commands that overlap both read `review_required`, and the later
  one replaces the decision of the earlier (`main.rs:2253`): `DecisionStands` with
  `Overlap = TRUE`.
- When the `attributed` event cannot be written, `?` (`agentactr-codex/src/lib.rs:618`)
  leaves the process and its monitor at work, and the lifecycle that is dropped
  records the process as terminated, where the specification (line 1506) has every
  process ended. `NothingLeftRunning` therefore speaks of orderly runs.
- When a child of the plan is refused, the threads of the children before it are
  never joined (`agentactr-codex/src/lib.rs:494`). This too is no orderly run.
- Output that is held open by what a process left behind blocks
  `join_codex_streams` without a limit (`agentactr-codex/src/lib.rs:1713`); that no
  output is held for ever is the premise of `RuntimeReturns`.
- A helper that writes artifacts is no reader for the check of
  `allow_parallel_read_only` (`spawn.rs:321`), so helpers of that kind run side by
  side where readers may not.
- A `memory.pressure` that cannot be read for one sample makes the next one
  report growth that never was (`linux_memory.rs:915`), and `PressureCleared` is reported
  after pressure that never paused anything (`resource_governor.rs:155`).

Submission:

- `issue submit --resume` of a local proposal classifies it anew, finds the very
  issue it created, with the same title, among the candidates, and is refused as
  `duplicate_blocked` before it reads the ledger (`issue_commands.rs:367`, against
  line 2828 of the specification). The outstanding link is never made, unless the
  candidate query happens to leave the issue out.
- A mark between the request and its resumption changes the digest of a local
  proposal (`issue_commands.rs:666`): `--resume` finds no row and, if the first
  issue is not among the candidates, creates a second. `OneIssuePerMarker` is
  therefore per digest for local proposals.
- A slow submit's record may set a row back from `linked` to `created`
  (`issue_commands.rs:2388`). The row still tells the truth, and a resume
  repairs it.
- A proposal with project fields that is recovered by its marker is always
  recorded as `created_metadata_mismatch`, because the search shows no fields
  (`agentactr-cli/src/adapters.rs:1795`).
- Two overlapping submits that both miss a standard label: the second POST is refused
  (422) after its row has become `submitted`, where it stays; a resume finds no
  marker and fails closed. Two that both miss the project, or a project beyond the
  first 20 shown, make two of one title. A field name that is not supported and an
  owner that cannot be looked up are errors only after the issue exists.

GitHub transport and lists (`agentactr-cli/src/adapters.rs`):

- The rate-limit artifacts hold the last request only: each write replaces what
  an earlier request of the run left (line 2133, against line 1312 of the
  specification), a `send()` error after a refusal writes nothing, the raw requests'
  refusals are never recorded, and `github.rate_limit.updated` is traced once, right
  after the fetch (`main.rs:1684`), so that refusals of claim and release are not.
- A claim's expiry is fixed before its requests (`main.rs:1989`, 300 seconds
  unless set), while one request may wait up to four times 300 seconds: a claim
  can be accepted after its own marker has expired.
- The fallback for secondary limits waits 60, 120 and 240 seconds; the fourth wait
  would be 480, more than 300, and is an error, so the fifth attempt is never
  reached that way. A `retry-after` shorter than the reset wins. A primary limit
  whose reset is more than 300 seconds away ends in an error, where line 2200 has
  "pause polling until reset". A reset in the past means five attempts at once.
- Candidates sorted by update can lose an issue that is touched while the list
  is read, or, sorted ascending or after a deletion, the one behind it; and can name
  one twice. The same holds for a marker comment beyond the first hundred. `ListingIsWhole`
  therefore speaks of what stayed in its place. `incomplete_results` is noted for
  candidates and ignored by the search for a marker.

Workspaces (`vcs_adapter.rs`, `vcs_commands.rs`):

- The patch contains `.agentactr-run.toml`: the list of untracked files is
  filtered for the touched files (line 474) and not for the patch (lines 210 to 223). A
  second run's patch is therefore refused once the first has been applied.
- A merge plan checks only that its inputs exist; a diff that is cut short between
  patch and metadata leaves a patch that later commands take for verified; two
  applies can both pass the check that the source is clean (`vcs_commands.rs:207`);
  a preparation that fails leaves its worktree and branch without a manifest
  (`vcs_adapter.rs:68`). `git apply` refuses an empty patch.

Preparation and gates:

- Typed gates run in the order of their names (`discovery.rs:267`), where the
  specification has the install first (lines 2453 to 2464) and another default order
  for Go (2501 to 2511). Of a mixed repository `govulncheck` is dropped, and in the
  minimal profile every scoped command.
- The plan is made from the checkout and carried out in the worktree of `base_ref`
  (`main.rs:1878`). `RerunRunsTheSame` says when the two agree: when the worktree has the
  files of the checkout and the tracker did not name the stack.
- Values of a wrong type are silently ignored while the banner names
  `agentactr.toml`. `transport = "websocket"` in the file is refused even if the
  environment would set another. `AGENTACTR_REPO` overrides `--repo`. The parsers of
  a declared stack differ between SDK and command.
- The readers of a gate's output are joined without a limit
  (`quality_command.rs:112`); `VerdictComes` makes an exception of output that is held.
- The reader of `.proto` files looks for `service ` and `rpc ` anywhere in a line
  (`domains.rs:1659`, `line.find`): a remark `// This rpc lists users` is counted as an rpc of
  the open service, a field `string service = 1;` closes it and opens a service named `=`, and
  of several rpcs on one line one is counted. Any line that begins with a brace closes the
  service (line 1632), the end of an rpc's body among them, and the rpcs after it are lost.
  `ParseAgrees` is about files without such lines. `rpc_profile` asks for `service ` at the
  beginning of a line, so that the two readers differ on the same file. A `members` list of
  several lines loses all but the first entry of a line. Domain gates may leave loose edges in the
  graph when `architecture.domains` is disabled or declared, and the message about
  previews names `quality.iac.allow_preview`, a key that does not exist.
- A dry run may have asked the tracker and pulled an image. The self-check of MCP
  leaves its child running when the answer is wrong.

Memory groups:

- A process is spawned outside its group and attached afterwards: children it has
  forked by then come in with a later sample, and those whose ancestors have exited
  never, because the walk starts at the root. When the root is gone a sample sees
  nothing. `StraysAreBroughtIn` is about processes that the walk can reach.
- `strict_memory_required` is not compared with `linux_memory.mode` and `enabled`
  (`main.rs:4205`): a native Linux host that only observes passes. An automatic
  policy with `strict_required`, without `require_process_anchor`, falls back to
  observation when no local process anchors the claim.
- The policy, and `reclaim`, `kill` and `finalize_group` of the controller, have no
  callers: a run's cgroups are never removed, nor what a refused preparation has made.
- With the docker backend only the client is in the cgroup. The parser for
  `setrlimit` knows neither `max` nor `t`. A `memory.high` above `memory.max` is
  accepted.

## 6. What is not modelled

- Data that no property looks at: bodies of comments and prompts, names of files
  and branches, reports, rendering, and the content of the trace beyond the
  events of phases and processes.
- Setup, bootstrap and rendering, the inspection commands and the guidance texts:
  functions from settings to text, or files written once, without a state that
  another part could find changed. Unit tests reach them.
- The grammar of TOML and of manifests: a file is what the code looks for in
  it. `.proto` files are modelled line by line, because their reader has a state.
- The refusal of a repository name or an issue number that is not one
  (`main.rs:1869`): the runs of `RunPreparation` have valid ones.
- What a gate, an agent or an image does: commands end in any way and change the
  tree where the models let them.
- The wall clock: it only advances. A clock that is set back voids every
  statement about leases, and the code has no defence that could be modelled.
- The controller's `reclaim`, `kill` and `finalize_group`, which nothing calls.

## 7. Plan

Done, in this order because dispatch and the issue on GitHub are where a
mistake costs most: `IssueLease` and `LocalLease`; `IssueLifecycle`; `RunIssue`;
`SpawnManager`; `MemoryGovernor`; `RuntimeSupervision`; `IssueSubmission`, each with its
proofs. Then `GithubExchange` and `GithubTransport`; `GithubListing` and
`GithubProvisioning`; `MemoryGroups` and its composition `ConfinedRun`, with proofs;
`Workspaces`; `Discovery`, `Domains`, `Configuration`, `QualityGates` and
`RunPreparation`, which joins them.

Every component has proofs, and every safety property a theorem.

Left:

1. A composition of `MemoryGovernor` with the monitors of `RuntimeSupervision`
   through the active registry: two monitors and one helper that does not end.
2. A composition of `GithubTransport` with `IssueLifecycle`, for a claim whose
   waits outlast its marker.
