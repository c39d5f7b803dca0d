----------------------------- MODULE Workspaces -----------------------------
(***************************************************************************)
(* The workspaces of the runs and what is taken out of them: a worktree on *)
(* a branch of its own for each run, the patch of its changes with the     *)
(* metadata that describe it, the plan for a merge, and the application of *)
(* the patch to the source checkout.  The agent goes on editing, people    *)
(* edit and commit in the source checkout, and commands overlap and die    *)
(* between any two of their writes.                                        *)
(*                                                                         *)
(* Contents are versions: a worktree has version 0 as it was added, and    *)
(* every edit makes the next one.  Git is external; what `git apply` does  *)
(* is determined only where the patch was made against exactly the clean   *)
(* source, or where it cannot apply at all.                                *)
(***************************************************************************)
EXTENDS Integers

CONSTANTS
  Runs, Jobs,       \* runs, and slots for vcs and merge commands
  BranchOf,         \* the branch vcs.branch_template yields for each run
  FailOnDirty,      \* vcs.fail_on_dirty_source_checkout
  CopyConfig,       \* vcs.copy_runtime_config_to_worktree
  MergeEnabled,     \* merge.mode # "disabled"
  RunFileIgnored,   \* does the repository ignore .agentactr-run.toml?
  None, Torn,       \* no content, and content that a write did not complete
  Kinds,            \* the commands that are given
  MaxEdits,         \* bound on the edits of one worktree
  MaxCommits        \* bound on the commits to the base ref

Commits  == 0..MaxCommits
Versions == 0..MaxEdits
Owner    == Runs \cup {None}

\* `changed`: has it changes, of people or applied, that are not committed;
\* `runFile`: whose .agentactr-run.toml is there.
Source == [ref : Commits, changed : BOOLEAN, runFile : Owner]
\* `contains`: the newest commit of the base ref that HEAD contains; `own`: the
\* overlay brought configuration that was not committed.
Worktree == [state : {"none", "resolved", "checked", "added", "overlaid", "ready", "failed", "gone"},
             base : Commits, contains : Commits, version : Versions, own : BOOLEAN]
Patch     == [base : Commits, tracked : Versions, untracked : Versions, own : BOOLEAN]
\* `elsewhere`: the patch described is the file that --output names.
Metadata  == [elsewhere : BOOLEAN, digest : Patch]
MergePlan == [candidate : BOOLEAN, base : Commits]

ASSUME ConstantsAssumption ==
  /\ {FailOnDirty, CopyConfig, MergeEnabled, RunFileIgnored} \subseteq BOOLEAN
  /\ Kinds \subseteq {"diff", "diff --output", "check", "apply", "apply --3way",
                     "apply --allow-dirty", "plan"}
  /\ MaxEdits \in Nat /\ MaxCommits \in Nat
  /\ None # Torn
  /\ \A n \in {None, Torn} : n \notin Patch \cup Metadata \cup MergePlan

VARIABLES
  src,       \* the source checkout: see Source
  runFileAt, \* whose .agentactr-run.toml each commit of the base ref holds
  branches,  \* branches that exist
  wt,        \* the worktree of each run: see Worktree
  manifest,  \* whether the run's context_manifest.json exists
  patch,     \* workspace.diff.patch of each run
  meta,      \* workspace.diff.metadata.json
  plan,      \* merge_plan.json with its metadata
  job,       \* what each slot executes, and what it has read
  pc,        \* where it is
  blurred    \* runs of which a record was cut short or two overlapped

repository == <<src, runFileAt, branches>>
artifacts  == <<patch, meta, plan>>
vars == <<repository, wt, manifest, artifacts, job, pc, blurred>>

TypeOK ==
  /\ src \in Source
  /\ runFileAt \in [Commits -> Owner]
  /\ branches \subseteq {BranchOf[r] : r \in Runs}
  /\ wt \in [Runs -> Worktree]
  /\ manifest \in [Runs -> BOOLEAN]
  /\ patch \in [Runs -> Patch \cup {None, Torn}]
  /\ meta \in [Runs -> Metadata \cup {None, Torn}]
  /\ plan \in [Runs -> MergePlan \cup {None, Torn}]
  /\ pc \in [Jobs -> {"idle", "capture", "rest", "patch", "metadata", "event", "clean",
                      "apply", "weigh", "plan"}]
  /\ blurred \subseteq Runs

Init ==
  /\ src = [ref |-> 0, changed |-> FALSE, runFile |-> None]
  /\ runFileAt = [n \in Commits |-> None]
  /\ branches = {}
  /\ wt = [r \in Runs |-> [state |-> "none", base |-> 0, contains |-> 0, version |-> 0, own |-> FALSE]]
  /\ manifest = [r \in Runs |-> FALSE]
  /\ patch = [r \in Runs |-> None]
  /\ meta = [r \in Runs |-> None]
  /\ plan = [r \in Runs |-> None]
  /\ job = [j \in Jobs |-> None]
  /\ pc = [j \in Jobs |-> "idle"]
  /\ blurred = {}

\* `git status --porcelain` prints something.
Dirty == src.changed \/ src.runFile # runFileAt[src.ref]

-----------------------------------------------------------------------------
\* prepare_worktree_ref

Prepares(r, from, to) ==
  /\ wt[r].state = from
  /\ wt' = [wt EXCEPT ![r].state = to]
  /\ UNCHANGED <<src, runFileAt, manifest, artifacts, job, pc, blurred>>

ResolveBase(r) ==
  /\ wt[r].state = "none"
  /\ wt' = [wt EXCEPT ![r].state = "resolved", ![r].base = src.ref, ![r].contains = src.ref]
  /\ UNCHANGED <<repository, manifest, artifacts, job, pc, blurred>>

EnsureClean(r) ==
  /\ FailOnDirty => ~Dirty
  /\ Prepares(r, "resolved", "checked") /\ UNCHANGED branches

\* git worktree add -b
AddWorktree(r) ==
  /\ BranchOf[r] \notin branches
  /\ branches' = branches \cup {BranchOf[r]}
  /\ Prepares(r, "checked", "added")

\* The files of the source as they are now, whatever the check has seen.
CopyRuntimeConfig(r) ==
  /\ wt[r].state = "added"
  /\ wt' = [wt EXCEPT ![r].state = "overlaid", ![r].own = CopyConfig /\ src.changed]
  /\ UNCHANGED <<repository, manifest, artifacts, job, pc, blurred>>

WriteRunFile(r) == Prepares(r, "overlaid", "ready") /\ UNCHANGED branches

\* Any step may fail, or be the last of its process: what is there stays.
PreparationFails(r) ==
  \E from \in {"resolved", "checked", "added", "overlaid"} :
    Prepares(r, from, "failed") /\ UNCHANGED branches

\* write_run_context_artifacts of the preflight; `vcs prepare` never does it.
WriteManifest(r) ==
  /\ wt[r].state = "ready" /\ ~manifest[r]
  /\ manifest' = [manifest EXCEPT ![r] = TRUE]
  /\ UNCHANGED <<repository, wt, artifacts, job, pc, blurred>>

-----------------------------------------------------------------------------
\* The agent, and people

AgentEdits(r) ==
  /\ wt[r].state = "ready" /\ wt[r].version < MaxEdits
  /\ wt' = [wt EXCEPT ![r].version = @ + 1]
  /\ UNCHANGED <<repository, manifest, artifacts, job, pc, blurred>>

\* HEAD is moved on to the base ref, or back before the base commit.
MovesHead(r) ==
  /\ wt[r].state = "ready" /\ wt[r].version < MaxEdits
  /\ \E n \in {0, src.ref} \ {wt[r].contains} :
       wt' = [wt EXCEPT ![r].contains = n, ![r].version = @ + 1]
  /\ UNCHANGED <<repository, manifest, artifacts, job, pc, blurred>>

RemovesWorktree(r) == Prepares(r, "ready", "gone") /\ UNCHANGED branches

PersonEdits ==
  /\ ~src.changed
  /\ src' = [src EXCEPT !.changed = TRUE]
  /\ UNCHANGED <<runFileAt, branches, wt, manifest, artifacts, job, pc, blurred>>

\* git add -A; git commit
PersonCommits ==
  /\ Dirty /\ src.ref < MaxCommits
  /\ src' = [src EXCEPT !.ref = @ + 1, !.changed = FALSE]
  /\ runFileAt' = [runFileAt EXCEPT ![src.ref + 1] = src.runFile]
  /\ UNCHANGED <<branches, wt, manifest, artifacts, job, pc, blurred>>

PersonRestores ==
  /\ Dirty
  /\ src' = [src EXCEPT !.changed = FALSE, !.runFile = runFileAt[src.ref]]
  /\ UNCHANGED <<runFileAt, branches, wt, manifest, artifacts, job, pc, blurred>>

-----------------------------------------------------------------------------
\* vcs diff, vcs apply and merge plan

Goto(j, place) == pc' = [pc EXCEPT ![j] = place]
Leaves(j) == Goto(j, "idle") /\ job' = [job EXCEPT ![j] = None]
Working(r) == {j \in Jobs : pc[j] # "idle" /\ job[j].run = r}

\* load_run_artifact_context and validate_run_worktree_scope
InScope(r) == manifest[r] /\ wt[r].state = "ready"

\* Mutant: vcs apply takes the patch that is recorded, when there is one.
BeginRecorded(j, r) ==
  /\ pc[j] = "idle" /\ InScope(r)
  /\ \E kind \in Kinds :
       /\ job' = [job EXCEPT ![j] = [run |-> r, kind |-> kind, began |-> wt[r].version, read |-> None]]
       /\ Goto(j, IF kind = "plan" THEN "weigh"
                  ELSE IF kind \notin {"diff", "diff --output"} /\ patch[r] # None THEN "clean"
                  ELSE "capture")
  /\ blurred' = IF Working(r) = {} THEN blurred ELSE blurred \cup {r}
  /\ UNCHANGED <<repository, wt, manifest, artifacts>>
\* A command starts; `began` is the version that it could have seen first.
Begin(j, r) ==
  /\ pc[j] = "idle" /\ InScope(r)
  /\ \E kind \in Kinds :
       /\ job' = [job EXCEPT ![j] = [run |-> r, kind |-> kind, began |-> wt[r].version, read |-> None]]
       /\ Goto(j, IF kind = "plan" THEN "weigh" ELSE "capture")
  /\ blurred' = IF Working(r) = {} THEN blurred ELSE blurred \cup {r}
  /\ UNCHANGED <<repository, wt, manifest, artifacts>>

Elsewhere(j) == job[j].kind = "diff --output"

\* LocalGitAdapter::diff: first HEAD and `git diff --binary BASE_COMMIT` ...
ReadTracked(j) ==
  LET r == job[j].run IN
  /\ pc[j] = "capture" /\ wt[r].state = "ready"
  /\ job' = [job EXCEPT ![j].read = [base |-> wt[r].base, tracked |-> wt[r].version,
                                     untracked |-> 0, own |-> wt[r].own]]
  /\ Goto(j, "rest")
  /\ UNCHANGED <<repository, wt, manifest, artifacts, blurred>>

\* ... then a patch for every untracked file, .agentactr-run.toml among them.
ReadUntracked(j) ==
  LET r == job[j].run IN
  /\ pc[j] = "rest" /\ wt[r].state = "ready"
  /\ job' = [job EXCEPT ![j].read.untracked = wt[r].version]
  /\ Goto(j, "patch")
  /\ UNCHANGED <<repository, wt, manifest, artifacts, blurred>>

\* record_workspace_diff_artifacts
WritePatch(j) ==
  /\ pc[j] = "patch"
  /\ patch' = IF Elsewhere(j) THEN patch ELSE [patch EXCEPT ![job[j].run] = job[j].read]
  /\ Goto(j, "metadata")
  /\ UNCHANGED <<repository, wt, manifest, meta, plan, job, blurred>>

\* Mutant: the metadata names the patch among the artifacts, --output or not.
WriteMetadataOfArtifact(j) ==
  /\ pc[j] = "metadata"
  /\ meta' = [meta EXCEPT ![job[j].run] = [elsewhere |-> FALSE, digest |-> job[j].read]]
  /\ job' = [job EXCEPT ![j].read = None]
  /\ Goto(j, "event")
  /\ UNCHANGED <<repository, wt, manifest, patch, plan, blurred>>
WriteMetadata(j) ==
  /\ pc[j] = "metadata"
  /\ meta' = [meta EXCEPT ![job[j].run] = [elsewhere |-> Elsewhere(j), digest |-> job[j].read]]
  /\ job' = [job EXCEPT ![j].read = None]
  /\ Goto(j, "event")
  /\ UNCHANGED <<repository, wt, manifest, patch, plan, blurred>>

Mutating(j) == job[j].kind \in {"apply", "apply --3way", "apply --allow-dirty"}

\* The event is appended; vcs apply goes on.
AppendEvent(j) ==
  /\ pc[j] = "event"
  /\ IF Mutating(j) THEN Goto(j, "clean") /\ UNCHANGED job
     ELSE IF job[j].kind = "check" THEN Goto(j, "apply") /\ UNCHANGED job
     ELSE Leaves(j)
  /\ UNCHANGED <<repository, wt, manifest, artifacts, blurred>>

\* apply_recorded_patch
EnsureSourceClean(j) ==
  /\ pc[j] = "clean"
  /\ IF Dirty /\ job[j].kind # "apply --allow-dirty" THEN Leaves(j)
     ELSE Goto(j, "apply") /\ UNCHANGED job
  /\ UNCHANGED <<repository, wt, manifest, artifacts, blurred>>

\* The patch has no text: nothing was changed and the run file is ignored.
Blank(p) == p.tracked = 0 /\ p.untracked = 0 /\ ~p.own /\ RunFileIgnored
\* The run file of a worktree is a new file, or a change of the one that an
\* applied patch has brought into the base commit.
RunFileClashes(p) == ~RunFileIgnored /\ src.runFile # runFileAt[p.base]
Refuses(p) == p = Torn \/ Blank(p) \/ RunFileClashes(p)
Accepts(p) == ~Refuses(p) /\ p.base = src.ref /\ ~Dirty

\* git apply succeeds.
Applies(j) ==
  /\ pc[j] = "apply" /\ ~Refuses(patch[job[j].run])
  /\ src' = IF ~Mutating(j) THEN src
            ELSE [src EXCEPT !.changed = TRUE,
                             !.runFile = IF RunFileIgnored THEN @ ELSE job[j].run]
  /\ Leaves(j)
  /\ UNCHANGED <<runFileAt, branches, wt, manifest, artifacts, blurred>>

\* git apply fails: with --3way it may leave conflicts in the source.
Conflicts(j) ==
  /\ pc[j] = "apply" /\ ~Accepts(patch[job[j].run])
  /\ \E left \in IF job[j].kind = "apply --3way" THEN BOOLEAN ELSE {FALSE} :
       src' = [src EXCEPT !.changed = @ \/ left]
  /\ Leaves(j)
  /\ UNCHANGED <<runFileAt, branches, wt, manifest, artifacts, blurred>>

\* LocalGitAdapter::merge_plan: HEAD, the commit of the base ref now, and
\* whether the one contains the other ...
ReadHeads(j) ==
  LET r == job[j].run IN
  /\ pc[j] = "weigh" /\ wt[r].state = "ready"
  /\ job' = [job EXCEPT ![j].read = [base |-> src.ref, contained |-> wt[r].contains >= src.ref]]
  /\ Goto(j, "plan")
  /\ UNCHANGED <<repository, wt, manifest, artifacts, blurred>>

\* ... then the recommendation, when there is no blocker.
\* Mutant: that the base ref has moved is no blocker.
RecommendedAdrift(j) ==
  /\ MergeEnabled
  /\ job[j].read.contained
  /\ patch[job[j].run] # None
Recommended(j) ==
  LET r == job[j].run IN
  /\ MergeEnabled
  /\ job[j].read.base = wt[r].base
  /\ job[j].read.contained
  /\ patch[r] # None

\* record_merge_plan_artifact
WritePlan(j) ==
  /\ pc[j] = "plan"
  /\ plan' = [plan EXCEPT ![job[j].run] = [candidate |-> Recommended(j), base |-> job[j].read.base]]
  /\ job' = [job EXCEPT ![j].read = None]
  /\ Goto(j, "event")
  /\ UNCHANGED <<repository, wt, manifest, patch, meta, blurred>>

\* A command fails or dies: what it was about to write is not written, or is
\* not complete; a plan without its metadata counts as the latter.
Dies(j) ==
  LET r == job[j].run
      Cut(place, file, torn) == IF pc[j] = place THEN {file, torn} ELSE {file}
  IN
  /\ pc[j] # "idle"
  /\ patch' \in Cut("patch", patch, IF Elsewhere(j) THEN patch ELSE [patch EXCEPT ![r] = Torn])
  /\ meta' \in Cut("metadata", meta, [meta EXCEPT ![r] = Torn])
  /\ plan' \in Cut("plan", plan, [plan EXCEPT ![r] = Torn])
  /\ blurred' = IF pc[j] \in {"patch", "metadata"} THEN blurred \cup {r} ELSE blurred
  /\ Leaves(j)
  /\ UNCHANGED <<repository, wt, manifest>>

Next ==
  \/ PersonEdits \/ PersonCommits \/ PersonRestores
  \/ \E r \in Runs :
       \/ ResolveBase(r) \/ EnsureClean(r) \/ AddWorktree(r) \/ CopyRuntimeConfig(r)
       \/ WriteRunFile(r) \/ PreparationFails(r) \/ WriteManifest(r)
       \/ AgentEdits(r) \/ MovesHead(r) \/ RemovesWorktree(r)
       \/ \E j \in Jobs : Begin(j, r)
  \/ \E j \in Jobs :
       \/ ReadTracked(j) \/ ReadUntracked(j) \/ WritePatch(j) \/ WriteMetadata(j)
       \/ AppendEvent(j) \/ EnsureSourceClean(j) \/ Applies(j) \/ Conflicts(j)
       \/ ReadHeads(j) \/ WritePlan(j) \/ Dies(j)

Spec == Init /\ [][Next]_vars

-----------------------------------------------------------------------------
\* verify_workspace_diff_artifact: nothing recorded counts as verified, and a
\* patch outside the artifacts does not.
DiffVerified(r) ==
  \/ meta[r] = None
  \/ /\ meta[r] # Torn /\ ~meta[r].elsewhere
     /\ patch[r] = meta[r].digest

\* When no command is at work on a run, the metadata of its workspace diff
\* describe the patch that lies beside them, whatever sequence of vcs diff with
\* and without --output and of vcs apply has come before: only a record that
\* was cut short, or two that overlapped, leave a digest that does not match.
RecordsAgree ==
  \A r \in Runs :
    Working(r) = {} /\ r \notin blurred
      => DiffVerified(r) \/ (meta[r] # Torn /\ meta[r].elsewhere)

\* vcs apply brings nothing into the source that is older than its own start:
\* it takes the diff anew before it applies it, although it applies the file
\* and not what it read.  Only a second command on the same run can put an
\* older patch there in between.
AppliesFreshPatch ==
  [][\A j \in Jobs :
       pc[j] = "apply" /\ src' # src /\ src'.runFile = job[j].run /\ pc'[j] = "idle"
         => \/ job[j].run \in blurred
            \/ patch[job[j].run].tracked >= job[j].began]_vars

\* A plan that recommends the merge is as good as its word for as long as the
\* base ref stays where the plan saw it: there is a patch, and `git apply`
\* takes it on the clean source, however the worktree, its HEAD and the base
\* ref were moved around while the plan was made.  Not so for a patch without
\* text and one that a crash has cut short, which merge_plan does not open.
CandidateApplies ==
  \A r \in Runs :
    plan[r] \notin {None, Torn} /\ plan[r].candidate /\ plan[r].base = src.ref /\ ~Dirty
      => /\ patch[r] # None
         /\ patch[r] = Torn \/ Blank(patch[r]) \/ Accepts(patch[r])
=============================================================================
