---------------------------- MODULE WorkspacesProofs ----------------------------
(***************************************************************************)
(* Theorems about Workspaces, for any runs, commands that overlap on them, *)
(* and ways of the worktrees, the source checkout and its base ref.        *)
(***************************************************************************)
EXTENDS Workspaces, TLAPS

Places == {"idle", "capture", "rest", "patch", "metadata", "event", "clean", "apply", "weigh",
           "plan"}
Heads == [base : Commits, contained : BOOLEAN]
Job == [run : Runs, kind : Kinds, began : Versions, read : Patch \cup Heads \cup {None}]

Typed == TypeOK /\ job \in [Jobs -> Job \cup {None}]

\* The command makes a patch of its own and then applies it, or tries it.
Takes(j) == Mutating(j) \/ job[j].kind = "check"

\* What a command that is under way has read and written, and that the run's
\* worktree was there when it began.
Busy(j) ==
  pc[j] # "idle" =>
    LET r == job[j].run IN
    /\ job[j] \in Job
    /\ wt[r].state # "none" /\ job[j].began <= wt[r].version
    /\ pc[j] \in {"rest", "patch", "metadata"} =>
         /\ job[j].read \in Patch
         /\ job[j].read.base = wt[r].base /\ job[j].began <= job[j].read.tracked
    /\ pc[j] = "plan" => job[j].read \in Heads
    /\ pc[j] \in {"weigh", "plan"} => job[j].kind = "plan"
    /\ pc[j] \in {"clean", "apply"} => Takes(j)
    /\ r \notin blurred =>
         /\ pc[j] = "metadata" /\ ~ Elsewhere(j) => patch[r] = job[j].read
         /\ pc[j] \in {"event", "clean", "apply"} /\ Takes(j) =>
              patch[r] \in Patch /\ job[j].began <= patch[r].tracked

\* Two commands at work on one run blur its records.
Alone ==
  \A i, j \in Jobs :
    i # j /\ pc[i] # "idle" /\ pc[j] # "idle" /\ job[i].run = job[j].run => job[i].run \in blurred

Agree(r) == DiffVerified(r) \/ (meta[r] # Torn /\ meta[r].elsewhere)

\* What is recorded of a run was taken from its worktree, whose base commit
\* stays; and the metadata lag behind the patch only while a command writes them.
Kept(r) ==
  /\ patch[r] \in Patch => patch[r].base = wt[r].base /\ wt[r].state # "none"
  /\ plan[r] \in MergePlan /\ plan[r].candidate =>
       plan[r].base = wt[r].base /\ wt[r].state # "none" /\ patch[r] # None
  /\ r \notin blurred /\ (\A j \in Jobs : pc[j] = "metadata" /\ job[j].run = r => Elsewhere(j)) =>
       Agree(r)

IInv == Typed /\ Alone /\ (\A j \in Jobs : Busy(j)) /\ (\A r \in Runs : Kept(r))

LEMMA Bounds == MaxEdits \in Nat /\ MaxCommits \in Nat
  BY ConstantsAssumption, Zenon

LEMMA Settings ==
  /\ FailOnDirty \in BOOLEAN /\ CopyConfig \in BOOLEAN
  /\ MergeEnabled \in BOOLEAN /\ RunFileIgnored \in BOOLEAN
  BY ConstantsAssumption, Zenon

LEMMA Nothing ==
  /\ None # Torn
  /\ None \notin Patch \cup Metadata \cup MergePlan
  /\ Torn \notin Patch \cup Metadata \cup MergePlan
  BY ConstantsAssumption, Zenon

LEMMA InitialState == Init => IInv
<1> SUFFICES ASSUME Init PROVE IInv
  OBVIOUS
<1>1. 0 \in Commits /\ 0 \in Versions
  BY Bounds DEF Commits, Versions
<1>2. Typed
  BY <1>1 DEF Init, Typed, TypeOK, Source, Worktree, Owner
<1>3. Alone /\ \A j \in Jobs : Busy(j)
  BY DEF Init, Alone, Busy
<1>4. \A r \in Runs : Kept(r)
  BY Nothing DEF Init, Kept, Agree, DiffVerified
<1>5. QED
  BY <1>2, <1>3, <1>4 DEF IInv

-----------------------------------------------------------------------------
\* Worktrees and people

\* What no step of a worktree undoes.
Grows ==
  \A r \in Runs :
    /\ wt[r].version <= wt'[r].version
    /\ wt[r].state # "none" => wt'[r].state # "none" /\ wt'[r].base = wt[r].base

Frame == UNCHANGED <<patch, meta, plan, job, pc, blurred>>

\* A command and the records of a run bear what happens to the worktree.
LEMMA FrameKeeps ==
  ASSUME IInv, Typed', Grows, Frame
  PROVE  IInv'
<1>1. Alone'
  BY DEF IInv, Alone, Frame
<1>2. ASSUME NEW j \in Jobs PROVE Busy(j)'
  <2>1. CASE pc[j] = "idle"
    BY <2>1 DEF Busy, Frame
  <2>2. CASE pc[j] # "idle"
    <3>1. Busy(j) /\ job[j].run \in Runs
      BY <2>2 DEF IInv, Busy, Job
    <3>2. /\ wt[job[j].run].version \in Int /\ wt'[job[j].run].version \in Int
          /\ job[j].began \in Int
      BY <2>2, <3>1 DEF IInv, Typed, TypeOK, Worktree, Versions, Busy, Job
    <3>3. /\ wt'[job[j].run].state # "none" /\ wt'[job[j].run].base = wt[job[j].run].base
          /\ job[j].began <= wt'[job[j].run].version
      BY <2>2, <3>1, <3>2 DEF Busy, Grows
    <3>4. QED
      BY <2>2, <3>1, <3>3 DEF Busy, Takes, Mutating, Elsewhere, Frame
  <2>3. QED
    BY <2>1, <2>2
<1>3. ASSUME NEW r \in Runs PROVE Kept(r)'
  BY DEF IInv, Kept, Agree, DiffVerified, Elsewhere, Grows, Frame
<1>4. QED
  BY <1>1, <1>2, <1>3 DEF IInv

Preparation(r) ==
  \/ ResolveBase(r) \/ EnsureClean(r) \/ AddWorktree(r) \/ CopyRuntimeConfig(r)
  \/ WriteRunFile(r) \/ PreparationFails(r) \/ WriteManifest(r)
  \/ AgentEdits(r) \/ MovesHead(r) \/ RemovesWorktree(r)

LEMMA PreparationStep ==
  ASSUME IInv, NEW r \in Runs, Preparation(r)
  PROVE  IInv'
<1>1. Typed
  BY DEF IInv
<1>2. wt \in [Runs -> Worktree] /\ src.ref \in Commits /\ src.changed \in BOOLEAN
  BY <1>1 DEF Typed, TypeOK, Source
<1>3. \A v \in Versions : v \in Int /\ (v < MaxEdits => v + 1 \in Versions)
  BY Bounds DEF Versions
<1>4. /\ wt' \in [Runs -> Worktree]
      /\ \A q \in Runs : q # r => wt'[q] = wt[q]
      /\ wt[r].version <= wt'[r].version
      /\ wt[r].state # "none" => wt'[r].state # "none" /\ wt'[r].base = wt[r].base
  <2>1. wt[r].version \in Versions /\ wt[r].version \in Int
    BY <1>2, <1>3 DEF Worktree
  <2>2. CASE ResolveBase(r)
    <3> DEFINE w == [[[wt[r] EXCEPT !.state = "resolved"] EXCEPT !.base = src.ref]
                       EXCEPT !.contains = src.ref]
    <3>1. wt[r].state = "none" /\ wt' = [wt EXCEPT ![r] = w]
      BY <1>2, <2>2 DEF ResolveBase
    <3>2. w \in Worktree /\ w.version = wt[r].version
      BY <1>2 DEF Worktree
    <3>3. QED
      BY <1>2, <2>1, <3>1, <3>2
  <2>3. ASSUME NEW from, NEW to \in {"checked", "added", "ready", "failed", "gone"},
               from # "none", Prepares(r, from, to)
        PROVE  /\ wt' \in [Runs -> Worktree]
               /\ \A q \in Runs : q # r => wt'[q] = wt[q]
               /\ wt[r].version <= wt'[r].version
               /\ wt[r].state # "none" => wt'[r].state # "none" /\ wt'[r].base = wt[r].base
    BY <1>2, <2>1, <2>3 DEF Prepares, Worktree
  <2>4. CASE EnsureClean(r) \/ AddWorktree(r) \/ WriteRunFile(r) \/ RemovesWorktree(r)
    BY <2>3, <2>4 DEF EnsureClean, AddWorktree, WriteRunFile, RemovesWorktree
  <2>5. CASE PreparationFails(r)
    BY <2>3, <2>5 DEF PreparationFails
  <2>6. CASE CopyRuntimeConfig(r)
    <3>1. (CopyConfig /\ src.changed) \in BOOLEAN
      BY <1>2, Settings
    <3>2. PICK own \in BOOLEAN :
            wt' = [wt EXCEPT ![r].state = "overlaid", ![r].own = own]
      BY <2>6, <3>1, Zenon DEF CopyRuntimeConfig
    <3> DEFINE w == [[wt[r] EXCEPT !.state = "overlaid"] EXCEPT !.own = own]
    <3>3. wt' = [wt EXCEPT ![r] = w]
      BY <1>2, <3>2
    <3>4. w \in Worktree /\ w.state = "overlaid" /\ w.version = wt[r].version /\ w.base = wt[r].base
      BY <1>2, <3>2 DEF Worktree
    <3>5. QED
      BY <1>2, <2>1, <3>3, <3>4
  <2>7. CASE WriteManifest(r)
    BY <1>2, <2>1, <2>7 DEF WriteManifest
  <2>8. CASE AgentEdits(r)
    BY <1>2, <1>3, <2>1, <2>8 DEF AgentEdits, Worktree
  <2>9. CASE MovesHead(r)
    <3>1. 0 \in Commits
      BY Bounds DEF Commits
    <3>2. PICK n \in {0, src.ref} :
            wt' = [wt EXCEPT ![r].contains = n, ![r].version = @ + 1] /\ wt[r].version < MaxEdits
      BY <2>9 DEF MovesHead
    <3>3. n \in Commits /\ wt[r].version + 1 \in Versions
      BY <1>2, <1>3, <2>1, <3>1, <3>2
    <3> DEFINE w == [[wt[r] EXCEPT !.contains = n] EXCEPT !.version = wt[r].version + 1]
    <3>4. wt' = [wt EXCEPT ![r] = w]
      BY <1>2, <3>2
    <3>5. /\ w \in Worktree /\ w.version = wt[r].version + 1
          /\ w.state = wt[r].state /\ w.base = wt[r].base
      BY <1>2, <3>3 DEF Worktree
    <3>6. QED
      BY <1>2, <2>1, <3>4, <3>5
  <2>10. QED
    BY <2>2, <2>4, <2>5, <2>6, <2>7, <2>8, <2>9 DEF Preparation
<1>5. Grows
  <2>1. \A q \in Runs : wt[q].version \in Int
    BY <1>2, <1>3 DEF Worktree
  <2>2. QED
    BY <1>4, <2>1 DEF Grows
<1>6. /\ UNCHANGED <<src, runFileAt, patch, meta, plan, job, pc, blurred>>
      /\ branches' = branches \/ branches' = branches \cup {BranchOf[r]}
      /\ manifest' = manifest \/ manifest' = [manifest EXCEPT ![r] = TRUE]
  BY DEF Preparation, ResolveBase, EnsureClean, AddWorktree, CopyRuntimeConfig, WriteRunFile,
         PreparationFails, WriteManifest, AgentEdits, MovesHead, RemovesWorktree, Prepares,
         repository, artifacts
<1>7. branches' \subseteq {BranchOf[q] : q \in Runs} /\ manifest' \in [Runs -> BOOLEAN]
  BY <1>1, <1>6 DEF Typed, TypeOK
<1>8. Typed'
  BY <1>1, <1>4, <1>6, <1>7 DEF Typed, TypeOK
<1>9. QED
  BY <1>5, <1>6, <1>8, FrameKeeps DEF Frame

LEMMA PeopleStep ==
  ASSUME IInv, PersonEdits \/ PersonCommits \/ PersonRestores
  PROVE  IInv'
<1>1. Typed
  BY DEF IInv
<1>2. /\ src \in Source /\ runFileAt \in [Commits -> Owner]
      /\ src.ref \in Commits /\ src.runFile \in Owner
  BY <1>1 DEF Typed, TypeOK, Source
<1>3. \A n \in Commits : n < MaxCommits => n + 1 \in Commits
  BY Bounds DEF Commits
<1>4. src' \in Source /\ runFileAt' \in [Commits -> Owner]
  <2>1. CASE PersonEdits
    BY <1>2, <2>1 DEF PersonEdits, Source
  <2>2. CASE PersonCommits
    BY <1>2, <1>3, <2>2 DEF PersonCommits, Source
  <2>3. CASE PersonRestores
    <3>1. runFileAt[src.ref] \in Owner
      BY <1>2
    <3>2. QED
      BY <1>2, <2>3, <3>1 DEF PersonRestores, Source
  <2>4. QED
    BY <2>1, <2>2, <2>3
<1>5. UNCHANGED <<branches, wt, manifest, patch, meta, plan, job, pc, blurred>>
  BY DEF PersonEdits, PersonCommits, PersonRestores, artifacts
<1>6. Typed'
  BY <1>1, <1>4, <1>5 DEF Typed, TypeOK
<1>7. Grows
  BY <1>1, <1>5 DEF Typed, TypeOK, Worktree, Versions, Grows
<1>8. QED
  BY <1>5, <1>6, <1>7, FrameKeeps DEF Frame

-----------------------------------------------------------------------------
\* Commands

\* What the step of a command leaves of the other commands and runs.
Apart(j) ==
  /\ \A i \in Jobs \ {j} : pc'[i] = pc[i] /\ job'[i] = job[i]
  /\ pc'[j] # "idle" => job'[j].run = job[j].run
  /\ \A r \in Runs \ {job[j].run} : patch'[r] = patch[r] /\ meta'[r] = meta[r] /\ plan'[r] = plan[r]
  /\ wt' = wt /\ blurred \subseteq blurred'

LEMMA CommandKeeps ==
  ASSUME IInv, NEW j \in Jobs, pc[j] # "idle", NEW r \in Runs, r = job[j].run,
         Typed', Apart(j), Busy(j)', Kept(r)'
  PROVE  IInv'
<1>1. ASSUME NEW i \in Jobs \ {j} PROVE Busy(i)'
  <2>1. CASE pc[i] = "idle"
    BY <2>1 DEF Busy, Apart
  <2>2. CASE pc[i] # "idle" /\ job[i].run = job[j].run
    <3>1. job[i].run \in blurred'
      BY <2>2 DEF IInv, Alone, Apart
    <3>2. pc'[i] = pc[i] /\ job'[i] = job[i] /\ wt' = wt
      BY DEF Apart
    <3>3. Busy(i)
      BY DEF IInv
    <3>4. QED
      BY <2>2, <3>1, <3>2, <3>3 DEF Busy, Takes, Mutating
  <2>3. CASE pc[i] # "idle" /\ job[i].run # job[j].run
    <3>1. Busy(i) /\ job[i].run \in Runs
      BY <2>3 DEF IInv, Busy, Job
    <3>2. /\ pc'[i] = pc[i] /\ job'[i] = job[i] /\ wt' = wt
          /\ patch'[job[i].run] = patch[job[i].run] /\ blurred \subseteq blurred'
      BY <2>3, <3>1 DEF Apart
    <3>3. QED
      BY <2>3, <3>1, <3>2 DEF Busy, Takes, Mutating, Elsewhere
  <2>4. QED
    BY <2>1, <2>2, <2>3
<1>2. Alone'
  BY DEF IInv, Alone, Apart
<1>3. ASSUME NEW q \in Runs \ {r} PROVE Kept(q)'
  <2>1. /\ patch'[q] = patch[q] /\ meta'[q] = meta[q] /\ plan'[q] = plan[q]
        /\ wt' = wt /\ blurred \subseteq blurred' /\ Kept(q)
    BY DEF Apart, IInv
  <2>2. ASSUME \A i \in Jobs : pc'[i] = "metadata" /\ job'[i].run = q => Elsewhere(i)'
        PROVE  \A i \in Jobs : pc[i] = "metadata" /\ job[i].run = q => Elsewhere(i)
    BY <2>2 DEF Apart, Elsewhere
  <2>3. Agree(q)' <=> Agree(q)
    BY <2>1 DEF Agree, DiffVerified
  <2>4. QED
    BY <2>1, <2>2, <2>3 DEF Kept
<1>4. QED
  BY <1>1, <1>2, <1>3 DEF IInv

\* A command finds the records of its run in agreement, but while it writes them.
LEMMA Undisturbed ==
  ASSUME IInv, NEW j \in Jobs, pc[j] # "idle", job[j].run \notin blurred,
         pc[j] # "metadata" \/ Elsewhere(j)
  PROVE  Agree(job[j].run)
<1>1. \A i \in Jobs : pc[i] = "metadata" /\ job[i].run = job[j].run => Elsewhere(i)
  BY DEF IInv, Alone
<1>2. job[j].run \in Runs /\ Kept(job[j].run)
  BY DEF IInv, Busy, Job
<1>3. QED
  BY <1>1, <1>2 DEF Kept

\* What a command is when it takes a step.
LEMMA AtWork ==
  ASSUME IInv, NEW j \in Jobs, pc[j] # "idle"
  PROVE  /\ Typed /\ Busy(j) /\ Kept(job[j].run)
         /\ job[j] \in Job /\ job[j].run \in Runs /\ job[j].began \in Int
         /\ wt[job[j].run] \in Worktree /\ wt[job[j].run].version \in Int
         /\ wt[job[j].run].state # "none" /\ job[j].began <= wt[job[j].run].version
<1>1. Typed /\ Busy(j) /\ job[j] \in Job /\ job[j].run \in Runs /\ job[j].began \in Int
  BY DEF IInv, Busy, Job, Versions
<1>2. Kept(job[j].run)
  BY <1>1 DEF IInv
<1>3. wt[job[j].run] \in Worktree
  BY <1>1 DEF Typed, TypeOK
<1>4. wt[job[j].run].version \in Int
  BY <1>3 DEF Worktree, Versions
<1>5. QED
  BY <1>1, <1>2, <1>3, <1>4 DEF Busy

\* A command goes on, with what it has read, or leaves.
LEMMA GoesOn ==
  ASSUME Typed, NEW j \in Jobs, job[j] \in Job, NEW x \in Patch \cup Heads \cup {None},
         NEW place \in Places, Goto(j, place), job' = [job EXCEPT ![j].read = x]
  PROVE  /\ pc' \in [Jobs -> Places] /\ pc'[j] = place
         /\ job' \in [Jobs -> Job \cup {None}] /\ job'[j] \in Job
         /\ job'[j].run = job[j].run /\ job'[j].kind = job[j].kind
         /\ job'[j].began = job[j].began /\ job'[j].read = x
         /\ \A i \in Jobs \ {j} : pc'[i] = pc[i] /\ job'[i] = job[i]
<1>1. pc \in [Jobs -> Places] /\ job \in [Jobs -> Job \cup {None}]
  BY DEF Typed, TypeOK, Places
<1> DEFINE b == [job[j] EXCEPT !.read = x]
<1>2. job' = [job EXCEPT ![j] = b]
  BY <1>1
<1>3. /\ b \in Job /\ b.run = job[j].run /\ b.kind = job[j].kind /\ b.began = job[j].began
      /\ b.read = x
  BY DEF Job
<1>4. QED
  BY <1>1, <1>2, <1>3 DEF Goto

LEMMA StaysAt ==
  ASSUME Typed, NEW j \in Jobs, NEW place \in Places, Goto(j, place), job' = job
  PROVE  /\ pc' \in [Jobs -> Places] /\ pc'[j] = place
         /\ job' \in [Jobs -> Job \cup {None}]
         /\ \A i \in Jobs \ {j} : pc'[i] = pc[i] /\ job'[i] = job[i]
  BY DEF Typed, TypeOK, Places, Goto

LEMMA LeavesAlone ==
  ASSUME Typed, NEW j \in Jobs, Leaves(j)
  PROVE  /\ pc' \in [Jobs -> Places] /\ pc'[j] = "idle"
         /\ job' \in [Jobs -> Job \cup {None}]
         /\ \A i \in Jobs \ {j} : pc'[i] = pc[i] /\ job'[i] = job[i]
  BY DEF Typed, TypeOK, Places, Goto, Leaves

LEMMA RecordsStay ==
  ASSUME IInv, NEW j \in Jobs, pc[j] # "idle", NEW r \in Runs, r = job[j].run,
         UNCHANGED <<patch, meta, plan, wt, blurred>>, pc[j] # "metadata" \/ Elsewhere(j)
  PROVE  Kept(r)'
<1>1. Kept(r) /\ (r \notin blurred => Agree(r))
  BY Undisturbed DEF IInv
<1>2. Agree(r)' <=> Agree(r)
  BY DEF Agree, DiffVerified
<1>3. QED
  BY <1>1, <1>2 DEF Kept

LEMMA ReadStep ==
  ASSUME IInv, NEW j \in Jobs, NEW r \in Runs, r = job[j].run,
         ReadTracked(j) \/ ReadUntracked(j) \/ ReadHeads(j)
  PROVE  IInv'
<1>1. /\ pc[j] \in {"capture", "rest", "weigh"}
      /\ UNCHANGED <<src, runFileAt, branches, wt, manifest, patch, meta, plan, blurred>>
  BY DEF ReadTracked, ReadUntracked, ReadHeads, repository, artifacts
<1>2. /\ Typed /\ Busy(j) /\ job[j] \in Job /\ r \in Runs /\ job[j].began \in Int
      /\ wt[r] \in Worktree /\ wt[r].version \in Int
      /\ wt[r].state # "none" /\ job[j].began <= wt[r].version
  BY <1>1, AtWork
<1>3. wt[r].base \in Commits /\ wt[r].version \in Versions /\ wt[r].own \in BOOLEAN /\ 0 \in Versions
  BY <1>2, Bounds DEF Worktree, Versions
<1>4. PICK x \in Patch \cup Heads, place \in {"rest", "patch", "plan"} :
        /\ Goto(j, place) /\ job' = [job EXCEPT ![j].read = x]
        /\ place \in {"rest", "patch"} =>
             x \in Patch /\ x.base = wt[r].base /\ job[j].began <= x.tracked
        /\ place = "plan" => pc[j] = "weigh" /\ x \in Heads
  <2>1. CASE ReadTracked(j)
    <3> DEFINE x == [base |-> wt[r].base, tracked |-> wt[r].version, untracked |-> 0,
                     own |-> wt[r].own]
    <3>1. x \in Patch /\ x.base = wt[r].base /\ job[j].began <= x.tracked
      BY <1>2, <1>3 DEF Patch
    <3>2. Goto(j, "rest") /\ job' = [job EXCEPT ![j].read = x]
      BY <2>1 DEF ReadTracked
    <3>3. QED
      BY <3>1, <3>2
  <2>2. CASE ReadUntracked(j)
    <3> DEFINE x == [job[j].read EXCEPT !.untracked = wt[r].version]
    <3>1. job[j].read \in Patch /\ job[j].read.base = wt[r].base /\ job[j].began <= job[j].read.tracked
      BY <1>2, <2>2 DEF ReadUntracked, Busy
    <3>2. x \in Patch /\ x.base = wt[r].base /\ job[j].began <= x.tracked
      BY <1>2, <1>3, <3>1 DEF Patch
    <3>3. Goto(j, "patch")
      BY <2>2 DEF ReadUntracked
    <3>4. job' = [job EXCEPT ![j].read = x]
      BY <1>2, <2>2 DEF ReadUntracked, Typed, Job
    <3>5. QED
      BY <3>2, <3>3, <3>4
  <2>3. CASE ReadHeads(j)
    <3>1. (wt[r].contains >= src.ref) \in BOOLEAN /\ src.ref \in Commits
      BY <1>2 DEF Typed, TypeOK, Source
    <3>2. PICK c \in BOOLEAN : job' = [job EXCEPT ![j].read = [base |-> src.ref, contained |-> c]]
      BY <2>3, <3>1 DEF ReadHeads
    <3>3. [base |-> src.ref, contained |-> c] \in Heads
      BY <3>1 DEF Heads
    <3>4. Goto(j, "plan") /\ pc[j] = "weigh"
      BY <2>3 DEF ReadHeads
    <3>5. QED
      BY <3>2, <3>3, <3>4
  <2>4. QED
    BY <2>1, <2>2, <2>3
<1>5. /\ pc' \in [Jobs -> Places] /\ pc'[j] = place
      /\ job' \in [Jobs -> Job \cup {None}] /\ job'[j] \in Job
      /\ job'[j].run = r /\ job'[j].kind = job[j].kind
      /\ job'[j].began = job[j].began /\ job'[j].read = x
      /\ \A i \in Jobs \ {j} : pc'[i] = pc[i] /\ job'[i] = job[i]
  BY <1>2, <1>4, GoesOn DEF Places
<1>6. Typed'
  BY <1>1, <1>2, <1>5 DEF Typed, TypeOK, Places
<1>7. Apart(j)
  BY <1>1, <1>5 DEF Apart
<1>8. Busy(j)'
  <2>1. place = "plan" => job[j].kind = "plan"
    BY <1>1, <1>2, <1>4 DEF Busy
  <2>2. QED
    BY <1>1, <1>2, <1>4, <1>5, <2>1 DEF Busy
<1>9. Kept(r)'
  BY <1>1, <1>2, RecordsStay
<1>10. QED
  BY <1>1, <1>2, <1>6, <1>7, <1>8, <1>9, CommandKeeps

LEMMA WritePatchStep ==
  ASSUME IInv, NEW j \in Jobs, NEW r \in Runs, r = job[j].run, WritePatch(j)
  PROVE  IInv'
<1>1. /\ pc[j] = "patch" /\ Goto(j, "metadata")
      /\ patch' = IF Elsewhere(j) THEN patch ELSE [patch EXCEPT ![r] = job[j].read]
      /\ UNCHANGED <<src, runFileAt, branches, wt, manifest, meta, plan, job, blurred>>
  BY DEF WritePatch, repository
<1>2. /\ Typed /\ Busy(j) /\ Kept(r) /\ job[j] \in Job /\ r \in Runs /\ wt[r].state # "none"
  BY <1>1, AtWork
<1>3. job[j].read \in Patch /\ job[j].read.base = wt[r].base /\ job[j].began <= job[j].read.tracked
  BY <1>1, <1>2 DEF Busy
<1>4. /\ patch' \in [Runs -> Patch \cup {None, Torn}]
      /\ \A q \in Runs \ {r} : patch'[q] = patch[q]
      /\ patch'[r] = IF Elsewhere(j) THEN patch[r] ELSE job[j].read
  BY <1>1, <1>2, <1>3 DEF Typed, TypeOK
<1>5. /\ pc' \in [Jobs -> Places] /\ pc'[j] = "metadata" /\ job' = job
      /\ \A i \in Jobs \ {j} : pc'[i] = pc[i]
  BY <1>1, <1>2, StaysAt DEF Places
<1>6. Typed'
  BY <1>1, <1>2, <1>4, <1>5 DEF Typed, TypeOK, Places
<1>7. Apart(j)
  BY <1>1, <1>4, <1>5 DEF Apart
<1>8. Busy(j)'
  BY <1>1, <1>2, <1>3, <1>4, <1>5 DEF Busy, Elsewhere
<1>9. Kept(r)'
  <2>1. CASE Elsewhere(j)
    BY <1>1, <1>2, <2>1, RecordsStay
  <2>2. CASE ~ Elsewhere(j)
    <3>1. patch'[r] \in Patch /\ patch'[r] # None /\ patch'[r].base = wt[r].base
      BY <1>3, <1>4, <2>2, Nothing
    <3>2. ~ \A i \in Jobs : pc'[i] = "metadata" /\ job'[i].run = r => Elsewhere(i)'
      BY <1>5, <2>2 DEF Elsewhere
    <3>3. QED
      BY <1>1, <1>2, <3>1, <3>2 DEF Kept
  <2>3. QED
    BY <2>1, <2>2
<1>10. QED
  BY <1>1, <1>2, <1>6, <1>7, <1>8, <1>9, CommandKeeps

LEMMA WriteMetadataStep ==
  ASSUME IInv, NEW j \in Jobs, NEW r \in Runs, r = job[j].run, WriteMetadata(j)
  PROVE  IInv'
<1> DEFINE m == [elsewhere |-> Elsewhere(j), digest |-> job[j].read]
<1>1. /\ pc[j] = "metadata" /\ Goto(j, "event")
      /\ meta' = [meta EXCEPT ![r] = m] /\ job' = [job EXCEPT ![j].read = None]
      /\ UNCHANGED <<src, runFileAt, branches, wt, manifest, patch, plan, blurred>>
  BY DEF WriteMetadata, repository
<1>2. /\ Typed /\ Busy(j) /\ Kept(r) /\ job[j] \in Job /\ r \in Runs /\ wt[r].state # "none"
      /\ job[j].began <= wt[r].version
  BY <1>1, AtWork
<1>3. /\ job[j].read \in Patch /\ job[j].began <= job[j].read.tracked
      /\ r \notin blurred /\ ~ Elsewhere(j) => patch[r] = job[j].read
  BY <1>1, <1>2 DEF Busy
<1>4. Elsewhere(j) \in BOOLEAN
  BY DEF Elsewhere
<1>5. m \in Metadata /\ (m.elsewhere <=> Elsewhere(j)) /\ m.digest = job[j].read
  BY <1>3, <1>4 DEF Metadata
<1> HIDE DEF m
<1>6. /\ meta' \in [Runs -> Metadata \cup {None, Torn}] /\ meta'[r] = m
      /\ \A q \in Runs \ {r} : meta'[q] = meta[q]
  BY <1>1, <1>2, <1>5 DEF Typed, TypeOK
<1>7. /\ pc' \in [Jobs -> Places] /\ pc'[j] = "event"
      /\ job' \in [Jobs -> Job \cup {None}] /\ job'[j] \in Job
      /\ job'[j].run = r /\ job'[j].kind = job[j].kind /\ job'[j].began = job[j].began
      /\ \A i \in Jobs \ {j} : pc'[i] = pc[i] /\ job'[i] = job[i]
  BY <1>1, <1>2, GoesOn DEF Places
<1>8. Typed'
  BY <1>1, <1>2, <1>6, <1>7 DEF Typed, TypeOK, Places
<1>9. Apart(j)
  BY <1>1, <1>6, <1>7 DEF Apart
<1>10. Busy(j)'
  <2>1. Takes(j)' => ~ Elsewhere(j)
    BY <1>7 DEF Takes, Mutating, Elsewhere
  <2>2. job'[j].run \notin blurred' /\ Takes(j)' =>
          patch'[r] \in Patch /\ job[j].began <= patch'[r].tracked
    BY <1>1, <1>3, <1>7, <2>1
  <2>3. /\ wt'[r].state # "none" /\ job'[j].began <= wt'[r].version
        /\ job'[j].run = r /\ job'[j] \in Job /\ pc'[j] = "event"
    BY <1>1, <1>2, <1>7
  <2>4. QED
    BY <1>7, <2>2, <2>3 DEF Busy
<1>11. r \notin blurred => Agree(r)'
  BY <1>1, <1>3, <1>5, <1>6, Nothing DEF Agree, DiffVerified
<1>12. Kept(r)'
  BY <1>1, <1>2, <1>11 DEF Kept
<1>13. QED
  BY <1>1, <1>2, <1>8, <1>9, <1>10, <1>12, CommandKeeps

LEMMA ApplyStep ==
  ASSUME IInv, NEW j \in Jobs, NEW r \in Runs, r = job[j].run,
         AppendEvent(j) \/ EnsureSourceClean(j) \/ Applies(j) \/ Conflicts(j)
  PROVE  IInv'
<1>1. /\ pc[j] \in {"event", "clean", "apply"}
      /\ UNCHANGED <<runFileAt, branches, wt, manifest, patch, meta, plan, blurred>>
      /\ \/ Leaves(j)
         \/ Takes(j) /\ job' = job /\ \E place \in {"clean", "apply"} : Goto(j, place)
  <2>1. pc[j] = "clean" => Takes(j)
    BY AtWork DEF Busy
  <2>2. QED
    BY <2>1 DEF AppendEvent, EnsureSourceClean, Applies, Conflicts, Takes, repository, artifacts
<1>2. /\ Typed /\ Busy(j) /\ job[j] \in Job /\ wt[r].state # "none"
      /\ job[j].began <= wt[r].version
  BY <1>1, AtWork
<1>3. src' \in Source
  <2>1. src \in Source /\ r \in Owner
    BY <1>2 DEF Typed, TypeOK, Owner
  <2>2. CASE AppendEvent(j) \/ EnsureSourceClean(j)
    BY <2>1, <2>2 DEF AppendEvent, EnsureSourceClean, repository
  <2>3. CASE Applies(j)
    <3>1. src' = src \/ src' = [src EXCEPT !.changed = TRUE, !.runFile = r]
          \/ src' = [src EXCEPT !.changed = TRUE, !.runFile = src.runFile]
      BY <2>3 DEF Applies
    <3>2. QED
      BY <2>1, <3>1 DEF Source
  <2>4. CASE Conflicts(j)
    <3>1. PICK left \in BOOLEAN : src' = [src EXCEPT !.changed = src.changed \/ left]
      BY <2>4 DEF Conflicts
    <3>2. (src.changed \/ left) \in BOOLEAN
      BY <2>1, <3>1 DEF Source
    <3>3. PICK c \in BOOLEAN : src' = [src EXCEPT !.changed = c]
      BY <3>1, <3>2
    <3>4. QED
      BY <2>1, <3>3 DEF Source
  <2>5. QED
    BY <2>2, <2>3, <2>4
<1>4. /\ pc' \in [Jobs -> Places] /\ job' \in [Jobs -> Job \cup {None}]
      /\ \A i \in Jobs \ {j} : pc'[i] = pc[i] /\ job'[i] = job[i]
      /\ \/ pc'[j] = "idle"
         \/ Takes(j) /\ job' = job /\ pc'[j] \in {"clean", "apply"}
  <2>1. CASE Leaves(j)
    BY <1>2, <2>1, LeavesAlone
  <2>2. CASE Takes(j) /\ job' = job /\ \E place \in {"clean", "apply"} : Goto(j, place)
    BY <1>2, <2>2, StaysAt DEF Places
  <2>3. QED
    BY <1>1, <2>1, <2>2
<1>5. Typed'
  BY <1>1, <1>2, <1>3, <1>4 DEF Typed, TypeOK, Places
<1>6. Apart(j)
  BY <1>1, <1>4 DEF Apart
<1>7. Busy(j)'
  <2>1. CASE pc'[j] = "idle"
    BY <2>1 DEF Busy
  <2>2. CASE Takes(j) /\ job' = job /\ pc'[j] \in {"clean", "apply"}
    BY <1>1, <1>2, <2>2 DEF Busy, Takes, Mutating
  <2>3. QED
    BY <1>4, <2>1, <2>2
<1>8. Kept(r)'
  BY <1>1, RecordsStay
<1>9. QED
  BY <1>1, <1>5, <1>6, <1>7, <1>8, CommandKeeps

LEMMA WritePlanStep ==
  ASSUME IInv, NEW j \in Jobs, NEW r \in Runs, r = job[j].run, WritePlan(j)
  PROVE  IInv'
<1> DEFINE p == [candidate |-> Recommended(j), base |-> job[j].read.base]
<1>1. /\ pc[j] = "plan" /\ Goto(j, "event")
      /\ plan' = [plan EXCEPT ![r] = p] /\ job' = [job EXCEPT ![j].read = None]
      /\ UNCHANGED <<src, runFileAt, branches, wt, manifest, patch, meta, blurred>>
  BY DEF WritePlan, repository
<1>2. /\ Typed /\ Busy(j) /\ Kept(r) /\ job[j] \in Job /\ wt[r].state # "none"
      /\ job[j].began <= wt[r].version
  BY <1>1, AtWork
<1>3. job[j].read \in Heads /\ job[j].kind = "plan"
  BY <1>1, <1>2 DEF Busy
<1>4. Recommended(j) \in BOOLEAN /\ (Recommended(j) => job[j].read.base = wt[r].base /\ patch[r] # None)
  BY <1>3, Settings DEF Recommended, Heads
<1>5. /\ p \in MergePlan /\ p.base = job[j].read.base /\ (p.candidate <=> Recommended(j))
  BY <1>3, <1>4 DEF MergePlan, Heads
<1> HIDE DEF p
<1>6. /\ plan' \in [Runs -> MergePlan \cup {None, Torn}] /\ plan'[r] = p
      /\ \A q \in Runs \ {r} : plan'[q] = plan[q]
  BY <1>1, <1>2, <1>5 DEF Typed, TypeOK
<1>7. /\ pc' \in [Jobs -> Places] /\ pc'[j] = "event"
      /\ job' \in [Jobs -> Job \cup {None}] /\ job'[j] \in Job
      /\ job'[j].run = r /\ job'[j].kind = job[j].kind /\ job'[j].began = job[j].began
      /\ \A i \in Jobs \ {j} : pc'[i] = pc[i] /\ job'[i] = job[i]
  BY <1>1, <1>2, GoesOn DEF Places
<1>8. Typed'
  BY <1>1, <1>2, <1>6, <1>7 DEF Typed, TypeOK, Places
<1>9. Apart(j)
  BY <1>1, <1>6, <1>7 DEF Apart
<1>10. Busy(j)'
  <2>1. ~ Takes(j)'
    BY <1>3, <1>7 DEF Takes, Mutating
  <2>2. /\ wt'[r].state # "none" /\ job'[j].began <= wt'[r].version
        /\ job'[j].run = r /\ job'[j] \in Job /\ pc'[j] = "event"
    BY <1>1, <1>2, <1>7
  <2>3. QED
    BY <1>7, <2>1, <2>2 DEF Busy
<1>11. Kept(r)'
  <2>1. r \notin blurred => Agree(r)'
    BY <1>1, Undisturbed DEF Agree, DiffVerified
  <2>2. QED
    BY <1>1, <1>2, <1>4, <1>5, <1>6, <2>1 DEF Kept
<1>12. QED
  BY <1>1, <1>8, <1>9, <1>10, <1>11, CommandKeeps

LEMMA DeathStep ==
  ASSUME IInv, NEW j \in Jobs, NEW r \in Runs, r = job[j].run, Dies(j)
  PROVE  IInv'
<1>1. /\ pc[j] # "idle" /\ Leaves(j)
      /\ UNCHANGED <<src, runFileAt, branches, wt, manifest>>
      /\ patch' = patch \/ (pc[j] = "patch" /\ patch' = [patch EXCEPT ![r] = Torn])
      /\ meta' = meta \/ (pc[j] = "metadata" /\ meta' = [meta EXCEPT ![r] = Torn])
      /\ plan' = plan \/ plan' = [plan EXCEPT ![r] = Torn]
      /\ blurred' = IF pc[j] \in {"patch", "metadata"} THEN blurred \cup {r} ELSE blurred
  BY DEF Dies, repository
<1>2. Typed /\ Busy(j) /\ Kept(r)
  BY <1>1, AtWork
<1>3. /\ patch \in [Runs -> Patch \cup {None, Torn}] /\ meta \in [Runs -> Metadata \cup {None, Torn}]
      /\ plan \in [Runs -> MergePlan \cup {None, Torn}]
  BY <1>2 DEF Typed, TypeOK
<1>4. /\ patch' \in [Runs -> Patch \cup {None, Torn}] /\ meta' \in [Runs -> Metadata \cup {None, Torn}]
      /\ plan' \in [Runs -> MergePlan \cup {None, Torn}]
      /\ \A q \in Runs \ {r} : patch'[q] = patch[q] /\ meta'[q] = meta[q] /\ plan'[q] = plan[q]
  BY <1>1, <1>3
<1>5. /\ pc' \in [Jobs -> Places] /\ pc'[j] = "idle" /\ job' \in [Jobs -> Job \cup {None}]
      /\ \A i \in Jobs \ {j} : pc'[i] = pc[i] /\ job'[i] = job[i]
  BY <1>1, <1>2, LeavesAlone
<1>6. Typed'
  BY <1>1, <1>2, <1>4, <1>5 DEF Typed, TypeOK, Places
<1>7. Apart(j)
  BY <1>1, <1>4, <1>5 DEF Apart
<1>8. Busy(j)'
  BY <1>5 DEF Busy
<1>9. Kept(r)'
  <2>1. /\ patch'[r] \in Patch => patch'[r] = patch[r]
        /\ patch[r] # None => patch'[r] # None
        /\ plan'[r] \in MergePlan => plan'[r] = plan[r]
    BY <1>1, <1>3, Nothing
  <2>2. r \notin blurred' => Agree(r)'
    BY <1>1, <1>3, Undisturbed DEF Agree, DiffVerified
  <2>3. QED
    BY <1>1, <1>2, <2>1, <2>2 DEF Kept
<1>10. QED
  BY <1>1, <1>6, <1>7, <1>8, <1>9, CommandKeeps

LEMMA BeginStep ==
  ASSUME IInv, NEW j \in Jobs, NEW r \in Runs, Begin(j, r)
  PROVE  IInv'
<1>1. PICK kind \in Kinds :
        /\ job' = [job EXCEPT ![j] = [run |-> r, kind |-> kind, began |-> wt[r].version,
                                      read |-> None]]
        /\ Goto(j, IF kind = "plan" THEN "weigh" ELSE "capture")
  BY DEF Begin
<1>2. /\ pc[j] = "idle" /\ wt[r].state = "ready"
      /\ blurred' = IF Working(r) = {} THEN blurred ELSE blurred \cup {r}
      /\ UNCHANGED <<src, runFileAt, branches, wt, manifest, patch, meta, plan>>
  BY DEF Begin, InScope, repository, artifacts
<1>3. Typed /\ wt[r].version \in Versions /\ wt[r].version \in Int
  BY DEF IInv, Typed, TypeOK, Worktree, Versions
<1> DEFINE b == [run |-> r, kind |-> kind, began |-> wt[r].version, read |-> None]
<1>4. b \in Job /\ b.run = r /\ b.kind = kind /\ b.began = wt[r].version
  BY <1>3 DEF Job
<1>5. /\ pc' \in [Jobs -> Places] /\ pc'[j] = IF kind = "plan" THEN "weigh" ELSE "capture"
      /\ job' \in [Jobs -> Job \cup {None}] /\ job'[j] = b
      /\ \A i \in Jobs \ {j} : pc'[i] = pc[i] /\ job'[i] = job[i]
  BY <1>1, <1>3, <1>4 DEF Typed, TypeOK, Places, Goto
<1> HIDE DEF b
<1>6. Typed'
  BY <1>2, <1>3, <1>5 DEF Typed, TypeOK, Places
<1>7. Alone'
  <2>1. ASSUME NEW i \in Jobs \ {j}, pc[i] # "idle", job[i].run = r PROVE r \in blurred'
    BY <1>2, <2>1 DEF Working
  <2>2. QED
    BY <1>2, <1>4, <1>5, <2>1 DEF IInv, Alone
<1>8. Busy(j)'
  BY <1>1, <1>2, <1>3, <1>4, <1>5 DEF Busy
<1>9. ASSUME NEW i \in Jobs \ {j} PROVE Busy(i)'
  <2>1. Busy(i) /\ pc'[i] = pc[i] /\ job'[i] = job[i] /\ wt' = wt /\ patch' = patch
        /\ blurred \subseteq blurred'
    BY <1>2, <1>5 DEF IInv
  <2>2. QED
    BY <2>1 DEF Busy, Takes, Mutating, Elsewhere
<1>10. ASSUME NEW q \in Runs PROVE Kept(q)'
  <2>1. Kept(q) /\ blurred \subseteq blurred'
    BY <1>2 DEF IInv
  <2>2. ASSUME \A i \in Jobs : pc'[i] = "metadata" /\ job'[i].run = q => Elsewhere(i)'
        PROVE  \A i \in Jobs : pc[i] = "metadata" /\ job[i].run = q => Elsewhere(i)
    BY <1>2, <1>5, <2>2 DEF Elsewhere
  <2>3. Agree(q)' <=> Agree(q)
    BY <1>2 DEF Agree, DiffVerified
  <2>4. QED
    BY <1>2, <2>1, <2>2, <2>3 DEF Kept
<1>11. QED
  BY <1>6, <1>7, <1>8, <1>9, <1>10 DEF IInv

LEMMA Step == IInv /\ [Next]_vars => IInv'
<1> SUFFICES ASSUME IInv, [Next]_vars PROVE IInv'
  OBVIOUS
<1>1. CASE PersonEdits \/ PersonCommits \/ PersonRestores
  BY <1>1, PeopleStep
<1>2. ASSUME NEW r \in Runs, Preparation(r) PROVE IInv'
  BY <1>2, PreparationStep
<1>3. ASSUME NEW r \in Runs, NEW j \in Jobs, Begin(j, r) PROVE IInv'
  BY <1>3, BeginStep
<1>4. ASSUME NEW j \in Jobs,
             \/ ReadTracked(j) \/ ReadUntracked(j) \/ WritePatch(j) \/ WriteMetadata(j)
             \/ AppendEvent(j) \/ EnsureSourceClean(j) \/ Applies(j) \/ Conflicts(j)
             \/ ReadHeads(j) \/ WritePlan(j) \/ Dies(j)
      PROVE  IInv'
  <2>1. pc[j] # "idle"
    BY <1>4 DEF ReadTracked, ReadUntracked, WritePatch, WriteMetadata, AppendEvent,
         EnsureSourceClean, Applies, Conflicts, ReadHeads, WritePlan, Dies
  <2>2. PICK r \in Runs : r = job[j].run
    BY <2>1, AtWork
  <2>3. CASE ReadTracked(j) \/ ReadUntracked(j) \/ ReadHeads(j)
    BY <2>2, <2>3, ReadStep
  <2>4. CASE WritePatch(j)
    BY <2>2, <2>4, WritePatchStep
  <2>5. CASE WriteMetadata(j)
    BY <2>2, <2>5, WriteMetadataStep
  <2>6. CASE AppendEvent(j) \/ EnsureSourceClean(j) \/ Applies(j) \/ Conflicts(j)
    BY <2>2, <2>6, ApplyStep
  <2>7. CASE WritePlan(j)
    BY <2>2, <2>7, WritePlanStep
  <2>8. CASE Dies(j)
    BY <2>2, <2>8, DeathStep
  <2>9. QED
    BY <1>4, <2>3, <2>4, <2>5, <2>6, <2>7, <2>8
<1>5. CASE UNCHANGED vars
  <2>1. UNCHANGED <<src, runFileAt, branches, wt, manifest, patch, meta, plan, job, pc, blurred>>
    BY <1>5 DEF vars, repository, artifacts
  <2>2. Typed'
    BY <2>1 DEF IInv, Typed, TypeOK
  <2>3. Grows
    BY <2>1 DEF IInv, Typed, TypeOK, Worktree, Versions, Grows
  <2>4. QED
    BY <2>1, <2>2, <2>3, FrameKeeps DEF Frame
<1>6. QED
  BY <1>1, <1>2, <1>3, <1>4, <1>5 DEF Next, Preparation

-----------------------------------------------------------------------------
\* The values stay within their types, also what a command holds.
THEOREM TypeCorrect == Spec => []TypeOK
<1>1. IInv => TypeOK
  BY DEF IInv, Typed
<1>2. QED
  BY <1>1, InitialState, Step, PTL DEF Spec

\* The metadata of a workspace diff describe the patch that lies beside them,
\* whatever commands have come before, unless a record was cut short or two
\* commands overlapped.
THEOREM MetadataDescribePatch == Spec => []RecordsAgree
<1>1. IInv => RecordsAgree
  BY DEF IInv, Kept, Agree, Working, RecordsAgree
<1>2. QED
  BY <1>1, InitialState, Step, PTL DEF Spec

\* A recommended merge can be carried out while the base ref stays where the
\* plan saw it.
THEOREM CandidatesApply == Spec => []CandidateApplies
<1>1. IInv => CandidateApplies
  <2> SUFFICES ASSUME IInv, NEW r \in Runs, plan[r] \notin {None, Torn}, plan[r].candidate,
                      plan[r].base = src.ref, ~ Dirty
               PROVE  /\ patch[r] # None
                      /\ patch[r] = Torn \/ Blank(patch[r]) \/ Accepts(patch[r])
    BY DEF CandidateApplies
  <2>1. plan[r] \in MergePlan /\ patch[r] \in Patch \cup {None, Torn}
    BY DEF IInv, Typed, TypeOK
  <2>2. Kept(r)
    BY DEF IInv
  <2>3. patch[r] # None /\ (patch[r] \in Patch => patch[r].base = src.ref)
    BY <2>1, <2>2 DEF Kept
  <2>4. src.runFile = runFileAt[src.ref]
    BY DEF Dirty
  <2>5. QED
    BY <2>1, <2>3, <2>4 DEF Accepts, Refuses, RunFileClashes
<1>2. QED
  BY <1>1, InitialState, Step, PTL DEF Spec

\* What `vcs apply` brings into the source is not older than its own start,
\* unless a second command was at work on the run.
THEOREM FreshPatchApplied == Spec => AppliesFreshPatch
<1> DEFINE Fresh(j) ==
             pc[j] = "apply" /\ src' # src /\ src'.runFile = job[j].run /\ pc'[j] = "idle"
               => \/ job[j].run \in blurred
                  \/ patch[job[j].run].tracked >= job[j].began
           FreshStep == \A j \in Jobs : Fresh(j)
<1>1. IInv /\ [Next]_vars => [FreshStep]_vars
  <2> SUFFICES ASSUME IInv, NEW j \in Jobs, pc[j] = "apply", job[j].run \notin blurred
               PROVE  patch[job[j].run].tracked >= job[j].began
    OBVIOUS
  <2>1. Busy(j) /\ job[j].began \in Int
    BY AtWork
  <2>2. patch[job[j].run] \in Patch /\ job[j].began <= patch[job[j].run].tracked
    BY <2>1 DEF Busy
  <2>3. patch[job[j].run].tracked \in Int
    BY <2>2 DEF Patch, Versions
  <2>4. QED
    BY <2>1, <2>2, <2>3
<1>2. Spec => [][FreshStep]_vars
  BY <1>1, InitialState, Step, PTL DEF Spec
<1>3. QED
  BY <1>2 DEF AppliesFreshPatch
=============================================================================
