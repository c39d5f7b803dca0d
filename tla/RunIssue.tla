------------------------------ MODULE RunIssue ------------------------------
(***************************************************************************)
(* The life of one run after its lease is granted, as its records show it: *)
(* the phases of cmd_run and of the use case run_issue, the trace events   *)
(* of each phase, the status column of table `runs`, and the artifact      *)
(* finalization_status.json, which `agentactr finalize` reads and which is *)
(* written before the row.  Each record is a write of its own: the process *)
(* can die, or a store refuse, between any two.                            *)
(*                                                                         *)
(* What a phase does (worktree, fetch, runtime, gates) and what the tracker*)
(* does with a mutation is either success or failure here; IssueLifecycle  *)
(* has the requests, LocalLease the lease row and the heartbeat.           *)
(***************************************************************************)
EXTENDS Integers

CONSTANTS
  Command,       \* executions of `finalize` of this run
  Policy,        \* "disabled", "require_human_review", "automatic_after_quality_gates"
  Overlap,       \* may a command start while the run or another one is under way?
  StoreFailures  \* can the trace, the run store or an artifact refuse a write?

ASSUME ConstantsAssumption ==
  /\ Policy \in {"disabled", "require_human_review", "automatic_after_quality_gates"}
  /\ Overlap \in BOOLEAN
  /\ StoreFailures \in BOOLEAN

Phases == {"memory", "worktree", "github_fetch", "codex_preflight", "codex_exec", "quality"}

\* What follows a phase that completed: between memory and worktree come the
\* child memory groups, the adapter report and the claim, which are no phases.
After(ph) ==
  CASE ph = "memory"          -> "setup"
    [] ph = "worktree"        -> "github_fetch"
    [] ph = "github_fetch"    -> "codex_preflight"
    [] ph = "codex_preflight" -> "codex_exec"
    [] ph = "codex_exec"      -> "quality"
    [] ph = "quality"         -> "lifecycle"

\* The status of lifecycle_mode_for_run_policy after gates that passed, and of
\* the Failure mode, which the policy "disabled" replaces by Disabled.
\* Mutant: the failure report of a reviewed policy is that of a success.
FailureStatusReviewed == "review_required"
FailureStatus == IF Policy = "disabled" THEN "disabled" ELSE "failed"
SuccessStatus ==
  CASE Policy = "disabled"             -> "disabled"
    [] Policy = "require_human_review" -> "review_required"
    [] OTHER                           -> "finalized"

Decisions     == {"finalized", "review_rejected"}
FileStatuses  == {"disabled", "review_required", "failed", "claim_not_acquired"} \cup Decisions

\* The value of runs.status: a plain status, or "<phase>_failed".
Status(s) == [status |-> s, phase |-> "none"]
PhaseFailure(ph) == [status |-> "phase_failed", phase |-> ph]

VARIABLES
  at,       \* where cmd_run is
  step,     \* the next write or call there
  cause,    \* the phase whose failure is being reported to the tracker
  events,   \* phase.started, phase.completed and phase.failed of the trace
  row,      \* runs.status
  file,     \* the status of finalization_status.json
  gates,    \* quality_report.status.json
  manifest, \* whether context_manifest.json has been written
  result,   \* what cmd_run returned
  cmd       \* where each command is, and the status it is to record

records == <<events, row, file, gates, manifest>>
vars == <<at, step, cause, records, result, cmd>>

Event(ph, what) == [phase |-> ph, event |-> what]
Places == Phases \cup {"setup", "claim", "refused", "failure", "lifecycle", "ended"}

TypeOK ==
  /\ at \in Places
  /\ step \in {"begin", "body", "complete", "record", "report", "mutate", "file", "row", "none"}
  /\ cause \in Phases \cup {"none"}
  /\ events \subseteq [phase : Phases, event : {"started", "completed", "failed"}]
  /\ row \in [status : {"started", "phase_failed"} \cup FileStatuses,
             phase : Phases \cup {"none"}]
  /\ file \in {"none", "torn"} \cup FileStatuses
  /\ gates \in {"none", "failed", "passed"}
  /\ manifest \in BOOLEAN
  /\ result \in {"none", "ok", "err", "crashed"}
  /\ cmd \in [Command -> [at : {"idle", "mutate", "file", "row", "ended"},
                          status : {"none"} \cup Decisions]]

Init ==
  /\ at = "memory" /\ step = "begin" /\ cause = "none"
  /\ events = {} /\ row = Status("started") /\ file = "none"
  /\ gates = "none" /\ manifest = FALSE
  /\ result = "none"
  /\ cmd = [c \in Command |-> [at |-> "idle", status |-> "none"]]

GoTo(place, what) == at' = place /\ step' = what
End(res) == GoTo("ended", "none") /\ result' = res
Enter(place) ==
  GoTo(place, IF place \in Phases THEN "begin" ELSE IF place = "lifecycle" THEN "mutate" ELSE "none")

-----------------------------------------------------------------------------
\* run_phase_inner and record_phase

PhaseStarts ==
  /\ at \in Phases /\ step = "begin"
  /\ events' = events \cup {Event(at, "started")}
  /\ GoTo(at, "body")
  /\ UNCHANGED <<cause, row, file, gates, manifest, result, cmd>>

\* The preflight writes the context manifest, the gates their status.
BodySucceeds ==
  /\ at \in Phases /\ step = "body"
  /\ manifest' = (manifest \/ at = "codex_preflight")
  /\ gates' = IF at = "quality" THEN "passed" ELSE gates
  /\ GoTo(at, "complete")
  /\ UNCHANGED <<cause, events, row, file, result, cmd>>

\* It may fail before or after it has written them; gates that cannot be run
\* at all leave no status.
BodyFails ==
  /\ at \in Phases /\ step = "body"
  /\ \E written \in BOOLEAN :
       /\ manifest' = (manifest \/ (at = "codex_preflight" /\ written))
       /\ gates' = IF at = "quality" /\ written THEN "failed" ELSE gates
  /\ GoTo(at, "record")
  /\ UNCHANGED <<cause, events, row, file, result, cmd>>

PhaseCompletes ==
  /\ at \in Phases /\ step = "complete"
  /\ events' = events \cup {Event(at, "completed")}
  /\ Enter(After(at))
  /\ UNCHANGED <<cause, row, file, gates, manifest, result, cmd>>

\* record_run_state(.., "<phase>_failed", ..)
\* Mutant: the status of a failed phase is not written.
RecordNoFailure ==
  /\ at \in Phases /\ step = "record"
  /\ GoTo(at, "report")
  /\ UNCHANGED <<cause, records, result, cmd>>
RecordFailure ==
  /\ at \in Phases /\ step = "record"
  /\ row' = PhaseFailure(at)
  /\ GoTo(at, "report")
  /\ UNCHANGED <<cause, events, file, gates, manifest, result, cmd>>

\* The error of a phase leaves it: that of "memory" ends cmd_run, that of a
\* later one is first reported to the tracker.
Raise ==
  IF at = "memory" THEN End("err") /\ UNCHANGED cause
                   ELSE GoTo("failure", "mutate") /\ cause' = at /\ UNCHANGED result

ReportFailure ==
  /\ at \in Phases /\ step = "report"
  /\ events' = events \cup {Event(at, "failed")}
  /\ Raise
  /\ UNCHANGED <<row, file, gates, manifest, cmd>>

\* Any of these writes can fail, which is an error of the phase too: one that
\* leaves no further record.
PhaseStoreFails ==
  /\ StoreFailures
  /\ at \in Phases /\ step \in {"begin", "complete", "record", "report"}
  /\ Raise
  /\ UNCHANGED <<records, cmd>>

-----------------------------------------------------------------------------
\* Between memory and worktree

Setup ==
  /\ at = "setup"
  /\ IF Policy = "disabled" THEN GoTo("worktree", "begin") ELSE GoTo("claim", "none")
  /\ UNCHANGED <<cause, records, result, cmd>>

Claimed ==
  /\ at = "claim"
  /\ GoTo("worktree", "begin")
  /\ UNCHANGED <<cause, records, result, cmd>>

NotClaimed ==
  /\ at = "claim"
  /\ GoTo("refused", "file")
  /\ UNCHANGED <<cause, records, result, cmd>>

\* `?` on the child memory groups, the adapter report, the tracker's answer or
\* the claim event.
SetupFails ==
  /\ at \in {"setup", "claim"}
  /\ End("err")
  /\ UNCHANGED <<cause, records, cmd>>

-----------------------------------------------------------------------------
\* Reporting: the tracker mutation, the file, the row

Reported ==
  CASE at = "lifecycle" -> SuccessStatus
    [] at = "failure"   -> FailureStatus
    [] at = "refused"   -> "claim_not_acquired"

\* Nothing that goes wrong in the report of a failure is an error; only
\* "quality_failed" is then recorded once more.
FailureReported ==
  IF cause = "quality" THEN GoTo("failure", "row") /\ UNCHANGED result ELSE End("err")

TrackerMutated ==
  /\ at \in {"lifecycle", "failure"} /\ step = "mutate"
  /\ GoTo(at, "file")
  /\ UNCHANGED <<cause, records, result, cmd>>

TrackerFails ==
  /\ at \in {"lifecycle", "failure"} /\ step = "mutate"
  /\ Policy # "disabled"
  /\ IF at = "failure" THEN FailureReported ELSE End("err")
  /\ UNCHANGED <<cause, records, cmd>>

\* record_lifecycle_report, record_finalization_status
\* Mutant: the row is written before the file.
WriteRowFirst ==
  /\ step = "file"
  /\ \/ row.status # Reported /\ row' = Status(Reported) /\ UNCHANGED <<at, step, file, result>>
     \/ /\ row.status = Reported
        /\ file' = Reported
        /\ IF at = "failure" THEN FailureReported ELSE GoTo(at, "row") /\ UNCHANGED result
        /\ UNCHANGED row
  /\ UNCHANGED <<cause, events, gates, manifest, cmd>>
WriteFile ==
  /\ step = "file"
  /\ file' = Reported
  /\ IF at = "failure" THEN FailureReported ELSE GoTo(at, "row") /\ UNCHANGED result
  /\ UNCHANGED <<cause, events, row, gates, manifest, cmd>>

FileFails ==
  /\ StoreFailures
  /\ step = "file"
  /\ IF at = "failure" THEN FailureReported ELSE End("err")
  /\ UNCHANGED <<cause, records, cmd>>

\* record_run_state.  The trace event that follows its commit, and for a
\* success the heartbeat's report, can still turn the result into an error.
WriteRow ==
  /\ step = "row"
  /\ row' = IF at = "failure" THEN PhaseFailure(cause) ELSE Status(Reported)
  /\ \E res \in {"ok", "err"} : End(res) /\ (res = "ok" => at = "lifecycle")
  /\ UNCHANGED <<cause, events, file, gates, manifest, cmd>>

\* The "finalization.status" event, or the row, is refused.
RowFails ==
  /\ StoreFailures
  /\ step = "row"
  /\ End("err")
  /\ UNCHANGED <<cause, records, cmd>>

\* The process dies.  fs::write truncates before it writes: the file may be
\* left without its content.
Crash ==
  /\ at # "ended"
  /\ End("crashed")
  /\ file' \in IF step = "file" THEN {file, "torn"} ELSE {file}
  /\ UNCHANGED <<cause, events, row, gates, manifest, cmd>>

-----------------------------------------------------------------------------
\* cmd_finalize

Undisturbed == Overlap \/ (at = "ended" /\ \A c \in Command : cmd[c].at \in {"idle", "ended"})

\* validate_recorded_finalization_status and load_recorded_quality_summary
\* Mutant: --resume repeats any decision.
PermitsAny(decision, resume) ==
  IF decision = "finalized"
    THEN /\ file = "review_required" \/ (resume /\ file \in Decisions)
         /\ gates = "passed"
    ELSE file \in {"review_required", "failed"} \/ (resume /\ file \in Decisions)
Permits(decision, resume) ==
  IF decision = "finalized"
    THEN /\ file = "review_required" \/ (resume /\ file = "finalized")
         /\ gates = "passed"
    ELSE file \in {"review_required", "failed"} \/ (resume /\ file = "review_rejected")

StartCommand(c) ==
  /\ cmd[c].at = "idle"
  /\ Undisturbed
  /\ manifest
  /\ \E decision \in Decisions, resume \in BOOLEAN :
       /\ Permits(decision, resume)
       /\ cmd' = [cmd EXCEPT ![c] = [at |-> "mutate", status |-> decision]]
  /\ UNCHANGED <<at, step, cause, records, result>>

CommandMutates(c) ==
  /\ cmd[c].at = "mutate"
  /\ cmd' = [cmd EXCEPT ![c].at = "file"]
  /\ UNCHANGED <<at, step, cause, records, result>>

CommandWritesFile(c) ==
  /\ cmd[c].at = "file"
  /\ file' = cmd[c].status
  /\ cmd' = [cmd EXCEPT ![c].at = "row"]
  /\ UNCHANGED <<at, step, cause, events, row, gates, manifest, result>>

CommandWritesRow(c) ==
  /\ cmd[c].at = "row"
  /\ row' = Status(cmd[c].status)
  /\ cmd' = [cmd EXCEPT ![c].at = "ended"]
  /\ UNCHANGED <<at, step, cause, events, file, gates, manifest, result>>

\* A call or a write fails, or the command dies, possibly while it writes.
CommandFails(c) ==
  /\ cmd[c].at \in {"mutate", "file", "row"}
  /\ cmd' = [cmd EXCEPT ![c].at = "ended"]
  /\ file' \in IF cmd[c].at = "file" THEN {file, "torn"} ELSE {file}
  /\ UNCHANGED <<at, step, cause, events, row, gates, manifest, result>>

-----------------------------------------------------------------------------
Phase ==
  \/ PhaseStarts \/ BodySucceeds \/ BodyFails \/ PhaseCompletes
  \/ RecordFailure \/ ReportFailure \/ PhaseStoreFails

Report == TrackerMutated \/ TrackerFails \/ WriteFile \/ FileFails \/ WriteRow \/ RowFails

Finalize(c) ==
  \/ StartCommand(c) \/ CommandMutates(c) \/ CommandWritesFile(c)
  \/ CommandWritesRow(c) \/ CommandFails(c)

Next ==
  \/ Phase
  \/ Setup \/ Claimed \/ NotClaimed \/ SetupFails
  \/ Report
  \/ Crash
  \/ \E c \in Command : Finalize(c)

Spec == Init /\ [][Next]_vars

-----------------------------------------------------------------------------
\* Properties

Completed == {ph \in Phases : Event(ph, "completed") \in events}
Failed    == {ph \in Phases : Event(ph, "failed") \in events}

\* A run that is offered for review, or is finalized, in the file or in the
\* store, has passed its gates, and the trace has every phase completed and
\* none failed: a lost trace event or a failed phase never ends in a review.
ReviewedRunIsClean ==
  {file, row.status} \cap {"review_required", "finalized"} # {} =>
    gates = "passed" /\ Completed = Phases /\ Failed = {}

\* The run store never gets ahead of the file: a status in the row that the
\* file can hold has been written to the file before, and a failed phase in
\* the row excludes the statuses of a success in the file, whichever writes
\* are lost to a crash.  It assumes that commands do not overlap.
RowFollowsFile ==
  /\ row.status \in FileStatuses =>
       \/ file \in {row.status, "torn"}
       \/ row.status = "review_required" /\ file \in Decisions
  /\ row.status = "phase_failed" =>
       file \in {"none", "failed", "disabled", "review_rejected", "torn"}

\* Once a person or the policy has decided, the decision stands: no later
\* step of the run or of any command replaces it by another one, in the file
\* or in the store.
DecisionStands ==
  [][/\ file \in Decisions => file' \in {file, "torn"}
     /\ row.status \in Decisions => row' = row]_vars

\* The trace never tells of a failed phase that the row does not: the row is
\* written first, and neither a later report, a crash nor a command that is
\* not a rejection takes it back.
TracedFailureIsRecorded ==
  \A ph \in Failed : row = PhaseFailure(ph) \/ row.status = "review_rejected"
=============================================================================
