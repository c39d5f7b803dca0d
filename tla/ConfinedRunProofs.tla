------------------------- MODULE ConfinedRunProofs -------------------------
(***************************************************************************)
(* Theorems about RunIssue, for any commands and policy, and about         *)
(* ConfinedRun, for any agents, limits, hosts and number of processes:     *)
(* that it is a run of RunIssue, so that all that is proved of the one     *)
(* holds of the other, that a run which enforces limits is offered for     *)
(* review only if its agents were confined, and that a strict claim is     *)
(* true.                                                                   *)
(***************************************************************************)
EXTENDS ConfinedRun, SequenceTheorems, TLAPS

-----------------------------------------------------------------------------
\* The inductive invariants

\* Which writes a place has.
Stage ==
  /\ step \in {"begin", "body", "complete", "record", "report"} => at \in Phases
  /\ step = "mutate" => at \in {"lifecycle", "failure"}
  /\ step \in {"file", "row"} => at \in {"lifecycle", "failure", "refused"}
  /\ at = "failure" => cause \in Phases

\* A command that has started has a decision to record.
CommandsDecide == \A c \in Command : cmd[c].at \in {"mutate", "file", "row"} => cmd[c].status \in Decisions

\* The phases that have completed when cmd_run is at a place.
Passed ==
  /\ at \in {"setup", "claim", "worktree", "github_fetch", "codex_preflight",
             "codex_exec", "quality", "lifecycle"} => "memory" \in Completed
  /\ at \in {"github_fetch", "codex_preflight", "codex_exec", "quality", "lifecycle"} =>
       "worktree" \in Completed
  /\ at \in {"codex_preflight", "codex_exec", "quality", "lifecycle"} =>
       "github_fetch" \in Completed
  /\ at \in {"codex_exec", "quality", "lifecycle"} => "codex_preflight" \in Completed
  /\ at \in {"quality", "lifecycle"} => "codex_exec" \in Completed
  /\ at = "lifecycle" => "quality" \in Completed
  /\ at = "lifecycle" \/ (at = "quality" /\ step = "complete") => gates = "passed"
  /\ at \notin {"failure", "ended"} => Failed = {}

Clean == gates = "passed" /\ Completed = Phases /\ Failed = {}

\* Whatever shows or may yet record a success comes from a run that is clean
\* and past its phases.
Successes ==
  \/ {file, row.status} \cap {"review_required", "finalized"} # {}
  \/ \E c \in Command : cmd[c].status = "finalized"

CleanInv ==
  /\ TypeOK
  /\ Stage
  /\ CommandsDecide
  /\ Passed
  /\ Successes => Clean /\ at \in {"lifecycle", "ended"}

\* The file and the row while the run is under way, nobody else being there.
OwnRecords ==
  /\ at # "ended" => \A c \in Command : cmd[c].at = "idle"
  /\ at # "ended" => row.status \in {"started", "phase_failed"}
  /\ at \in {"lifecycle", "refused", "setup", "claim"} => row.status = "started"
  /\ at \in Phases /\ step \in {"begin", "body", "complete", "record"} => row.status = "started"
  /\ at # "ended" /\ step # "row" => file = "none"
  /\ at \in {"lifecycle", "refused"} /\ step = "row" => file = Reported
  /\ at = "failure" /\ step = "row" => file \in {"none", FailureStatus}
  /\ row.status # "failed"
  /\ row.status # "phase_failed" => row.phase = "none"

\* One command at a time, and what it found still stands.
Active(c) == cmd[c].at \in {"mutate", "file", "row"}
CommandRecords ==
  /\ \A c, d \in Command : Active(c) /\ Active(d) => c = d
  /\ \A c \in Command :
       /\ cmd[c].at \in {"mutate", "file"} /\ cmd[c].status = "finalized" =>
            file \in {"review_required", "finalized"}
       /\ cmd[c].at \in {"mutate", "file"} /\ cmd[c].status = "review_rejected" =>
            file \in {"review_required", "failed", "review_rejected"}
       /\ cmd[c].at = "row" => file = cmd[c].status

FileInv ==
  /\ TypeOK
  /\ Stage
  /\ CommandsDecide
  /\ OwnRecords
  /\ CommandRecords
  /\ RowFollowsFile

-----------------------------------------------------------------------------
USE DEF GoTo, End, Raise, FailureReported, records

LEMMA Typing ==
  ASSUME TypeOK, Stage, CommandsDecide, [Next]_vars
  PROVE  TypeOK'
<1> USE ConstantsAssumption DEF TypeOK, Places, Phases, FileStatuses, Decisions
<1>1. CASE PhaseStarts \/ ReportFailure \/ PhaseStoreFails
  <2>1. ASSUME at \in Phases, NEW what \in {"started", "completed", "failed"}
        PROVE  Event(at, what) \in [phase : Phases, event : {"started", "completed", "failed"}]
    BY <2>1 DEF Event
  <2>2. CASE PhaseStarts
    BY <2>1, <2>2 DEF PhaseStarts
  <2>3. CASE ReportFailure
    <3>1. at' \in Places /\ step' \in {"mutate", "none"} /\ cause' \in Phases \cup {"none"}
          /\ result' \in {"none", "ok", "err", "crashed"}
      BY <2>3 DEF ReportFailure
    <3>2. QED
      BY <2>1, <2>3, <3>1 DEF ReportFailure
  <2>4. CASE PhaseStoreFails
    <3>1. at' \in Places /\ step' \in {"mutate", "none"} /\ cause' \in Phases \cup {"none"}
          /\ result' \in {"none", "ok", "err", "crashed"}
      BY <2>4 DEF PhaseStoreFails
    <3>2. QED
      BY <2>4, <3>1 DEF PhaseStoreFails
  <2>5. QED
    BY <1>1, <2>2, <2>3, <2>4
<1>2. CASE BodySucceeds \/ BodyFails
  <2>1. manifest' \in BOOLEAN
    <3>1. BodySucceeds => manifest' \in BOOLEAN
      BY Zenon DEF BodySucceeds
    <3>2. BodyFails => manifest' \in BOOLEAN
      BY Zenon DEF BodyFails
    <3>3. QED
      BY <1>2, <3>1, <3>2
  <2>2. /\ at' \in Places /\ step' \in {"complete", "record"}
        /\ gates' \in {"none", "failed", "passed"}
        /\ UNCHANGED <<cause, events, row, file, result, cmd>>
    BY <1>2 DEF BodySucceeds, BodyFails
  <2>3. QED
    BY <2>1, <2>2
<1>3. CASE PhaseCompletes
  <2>1. at \in Phases /\ After(at) \in Places \ {"refused", "failure", "ended", "claim"}
    BY <1>3 DEF PhaseCompletes, After
  <2>2. at' \in Places /\ step' \in {"begin", "mutate", "none"}
    BY <1>3, <2>1 DEF PhaseCompletes, Enter
  <2>3. QED
    BY <1>3, <2>1, <2>2 DEF PhaseCompletes, Event
<1>4. CASE RecordFailure
  BY <1>4 DEF RecordFailure, PhaseFailure
<1>5. CASE Setup \/ Claimed \/ NotClaimed \/ SetupFails
  BY <1>5 DEF Setup, Claimed, NotClaimed, SetupFails
<1>6. CASE Report
  <2>1. step \in {"file", "row"} => Reported \in FileStatuses
    BY DEF Stage, Reported, SuccessStatus, FailureStatus
  <2>2. CASE TrackerMutated \/ TrackerFails
    BY <2>2 DEF TrackerMutated, TrackerFails
  <2>3. CASE WriteFile \/ FileFails \/ RowFails
    BY <2>1, <2>3 DEF WriteFile, FileFails, RowFails
  <2>4. CASE WriteRow
    BY <2>1, <2>4 DEF WriteRow, Status, PhaseFailure, Stage
  <2>5. QED
    BY <1>6, <2>2, <2>3, <2>4 DEF Report
<1>7. CASE Crash
  BY <1>7 DEF Crash
<1>8. ASSUME NEW c \in Command, Finalize(c) PROVE TypeOK'
  <2>1. CASE StartCommand(c)
    BY <2>1 DEF StartCommand
  <2>2. CASE CommandMutates(c)
    BY <2>2 DEF CommandMutates
  <2>3. CASE CommandWritesFile(c)
    BY <2>3 DEF CommandWritesFile, CommandsDecide
  <2>4. CASE CommandWritesRow(c)
    BY <2>4 DEF CommandWritesRow, Status, CommandsDecide
  <2>5. CASE CommandFails(c)
    BY <2>5 DEF CommandFails
  <2>6. QED
    BY <1>8, <2>1, <2>2, <2>3, <2>4, <2>5 DEF Finalize
<1>9. CASE UNCHANGED vars
  BY <1>9 DEF vars
<1>10. QED
  BY <1>1, <1>2, <1>3, <1>4, <1>5, <1>6, <1>7, <1>8, <1>9 DEF Next, Phase

LEMMA Staging ==
  ASSUME TypeOK, Stage, CommandsDecide, [Next]_vars
  PROVE  Stage' /\ CommandsDecide'
<1>1. Stage'
  <2> USE DEF TypeOK, Stage, Places, Phases
  <2>1. CASE PhaseStarts \/ BodySucceeds \/ BodyFails \/ RecordFailure
    BY <2>1 DEF PhaseStarts, BodySucceeds, BodyFails, RecordFailure
  <2>2. CASE PhaseCompletes
    BY <2>2 DEF PhaseCompletes, After, Enter
  <2>3. CASE ReportFailure \/ PhaseStoreFails
    BY <2>3 DEF ReportFailure, PhaseStoreFails
  <2>4. CASE Setup \/ Claimed \/ NotClaimed \/ SetupFails \/ Crash
    BY <2>4 DEF Setup, Claimed, NotClaimed, SetupFails, Crash
  <2>5. CASE Report
    BY <2>5 DEF Report, TrackerMutated, TrackerFails, WriteFile, FileFails, WriteRow, RowFails
  <2>6. ASSUME NEW c \in Command, Finalize(c) PROVE Stage'
    BY <2>6 DEF Finalize, StartCommand, CommandMutates, CommandWritesFile,
                CommandWritesRow, CommandFails
  <2>7. CASE UNCHANGED vars
    BY <2>7 DEF vars
  <2>8. QED
    BY <2>1, <2>2, <2>3, <2>4, <2>5, <2>6, <2>7 DEF Next, Phase
<1>2. CommandsDecide'
  <2> USE DEF TypeOK, CommandsDecide
  <2>1. ASSUME NEW c \in Command, Finalize(c) PROVE CommandsDecide'
    BY <2>1 DEF Finalize, StartCommand, CommandMutates, CommandWritesFile,
                CommandWritesRow, CommandFails
  <2>2. ASSUME UNCHANGED cmd PROVE CommandsDecide'
    BY <2>2
  <2>3. CASE \E c \in Command : Finalize(c)
    BY <2>1, <2>3
  <2>4. CASE Phase
    BY <2>2, <2>4 DEF Phase, PhaseStarts, BodySucceeds, BodyFails, PhaseCompletes,
                      RecordFailure, ReportFailure, PhaseStoreFails
  <2>5. CASE Setup \/ Claimed \/ NotClaimed \/ SetupFails \/ Crash
    BY <2>2, <2>5 DEF Setup, Claimed, NotClaimed, SetupFails, Crash
  <2>6. CASE Report
    BY <2>2, <2>6 DEF Report, TrackerMutated, TrackerFails, WriteFile, FileFails,
                      WriteRow, RowFails
  <2>7. CASE UNCHANGED vars
    BY <2>2, <2>7 DEF vars
  <2>8. QED
    BY <2>3, <2>4, <2>5, <2>6, <2>7 DEF Next
<1>3. QED
  BY <1>1, <1>2

LEMMA InitialTypes == Init => TypeOK /\ Stage /\ CommandsDecide
<1> SUFFICES ASSUME Init PROVE TypeOK /\ Stage /\ CommandsDecide
  OBVIOUS
<1>1. row \in [status : {"started", "phase_failed"} \cup FileStatuses,
              phase : Phases \cup {"none"}]
  BY DEF Init, Status
<1>2. cmd \in [Command -> [at : {"idle", "mutate", "file", "row", "ended"},
                           status : {"none"} \cup Decisions]]
  BY DEF Init
<1>3. TypeOK
  BY <1>1, <1>2 DEF Init, TypeOK, Places, Phases
<1>4. Stage /\ CommandsDecide
  BY DEF Init, Stage, CommandsDecide, Phases
<1>5. QED
  BY <1>3, <1>4

\* Every record and every program counter keeps its type.
THEOREM TypeCorrect == Spec => []TypeOK
<1>1. TypeOK /\ Stage /\ CommandsDecide /\ [Next]_vars
        => TypeOK' /\ Stage' /\ CommandsDecide'
  BY Typing, Staging
<1>2. QED
  BY InitialTypes, <1>1, PTL DEF Spec

-----------------------------------------------------------------------------
\* Reviewed runs are clean

LEMMA SameEvents ==
  ASSUME events' = events
  PROVE  Completed' = Completed /\ Failed' = Failed
  BY DEF Completed, Failed

LEMMA OneMoreEvent ==
  ASSUME NEW ph \in Phases, NEW what, events' = events \cup {Event(ph, what)}
  PROVE  /\ Completed \subseteq Completed'
         /\ what = "completed" => ph \in Completed'
         /\ what # "failed" => Failed' = Failed
<1>1. Completed \subseteq Completed' /\ (what = "completed" => ph \in Completed')
  BY DEF Completed
<1>2. ASSUME what # "failed" PROVE Failed' = Failed
  <2>1. \A p \in Phases : Event(p, "failed") # Event(ph, what)
    BY <1>2 DEF Event
  <2>2. QED
    BY <2>1 DEF Failed
<1>3. QED
  BY <1>1, <1>2

LEMMA PassedStep ==
  ASSUME TypeOK, Stage, Passed, [Next]_vars
  PROVE  Passed'
<1> USE DEF Passed
<1>1. CASE PhaseStarts
  <2>1. Completed \subseteq Completed' /\ Failed' = Failed
    BY <1>1, OneMoreEvent DEF PhaseStarts
  <2>2. QED
    BY <1>1, <2>1 DEF PhaseStarts, Phases
<1>2. CASE PhaseCompletes
  <2>1. Completed \subseteq Completed' /\ at \in Completed' /\ Failed' = Failed
    BY <1>2, OneMoreEvent DEF PhaseCompletes
  <2>2. at' = After(at) /\ gates' = gates /\ at \in Phases /\ step = "complete"
        /\ (at' = "quality" => step' = "begin")
    BY <1>2 DEF PhaseCompletes, Enter, Phases
  <2>3. /\ at = "memory" => at' = "setup"
        /\ at = "worktree" => at' = "github_fetch"
        /\ at = "github_fetch" => at' = "codex_preflight"
        /\ at = "codex_preflight" => at' = "codex_exec"
        /\ at = "codex_exec" => at' = "quality"
        /\ at = "quality" => at' = "lifecycle"
    BY <2>2 DEF After
  <2>4. QED
    BY <2>1, <2>2, <2>3 DEF Phases
<1>3. CASE BodySucceeds \/ BodyFails \/ RecordFailure
  <2>1. Completed' = Completed /\ Failed' = Failed
    BY <1>3, SameEvents DEF BodySucceeds, BodyFails, RecordFailure
  <2>2. CASE BodySucceeds
    BY <2>1, <2>2 DEF BodySucceeds, Phases
  <2>3. CASE BodyFails
    BY <2>1, <2>3 DEF BodyFails, Phases
  <2>4. CASE RecordFailure
    BY <2>1, <2>4 DEF RecordFailure, Phases
  <2>5. QED
    BY <1>3, <2>2, <2>3, <2>4
<1>4. CASE ReportFailure \/ PhaseStoreFails \/ SetupFails \/ Crash
  <2>1. at' \in {"failure", "ended"}
    BY <1>4 DEF ReportFailure, PhaseStoreFails, SetupFails, Crash
  <2>2. QED
    BY <2>1
<1>5. CASE Setup \/ Claimed \/ NotClaimed
  <2>1. Completed' = Completed /\ Failed' = Failed
    BY <1>5, SameEvents DEF Setup, Claimed, NotClaimed
  <2>2. QED
    BY <1>5, <2>1 DEF Setup, Claimed, NotClaimed
<1>6. CASE Report
  <2>1. Completed' = Completed /\ Failed' = Failed
    BY <1>6, SameEvents DEF Report, TrackerMutated, TrackerFails, WriteFile, FileFails,
                            WriteRow, RowFails
  <2>2. /\ at \in {"lifecycle", "failure", "refused"}
        /\ at' \in {at, "failure", "ended"} /\ gates' = gates
    BY <1>6 DEF Report, TrackerMutated, TrackerFails, WriteFile, FileFails, WriteRow,
                RowFails, Stage
  <2>3. at' \in {"failure", "ended"} => Passed'
    OBVIOUS
  <2>4. at' = at => Passed'
    BY <2>1, <2>2
  <2>5. QED
    BY <2>2, <2>3, <2>4
<1>7. ASSUME NEW c \in Command, Finalize(c) PROVE Passed'
  <2>1. UNCHANGED <<at, step, events, gates>>
    BY <1>7 DEF Finalize, StartCommand, CommandMutates, CommandWritesFile,
                CommandWritesRow, CommandFails
  <2>2. QED
    BY <2>1, SameEvents
<1>8. CASE UNCHANGED vars
  <2>1. UNCHANGED <<at, step, events, gates>>
    BY <1>8 DEF vars
  <2>2. QED
    BY <2>1, SameEvents
<1>9. QED
  BY <1>1, <1>2, <1>3, <1>4, <1>5, <1>6, <1>7, <1>8 DEF Next, Phase

LEMMA SuccessStep ==
  ASSUME CleanInv, [Next]_vars
  PROVE  Successes' => Clean' /\ at' \in {"lifecycle", "ended"}
<1> USE DEF CleanInv
<1> DEFINE Reviewable == {"review_required", "finalized"}
<1>1. CASE Phase \/ Setup \/ Claimed \/ NotClaimed \/ SetupFails
  <2>1. at \in Phases \cup {"setup", "claim"} /\ file' = file /\ cmd' = cmd
        /\ (row' = row \/ row'.status = "phase_failed")
    BY <1>1 DEF Phase, PhaseStarts, BodySucceeds, BodyFails, PhaseCompletes, RecordFailure,
                PhaseFailure, ReportFailure, PhaseStoreFails, Setup, Claimed, NotClaimed, SetupFails
  <2>2. ~ Successes
    BY <2>1 DEF Phases
  <2>3. ~ Successes'
    BY <2>1, <2>2 DEF Successes
  <2>4. QED
    BY <2>3
<1>2. CASE Report
  <2>1. /\ at \in {"lifecycle", "failure", "refused"}
        /\ UNCHANGED <<events, gates, cmd>>
        /\ file' \in {file, Reported}
        /\ row' = row \/ row'.status \in {"phase_failed", Reported}
        /\ at = "lifecycle" => at' \in {"lifecycle", "ended"}
    BY <1>2 DEF Report, TrackerMutated, TrackerFails, WriteFile, FileFails, WriteRow,
                RowFails, Stage, Status, PhaseFailure
  <2>2. CASE at = "lifecycle"
    <3>1. Clean
      <4>1. Completed = Phases
        BY <2>2 DEF Passed, Phases, Completed
      <4>2. QED
        BY <2>2, <4>1 DEF Clean, Passed
    <3>2. Clean'
      BY <2>1, <3>1, SameEvents DEF Clean
    <3>3. QED
      BY <2>1, <2>2, <3>2
  <2>3. CASE at # "lifecycle"
    <3>1. Reported \notin Reviewable
      BY <2>1, <2>3 DEF Reported, FailureStatus
    <3>2. ~ Successes
      BY <2>1, <2>3
    <3>3. ~ Successes'
      BY <2>1, <3>1, <3>2 DEF Successes
    <3>4. QED
      BY <3>3
  <2>4. QED
    BY <2>2, <2>3
<1>3. CASE Crash
  <2>1. /\ file' \in {file, "torn"} /\ UNCHANGED <<events, row, gates, cmd>>
        /\ at' = "ended"
    BY <1>3 DEF Crash
  <2>2. Successes' => Successes
    BY <2>1 DEF Successes
  <2>3. Clean => Clean'
    BY <2>1, SameEvents DEF Clean
  <2>4. QED
    BY <2>1, <2>2, <2>3
<1>4. ASSUME NEW c \in Command, Finalize(c) PROVE Successes' => Clean' /\ at' \in {"lifecycle", "ended"}
  <2>1. UNCHANGED <<at, events, gates>>
    BY <1>4 DEF Finalize, StartCommand, CommandMutates, CommandWritesFile,
                CommandWritesRow, CommandFails
  <2>2. Clean => Clean'
    BY <2>1, SameEvents DEF Clean
  <2>3. Successes' => Successes
    <3> USE DEF TypeOK, Successes
    <3>1. CASE StartCommand(c)
      <4>1. PICK decision \in Decisions, resume \in BOOLEAN :
              /\ Permits(decision, resume)
              /\ cmd' = [cmd EXCEPT ![c] = [at |-> "mutate", status |-> decision]]
        BY <3>1 DEF StartCommand
      <4>2. \A d \in Command : d # c => cmd'[d] = cmd[d]
        BY <4>1
      <4>3. cmd'[c].status = decision
        BY <4>1
      <4>4. file' = file /\ row' = row
        BY <3>1 DEF StartCommand
      <4>5. decision = "finalized" => file \in {"review_required", "finalized"}
        BY <4>1 DEF Permits
      <4>6. QED
        BY <4>2, <4>3, <4>4, <4>5
    <3>2. CASE CommandMutates(c)
      BY <3>2 DEF CommandMutates
    <3>3. CASE CommandWritesFile(c)
      <4>1. /\ file' = cmd[c].status /\ row' = row
            /\ \A d \in Command : cmd'[d].status = cmd[d].status
        BY <3>3 DEF CommandWritesFile
      <4>2. cmd[c].status \in Decisions
        BY <3>3 DEF CommandsDecide, CommandWritesFile
      <4>3. QED
        BY <4>1, <4>2 DEF Decisions
    <3>4. CASE CommandWritesRow(c)
      BY <3>4 DEF CommandWritesRow, Status, CommandsDecide, Decisions
    <3>5. CASE CommandFails(c)
      BY <3>5 DEF CommandFails
    <3>6. QED
      BY <1>4, <3>1, <3>2, <3>3, <3>4, <3>5 DEF Finalize
  <2>4. QED
    BY <2>1, <2>2, <2>3
<1>5. CASE UNCHANGED vars
  <2>1. UNCHANGED <<at, events, row, file, gates, cmd>>
    BY <1>5 DEF vars
  <2>2. QED
    BY <2>1, SameEvents DEF Successes, Clean
<1>6. QED
  BY <1>1, <1>2, <1>3, <1>4, <1>5 DEF Next

LEMMA CleanHolds == Spec => []CleanInv
<1>1. Init => CleanInv
  <2> SUFFICES ASSUME Init PROVE CleanInv
    OBVIOUS
  <2>1. TypeOK /\ Stage /\ CommandsDecide
    BY InitialTypes
  <2>2. Passed /\ ~ Successes
    BY DEF Init, Passed, Failed, Successes, Status
  <2>3. QED
    BY <2>1, <2>2 DEF CleanInv
<1>2. CleanInv /\ [Next]_vars => CleanInv'
  <2> SUFFICES ASSUME CleanInv, [Next]_vars PROVE CleanInv'
    OBVIOUS
  <2>1. TypeOK' /\ Stage' /\ CommandsDecide'
    BY Typing, Staging DEF CleanInv
  <2>2. Passed'
    BY PassedStep DEF CleanInv
  <2>3. QED
    BY <2>1, <2>2, SuccessStep DEF CleanInv
<1>3. QED
  BY <1>1, <1>2, PTL DEF Spec

\* Whatever fails and however commands overlap, what is offered for review or
\* is finalized, in the file or in the store, has passed its gates with every
\* phase completed and none failed.
THEOREM CleanReviews == Spec => []ReviewedRunIsClean
<1>1. CleanInv => ReviewedRunIsClean
  BY DEF CleanInv, Successes, Clean, ReviewedRunIsClean
<1>2. QED
  BY <1>1, CleanHolds, PTL

-----------------------------------------------------------------------------
\* Traced failures are recorded

\* At most one phase has failed in the trace, that whose failure is being
\* reported, and its row was written before.
TracedInv ==
  /\ TracedFailureIsRecorded
  /\ \A ph \in Failed : at \in {"failure", "ended"} /\ (at = "failure" => cause = ph)
  /\ at \in Phases /\ step = "report" => row = PhaseFailure(at) \/ row.status = "review_rejected"

LEMMA FailedOnlyByReport ==
  ASSUME NEW ph \in Phases, NEW what, events' = events \cup {Event(ph, what)}
  PROVE  Failed' = IF what = "failed" THEN Failed \cup {ph} ELSE Failed
<1>1. \A p \in Phases : Event(p, "failed") = Event(ph, what) <=> p = ph /\ what = "failed"
  BY DEF Event
<1>2. QED
  BY <1>1 DEF Failed

LEMMA TracedStep ==
  ASSUME CleanInv, TracedInv, [Next]_vars
  PROVE  TracedInv'
<1> USE DEF TracedInv, TracedFailureIsRecorded
<1>1. /\ Stage /\ CommandsDecide /\ Passed /\ (Successes => Clean /\ at \in {"lifecycle", "ended"})
      /\ {"failure", "ended", "lifecycle", "refused"} \cap Phases = {}
  BY DEF CleanInv, Phases
<1>2. CASE PhaseStarts \/ PhaseCompletes
  <2>1. Failed' = Failed /\ Failed = {}
    BY <1>1, <1>2, FailedOnlyByReport DEF PhaseStarts, PhaseCompletes, Passed
  <2>2. step' # "report"
    BY <1>2 DEF PhaseStarts, PhaseCompletes, Enter
  <2>3. QED
    BY <2>1, <2>2
<1>3. CASE ReportFailure
  <2>1. Failed' = {at} /\ row' = row /\ at \in Phases /\ step = "report"
    BY <1>1, <1>3, FailedOnlyByReport DEF ReportFailure, Passed
  <2>2. at' = "ended" \/ (at' = "failure" /\ cause' = at)
    BY <1>3 DEF ReportFailure
  <2>3. QED
    BY <1>1, <2>1, <2>2
<1>4. CASE BodySucceeds \/ BodyFails \/ RecordFailure \/ PhaseStoreFails \/ Setup \/ Claimed
           \/ NotClaimed \/ SetupFails
  <2>1. Failed' = Failed /\ Failed = {}
    BY <1>1, <1>4, SameEvents
       DEF BodySucceeds, BodyFails, RecordFailure, PhaseStoreFails, Setup, Claimed, NotClaimed,
           SetupFails, Passed
  <2>2. at' \in Phases /\ step' = "report" => row' = PhaseFailure(at')
    BY <1>1, <1>4 DEF BodySucceeds, BodyFails, RecordFailure, PhaseStoreFails, Setup, Claimed,
       NotClaimed, SetupFails
  <2>3. QED
    BY <2>1, <2>2
<1>5. CASE Report
  <2>1. Failed' = Failed
    BY <1>5, SameEvents DEF Report, TrackerMutated, TrackerFails, WriteFile, FileFails, WriteRow,
       RowFails
  <2>2. /\ at \in {"lifecycle", "failure", "refused"}
        /\ at' \in {at, "ended"} /\ cause' = cause
        /\ row' = row \/ (at = "failure" /\ row' = PhaseFailure(cause)) \/ at # "failure"
    BY <1>1, <1>5 DEF Report, TrackerMutated, TrackerFails, WriteFile, FileFails, WriteRow,
       RowFails, Stage
  <2>3. at # "failure" => Failed = {}
    BY <1>1, <2>2 DEF Passed
  <2>4. QED
    BY <1>1, <2>1, <2>2, <2>3
<1>6. CASE Crash
  BY <1>1, <1>6, SameEvents DEF Crash
<1>7. ASSUME NEW c \in Command, Finalize(c) PROVE TracedInv'
  <2>1. Failed' = Failed /\ UNCHANGED <<at, step, cause>>
    BY <1>7, SameEvents DEF Finalize, StartCommand, CommandMutates, CommandWritesFile,
       CommandWritesRow, CommandFails
  <2>2. CASE row' = row
    BY <2>1, <2>2
  <2>3. CASE CommandWritesRow(c)
    <3>1. row' = Status(cmd[c].status) /\ cmd[c].status \in Decisions
      BY <1>1, <2>3 DEF CommandWritesRow, CommandsDecide
    <3>2. CASE cmd[c].status = "finalized"
      BY <1>1, <2>1, <3>2 DEF Successes, Clean
    <3>3. CASE cmd[c].status = "review_rejected"
      BY <2>1, <3>1, <3>3 DEF Status
    <3>4. QED
      BY <3>1, <3>2, <3>3 DEF Decisions
  <2>4. QED
    BY <1>7, <2>2, <2>3 DEF Finalize, StartCommand, CommandMutates, CommandWritesFile, CommandFails
<1>8. CASE UNCHANGED vars
  BY <1>8, SameEvents DEF vars
<1>9. QED
  BY <1>2, <1>3, <1>4, <1>5, <1>6, <1>7, <1>8 DEF Next, Phase

\* A failed phase of the trace is in the row, whatever overlaps.
THEOREM FailuresAreRecorded == Spec => []TracedFailureIsRecorded
<1>1. Init => TracedInv
  BY DEF Init, TracedInv, TracedFailureIsRecorded, Failed
<1>2. TracedInv => TracedFailureIsRecorded
  BY DEF TracedInv
<1>3. QED
  BY <1>1, <1>2, TracedStep, CleanHolds, PTL DEF Spec

-----------------------------------------------------------------------------
\* The file and the row agree

LEMMA RunsOwnStep ==
  ASSUME FileInv, at # "ended",
         Phase \/ Setup \/ Claimed \/ NotClaimed \/ SetupFails \/ Report \/ Crash
  PROVE  OwnRecords' /\ RowFollowsFile' /\ cmd' = cmd
<1> USE DEF FileInv, OwnRecords
<1>1. CASE PhaseStarts \/ BodySucceeds \/ BodyFails \/ PhaseStoreFails \/ ReportFailure
  <2>1. /\ at \in Phases /\ UNCHANGED <<row, file, cmd>>
        /\ \/ at' = at /\ step' # "row"
              /\ (step' \in {"begin", "body", "complete", "record"} =>
                    step \in {"begin", "body", "complete", "record"})
           \/ at' = "failure" /\ step' = "mutate"
           \/ at' = "ended"
    BY <1>1 DEF PhaseStarts, BodySucceeds, BodyFails, PhaseStoreFails, ReportFailure
  <2>2. step # "row"
    BY <2>1 DEF Stage, Phases
  <2>3. QED
    BY <2>1, <2>2 DEF RowFollowsFile, Phases, FileStatuses, Decisions
<1>2. CASE PhaseCompletes
  <2>1. /\ UNCHANGED <<row, file, cmd>>
        /\ at \in Phases /\ step = "complete"
        /\ at' = After(at) /\ step' # "row"
    BY <1>2 DEF PhaseCompletes, Enter
  <2>2. QED
    BY <2>1 DEF RowFollowsFile, After, Phases, FileStatuses, Decisions
<1>3. CASE RecordFailure
  <2>1. /\ at \in Phases /\ step = "record" /\ at' = at /\ step' = "report"
        /\ row' = PhaseFailure(at) /\ file' = file /\ cmd' = cmd
    BY <1>3 DEF RecordFailure
  <2>2. QED
    BY <2>1 DEF PhaseFailure, RowFollowsFile, Phases, FileStatuses, Decisions
<1>4. CASE Setup \/ Claimed \/ NotClaimed \/ SetupFails
  <2>1. /\ UNCHANGED <<row, file, cmd>>
        /\ at \in {"setup", "claim"}
        /\ \/ at' = "worktree" /\ step' = "begin"
           \/ at' = "claim" /\ step' = "none"
           \/ at' = "refused" /\ step' = "file"
           \/ at' = "ended"
    BY <1>4 DEF Setup, Claimed, NotClaimed, SetupFails
  <2>2. step # "row"
    BY <2>1 DEF Stage
  <2>3. QED
    BY <2>1, <2>2 DEF RowFollowsFile, Phases, FileStatuses, Decisions
<1>5. CASE TrackerMutated \/ TrackerFails \/ FileFails \/ RowFails
  <2>1. /\ UNCHANGED <<row, file, cmd>>
        /\ \/ at' = at /\ at \in {"lifecycle", "failure"} /\ step' = "file" /\ step # "row"
           \/ at' = at /\ at = "failure" /\ step' = "row" /\ step # "row"
           \/ at' = "ended"
    BY <1>5 DEF TrackerMutated, TrackerFails, FileFails, RowFails
  <2>2. QED
    BY <2>1 DEF RowFollowsFile, Phases, FileStatuses, Decisions
<1>6. CASE WriteFile
  <2>1. /\ UNCHANGED <<row, cmd>> /\ file' = Reported
        /\ at \in {"lifecycle", "failure", "refused"}
        /\ \/ at' = at /\ step' = "row"
           \/ at = "failure" /\ at' = "ended"
    BY <1>6 DEF WriteFile, Stage
  <2>2. CASE at = "failure"
    BY <2>1, <2>2 DEF Reported, FailureStatus, RowFollowsFile, Phases, FileStatuses, Decisions
  <2>3. CASE at # "failure"
    BY <2>1, <2>3 DEF Reported, RowFollowsFile, Phases, FileStatuses, Decisions
  <2>4. QED
    BY <2>2, <2>3
<1>7. CASE WriteRow
  <2>1. /\ file' = file /\ cmd' = cmd /\ at' = "ended" /\ step = "row"
        /\ at \in {"lifecycle", "failure", "refused"}
    BY <1>7 DEF WriteRow, Stage
  <2>2. CASE at = "failure"
    <3>1. row'.status = "phase_failed" /\ file \in {"none", "failed", "disabled"}
      BY <1>7, <2>1, <2>2 DEF WriteRow, PhaseFailure, FailureStatus
    <3>2. QED
      BY <2>1, <3>1 DEF RowFollowsFile, Phases, FileStatuses, Decisions
  <2>3. CASE at # "failure"
    <3>1. row'.status = Reported /\ row'.phase = "none" /\ file = Reported
      BY <1>7, <2>1, <2>3 DEF WriteRow, Status
    <3>2. Reported \notin {"failed", "phase_failed"}
      BY <2>1, <2>3 DEF Reported, SuccessStatus
    <3>3. QED
      BY <2>1, <3>1, <3>2 DEF RowFollowsFile, Phases
  <2>4. QED
    BY <2>2, <2>3
<1>8. CASE Crash
  <2>1. /\ row' = row /\ cmd' = cmd /\ at' = "ended" /\ file' \in {file, "torn"}
    BY <1>8 DEF Crash
  <2>2. QED
    BY <2>1 DEF RowFollowsFile, Phases, FileStatuses, Decisions
<1>9. QED
  BY <1>1, <1>2, <1>3, <1>4, <1>5, <1>6, <1>7, <1>8 DEF Phase, Report

LEMMA CommandsStep ==
  ASSUME FileInv, ~ Overlap, NEW c \in Command, Finalize(c)
  PROVE  OwnRecords' /\ CommandRecords' /\ RowFollowsFile'
<1> USE DEF FileInv, OwnRecords, TypeOK
<1>1. UNCHANGED <<at, step>>
  BY DEF Finalize, StartCommand, CommandMutates, CommandWritesFile, CommandWritesRow,
         CommandFails
<1>2. at = "ended"
  BY DEF Finalize, StartCommand, Undisturbed, CommandMutates, CommandWritesFile,
         CommandWritesRow, CommandFails
<1>3. ~ StartCommand(c) => Active(c) /\ \A d \in Command : d # c => ~ Active(d)
  BY DEF Finalize, CommandMutates, CommandWritesFile, CommandWritesRow, CommandFails,
         Active, CommandRecords
<1>4. StartCommand(c) => \A d \in Command : ~ Active(d)
  BY DEF StartCommand, Undisturbed, Active
<1>5. \A d \in Command : d # c => cmd'[d] = cmd[d] /\ ~ Active(d)
  BY <1>3, <1>4 DEF Finalize, StartCommand, CommandMutates, CommandWritesFile,
                    CommandWritesRow, CommandFails
<1>6. cmd'[c].at \in {"ended", "mutate", "file", "row"}
  BY DEF Finalize, StartCommand, CommandMutates, CommandWritesFile, CommandWritesRow,
         CommandFails
<1>7. \A d \in Command : d # c => ~ Active(d)'
  BY <1>5 DEF Active
<1>8. CASE StartCommand(c)
  <2>1. PICK decision \in Decisions, resume \in BOOLEAN :
          /\ Permits(decision, resume)
          /\ cmd' = [cmd EXCEPT ![c] = [at |-> "mutate", status |-> decision]]
    BY <1>8 DEF StartCommand
  <2>2. cmd'[c].at = "mutate" /\ cmd'[c].status = decision /\ row' = row /\ file' = file
    BY <1>8, <2>1 DEF StartCommand
  <2>3. /\ decision = "finalized" => file \in {"review_required", "finalized"}
        /\ decision = "review_rejected" => file \in {"review_required", "failed", "review_rejected"}
    BY <2>1 DEF Permits
  <2>4. CommandRecords'
    BY <1>7, <2>2, <2>3 DEF CommandRecords, Active
  <2>5. QED
    BY <1>1, <1>2, <2>2, <2>4 DEF RowFollowsFile
<1>9. CASE CommandMutates(c)
  <2>1. /\ cmd[c].at = "mutate" /\ cmd'[c].at = "file" /\ cmd'[c].status = cmd[c].status
        /\ row' = row /\ file' = file
    BY <1>9 DEF CommandMutates
  <2>2. CommandRecords'
    BY <1>7, <2>1 DEF CommandRecords, Active
  <2>3. QED
    BY <1>1, <1>2, <2>1, <2>2 DEF RowFollowsFile
<1>10. CASE CommandWritesFile(c)
  <2>1. /\ cmd[c].at = "file" /\ cmd'[c].at = "row" /\ cmd'[c].status = cmd[c].status
        /\ row' = row /\ file' = cmd[c].status /\ cmd[c].status \in Decisions
    BY <1>10 DEF CommandWritesFile, CommandsDecide
  <2>2. CommandRecords'
    BY <1>7, <2>1 DEF CommandRecords, Active
  <2>3. RowFollowsFile'
    BY <2>1 DEF RowFollowsFile, CommandRecords, FileStatuses, Decisions
  <2>4. QED
    BY <1>1, <1>2, <2>1, <2>2, <2>3
<1>11. CASE CommandWritesRow(c)
  <2>1. /\ cmd[c].at = "row" /\ cmd'[c].at = "ended"
        /\ row' = Status(cmd[c].status) /\ file' = file /\ file = cmd[c].status
        /\ cmd[c].status \in Decisions
    BY <1>11 DEF CommandWritesRow, CommandsDecide, CommandRecords
  <2>2. CommandRecords'
    BY <1>7, <2>1 DEF CommandRecords, Active
  <2>3. RowFollowsFile' /\ row'.status \in Decisions /\ row'.phase = "none"
    BY <2>1 DEF RowFollowsFile, Status, Decisions
  <2>4. QED
    BY <1>1, <1>2, <2>2, <2>3 DEF Phases, Decisions
<1>12. CASE CommandFails(c)
  <2>1. cmd'[c].at = "ended" /\ row' = row /\ file' \in {file, "torn"}
    BY <1>12 DEF CommandFails
  <2>2. CommandRecords'
    BY <1>7, <2>1 DEF CommandRecords, Active
  <2>3. QED
    BY <1>1, <1>2, <2>1, <2>2 DEF RowFollowsFile
<1>13. QED
  BY <1>8, <1>9, <1>10, <1>11, <1>12 DEF Finalize

LEMMA RunMoves ==
  ASSUME Stage, Phase \/ Setup \/ Claimed \/ NotClaimed \/ SetupFails \/ Report \/ Crash
  PROVE  at # "ended"
  BY DEF Phase, PhaseStarts, BodySucceeds, BodyFails, PhaseCompletes, RecordFailure,
         ReportFailure, PhaseStoreFails, Setup, Claimed, NotClaimed, SetupFails, Report,
         TrackerMutated, TrackerFails, WriteFile, FileFails, WriteRow, RowFails, Crash,
         Stage, Phases

LEMMA FileInvStep ==
  ASSUME FileInv, ~ Overlap, [Next]_vars
  PROVE  FileInv'
<1>1. TypeOK' /\ Stage' /\ CommandsDecide'
  BY Typing, Staging DEF FileInv
<1>2. CASE Phase \/ Setup \/ Claimed \/ NotClaimed \/ SetupFails \/ Report \/ Crash
  <2>1. at # "ended"
    BY <1>2, RunMoves DEF FileInv
  <2>2. OwnRecords' /\ RowFollowsFile' /\ cmd' = cmd
    BY <1>2, <2>1, RunsOwnStep
  <2>3. \A c \in Command : cmd'[c].at = "idle"
    BY <2>1, <2>2 DEF FileInv, OwnRecords
  <2>4. CommandRecords'
    BY <2>3 DEF CommandRecords, Active
  <2>5. QED
    BY <1>1, <2>2, <2>4 DEF FileInv
<1>3. CASE \E c \in Command : Finalize(c)
  BY <1>1, <1>3, CommandsStep DEF FileInv
<1>4. CASE UNCHANGED vars
  <2>1. OwnRecords' /\ RowFollowsFile'
    BY <1>4 DEF FileInv, vars, OwnRecords, RowFollowsFile, Reported
  <2>2. CommandRecords'
    BY <1>4 DEF FileInv, vars, CommandRecords, Active
  <2>3. QED
    BY <1>1, <2>1, <2>2 DEF FileInv
<1>5. QED
  BY <1>2, <1>3, <1>4 DEF Next

LEMMA FileInvInit == Init => FileInv
<1> SUFFICES ASSUME Init PROVE FileInv
  OBVIOUS
<1>1. TypeOK /\ Stage /\ CommandsDecide
  BY InitialTypes
<1>2. OwnRecords /\ CommandRecords /\ RowFollowsFile
  BY DEF Init, OwnRecords, CommandRecords, Active, RowFollowsFile, Status, FileStatuses,
         Decisions, Phases
<1>3. QED
  BY <1>1, <1>2 DEF FileInv

\* When no command overlaps the run or another command, the run store never
\* gets ahead of finalization_status.json, whatever fails or dies in between.
THEOREM RecordsAgree == ~ Overlap /\ Spec => []RowFollowsFile
<1> SUFFICES ASSUME ~ Overlap PROVE Spec => []RowFollowsFile
  OBVIOUS
<1>1. FileInv => RowFollowsFile
  BY DEF FileInv
<1>2. FileInv /\ [Next]_vars => FileInv'
  BY FileInvStep
<1>3. QED
  BY <1>1, <1>2, FileInvInit, PTL DEF Spec

\* When no command overlaps the run or another command, a decision that is in
\* the file or in the store is replaced by no other.
THEOREM DecisionsStand == ~ Overlap /\ Spec => DecisionStands
<1> SUFFICES ASSUME ~ Overlap PROVE Spec => DecisionStands
  OBVIOUS
<1>1. FileInv /\ [Next]_vars =>
        [/\ file \in Decisions => file' \in {file, "torn"}
         /\ row.status \in Decisions => row' = row]_vars
  <2> SUFFICES ASSUME FileInv, Next
               PROVE  /\ file \in Decisions => file' \in {file, "torn"}
                      /\ row.status \in Decisions => row' = row
    OBVIOUS
  <2> USE DEF FileInv
  <2>1. CASE Phase \/ Setup \/ Claimed \/ NotClaimed \/ SetupFails \/ Report \/ Crash
    <3>1. at # "ended" /\ row.status \notin Decisions
      BY <2>1, RunMoves DEF OwnRecords, Decisions
    <3>2. ~ WriteFile => file' \in {file, "torn"}
      BY <2>1 DEF Phase, PhaseStarts, BodySucceeds, BodyFails, PhaseCompletes, RecordFailure,
         ReportFailure, PhaseStoreFails, Setup, Claimed, NotClaimed, SetupFails, Report,
         TrackerMutated, TrackerFails, FileFails, WriteRow, RowFails, Crash
    <3>3. WriteFile => file = "none"
      BY <3>1 DEF WriteFile, OwnRecords
    <3>4. QED
      BY <3>1, <3>2, <3>3 DEF Decisions
  <2>2. ASSUME NEW c \in Command, Finalize(c)
        PROVE  /\ file \in Decisions => file' \in {file, "torn"}
               /\ row.status \in Decisions => row' = row
    <3>1. CASE StartCommand(c) \/ CommandMutates(c) \/ CommandFails(c)
      BY <3>1 DEF StartCommand, CommandMutates, CommandFails
    <3>2. CASE CommandWritesFile(c)
      <4>1. file' = cmd[c].status /\ cmd[c].status \in Decisions /\ row' = row /\ cmd[c].at = "file"
        BY <3>2 DEF CommandWritesFile, CommandsDecide
      <4>2. QED
        BY <4>1 DEF CommandRecords, Decisions
    <3>3. CASE CommandWritesRow(c)
      <4>1. file' = file /\ row' = Status(cmd[c].status) /\ file = cmd[c].status
            /\ cmd[c].status \in Decisions
        BY <3>3 DEF CommandWritesRow, CommandsDecide, CommandRecords
      <4>2. ASSUME row.status \in Decisions PROVE row = Status(cmd[c].status)
        <5>1. row.status = cmd[c].status
          BY <4>1, <4>2 DEF RowFollowsFile, FileStatuses, Decisions
        <5>2. row.phase = "none"
          BY <4>2 DEF OwnRecords, Decisions
        <5>3. row = [status |-> row.status, phase |-> row.phase]
          BY DEF TypeOK
        <5>4. QED
          BY <5>1, <5>2, <5>3 DEF Status
      <4>3. QED
        BY <4>1, <4>2
    <3>4. QED
      BY <2>2, <3>1, <3>2, <3>3 DEF Finalize
  <2>3. QED
    BY <2>1, <2>2 DEF Next
<1>2. FileInv /\ [Next]_vars => FileInv'
  BY FileInvStep
<1>3. QED
  BY <1>1, <1>2, FileInvInit, PTL DEF Spec, DecisionStands

-----------------------------------------------------------------------------
\* A confined run is a run

LEMMA StepsOfTheRun == [ConfinedNext]_allVars => [Next]_vars
<1> SUFFICES ASSUME [ConfinedNext]_allVars PROVE [Next]_vars
  OBVIOUS
<1>1. CASE PrepareMemory
  BY <1>1 DEF PrepareMemory, Next, Phase
<1>2. CASE PrepareAgents
  BY <1>2 DEF PrepareAgents, Next
<1>3. CASE AgentsRun
  BY <1>3 DEF AgentsRun, runVars
<1>4. CASE AgentsEnd
  BY <1>4 DEF AgentsEnd, Next, Phase
<1>5. CASE Dies
  BY <1>5 DEF Dies, Next
<1>6. CASE Elsewhere
  BY <1>6 DEF Elsewhere, Next
<1>7. CASE UNCHANGED allVars
  BY <1>7 DEF allVars
<1>8. QED
  BY <1>1, <1>2, <1>3, <1>4, <1>5, <1>6, <1>7 DEF ConfinedNext

\* The composition restricts RunIssue and adds nothing to it: what the phases
\* of cmd_run do inside is no more than to succeed or fail there.
THEOREM ConfinedRunIsARun == ConfinedSpec => Spec
<1>1. ConfinedInit => Init
  BY DEF ConfinedInit
<1>2. QED
  BY <1>1, StepsOfTheRun, PTL DEF ConfinedSpec, Spec

\* The records of a confined run are clean: theorem CleanReviews holds of it.
COROLLARY ConfinedReviewsAreClean == ConfinedSpec => []ReviewedRunIsClean
  BY ConfinedRunIsARun, CleanReviews, PTL

-----------------------------------------------------------------------------
\* The inductive invariant of the confinement

Confined == leases = Agents /\ denied = {} /\ ~ failure

\* What the monitor has seen and not yet told is in `errors`, unless the program
\* has died.
Seen ==
  /\ at # "ended" /\ denied # {} => failure \/ errors
  /\ errors => monitor = "attaching"
  /\ monitor \in {"none", "resting", "walking", "attaching"}

\* The monitor lives while the runtime waits for its process, and the verdict
\* is only given after that.
Watched ==
  /\ monitor # "none" => stage \in {"watching", "stopping"}
  /\ verdict = "ok" => stage \in {"stopping", "ended"}
  /\ at # "ended" /\ stage = "ended" /\ verdict = "ok" => denied = {} /\ ~ failure

\* Groups are prepared before the phases that need them and stay.
PastSetup ==
  {"claim", "worktree", "github_fetch", "codex_preflight", "codex_exec", "quality", "lifecycle"}
Leased ==
  at \in PastSetup /\ context = "enforce" => leases = Agents

\* Once the agents have ended well, nothing is added to what was seen.
AgentsDone ==
  \/ at = "codex_exec" /\ step = "complete"
  \/ at \in {"quality", "lifecycle"}
  \/ Successes
DoneConfined == AgentsDone /\ context = "enforce" => Confined

ConfInv == CleanInv /\ Seen /\ Watched /\ Leased /\ DoneConfined

LEMMA CleanStep ==
  ASSUME CleanInv, [ConfinedNext]_allVars
  PROVE  CleanInv'
<1>1. [Next]_vars
  BY StepsOfTheRun
<1>2. TypeOK' /\ Stage' /\ CommandsDecide'
  BY <1>1, Typing, Staging DEF CleanInv
<1>3. Passed'
  BY <1>1, PassedStep DEF CleanInv
<1>4. QED
  BY <1>1, <1>2, <1>3, SuccessStep DEF CleanInv

-----------------------------------------------------------------------------
\* The life of the agents

LEMMA RuntimeStep ==
  ASSUME Seen, Watched, Runtime, UNCHANGED runVars
  PROVE  Seen' /\ Watched' /\ UNCHANGED <<context, leases>>
<1> USE DEF Seen, Watched, runVars, vars, groups, settings, tree, watch, sampling, Return
<1>1. CASE LaunchRefused
  BY <1>1 DEF LaunchRefused
<1>2. CASE Launch
  BY <1>2 DEF Launch
<1>3. CASE Attach
  BY <1>3 DEF Attach
<1>4. CASE AttachFails
  BY <1>4 DEF AttachFails
<1>5. CASE RunUnleased
  BY <1>5 DEF RunUnleased
<1>6. CASE Exited
  BY <1>6 DEF Exited
<1>7. CASE Terminated
  BY <1>7 DEF Terminated
<1>8. CASE Stopped
  \* No sample is under way, so there are no errors that are yet to be told.
  <2>1. ~ errors /\ (at # "ended" /\ denied # {} => failure)
    BY <1>8 DEF Stopped
  <2>2. QED
    BY <1>8, <2>1 DEF Stopped
<1>9. QED
  BY <1>1, <1>2, <1>3, <1>4, <1>5, <1>6, <1>7, <1>8 DEF Runtime

LEMMA MonitorStep ==
  ASSUME Seen, Watched, Monitor, UNCHANGED runVars
  PROVE  Seen' /\ Watched' /\ UNCHANGED <<context, leases>>
<1> USE DEF Seen, Watched, runVars, vars, groups, settings, tree, watch, sampling
<1>1. CASE StartSample
  BY <1>1 DEF StartSample
<1>2. CASE WalkEnds
  BY <1>2 DEF WalkEnds
<1>3. CASE EndSample
  BY <1>3 DEF EndSample
<1>4. ASSUME NEW p \in Processes, ReadChildren(p)
      PROVE  Seen' /\ Watched' /\ UNCHANGED <<context, leases>>
  BY <1>4 DEF ReadChildren
<1>5. ASSUME NEW p \in Processes, Check(p)
      PROVE  Seen' /\ Watched' /\ UNCHANGED <<context, leases>>
  <2>1. /\ monitor = "attaching" /\ monitor' = monitor
        /\ UNCHANGED <<context, leases, stage, verdict, failure, at>>
    BY <1>5 DEF Check
  <2>2. \/ errors' = errors /\ denied' = denied
        \/ errors' = TRUE
    BY <1>5 DEF Check, InOrGone, Reattach, MembershipError
  <2>3. QED
    BY <2>1, <2>2
<1>6. QED
  BY <1>1, <1>2, <1>3, <1>4, <1>5 DEF Monitor

LEMMA ProcessStep ==
  ASSUME Seen, Watched, Process, UNCHANGED runVars
  PROVE  Seen' /\ Watched' /\ UNCHANGED <<context, leases>>
<1> USE DEF Seen, Watched, runVars, vars, groups, settings, watch, sampling
<1>1. ASSUME NEW p \in Processes, Fork(p) PROVE Seen' /\ Watched' /\ UNCHANGED <<context, leases>>
  BY <1>1 DEF Fork
<1>2. ASSUME NEW p \in Processes, Exit(p) PROVE Seen' /\ Watched' /\ UNCHANGED <<context, leases>>
  BY <1>2 DEF Exit
<1>3. QED
  BY <1>1, <1>2 DEF Process

-----------------------------------------------------------------------------
\* The invariant is kept

\* Only the report of a success, at "lifecycle", makes a success.
LEMMA SuccessesComeFromLifecycle ==
  ASSUME CleanInv, Next, ~ Successes, Successes'
  PROVE  at = "lifecycle"
<1> USE DEF Successes
<1>1. CASE Phase
  <2>1. file' = file /\ cmd' = cmd
    BY <1>1 DEF Phase, PhaseStarts, BodySucceeds, BodyFails, PhaseCompletes, RecordFailure,
                ReportFailure, PhaseStoreFails, records
  <2>2. row' = row \/ row' = PhaseFailure(at)
    BY <1>1 DEF Phase, PhaseStarts, BodySucceeds, BodyFails, PhaseCompletes, RecordFailure,
                ReportFailure, PhaseStoreFails, records
  <2>3. QED
    BY <2>1, <2>2 DEF PhaseFailure
<1>2. CASE Setup \/ Claimed \/ NotClaimed \/ SetupFails \/ TrackerMutated \/ TrackerFails
           \/ FileFails \/ RowFails
  BY <1>2 DEF Setup, Claimed, NotClaimed, SetupFails, TrackerMutated, TrackerFails, FileFails,
              RowFails, records
<1>3. CASE WriteFile \/ WriteRow
  <2>1. at \in {"lifecycle", "failure", "refused"}
    BY <1>3 DEF WriteFile, WriteRow, CleanInv, Stage
  <2>2. SUFFICES ASSUME at # "lifecycle" PROVE FALSE
    OBVIOUS
  <2>3. Reported \notin {"review_required", "finalized"}
    BY <2>1, <2>2 DEF Reported, FailureStatus
  <2>4. QED
    BY <1>3, <2>1, <2>2, <2>3 DEF WriteFile, WriteRow, Status, PhaseFailure
<1>4. CASE Crash
  BY <1>4 DEF Crash
<1>5. ASSUME NEW c \in Command, Finalize(c) PROVE FALSE
  <2> USE DEF CleanInv, TypeOK
  <2>1. CASE StartCommand(c)
    <3>1. PICK decision \in Decisions, resume \in BOOLEAN :
            /\ Permits(decision, resume)
            /\ cmd' = [cmd EXCEPT ![c] = [at |-> "mutate", status |-> decision]]
      BY <2>1 DEF StartCommand
    <3>2. decision # "finalized"
      BY <3>1 DEF Permits
    <3>3. \A d \in Command : cmd'[d].status = "finalized" => cmd[d].status = "finalized"
      BY <3>1, <3>2
    <3>4. QED
      BY <2>1, <3>3 DEF StartCommand, records
  <2>2. CASE CommandMutates(c) \/ CommandFails(c)
    <3>1. \A d \in Command : cmd'[d].status = cmd[d].status
      BY <2>2 DEF CommandMutates, CommandFails
    <3>2. row' = row /\ file' \in {file, "torn"}
      BY <2>2 DEF CommandMutates, CommandFails, records
    <3>3. QED
      BY <3>1, <3>2
  <2>3. CASE CommandWritesFile(c) \/ CommandWritesRow(c)
    <3>1. \A d \in Command : cmd'[d].status = cmd[d].status
      BY <2>3 DEF CommandWritesFile, CommandWritesRow
    <3>2. cmd[c].status = "review_rejected"
      BY <2>3 DEF CommandWritesFile, CommandWritesRow, CommandsDecide, Decisions
    <3>3. QED
      BY <2>3, <3>1, <3>2 DEF CommandWritesFile, CommandWritesRow, Status
  <2>4. QED
    BY <1>5, <2>1, <2>2, <2>3 DEF Finalize
<1>6. QED
  BY <1>1, <1>2, <1>3, <1>4, <1>5 DEF Next, Report

\* Where nothing of the agents and their groups changes.
LEMMA UnconfinedSteps ==
  ASSUME ConfInv, CleanInv', Elsewhere
  PROVE  Seen' /\ Watched' /\ Leased' /\ DoneConfined'
<1> USE DEF ConfInv, groupVars, groups, settings, tree, watch, sampling
<1>1. Next /\ UNCHANGED groupVars
  BY DEF Elsewhere, Next
<1>2. at' # "ended" => at # "ended"
  BY DEF Elsewhere, Phase, PhaseStarts, BodySucceeds, BodyFails, PhaseCompletes, RecordFailure,
         ReportFailure, PhaseStoreFails, Claimed, NotClaimed, SetupFails, Report,
         TrackerMutated, TrackerFails, WriteFile, FileFails, WriteRow, RowFails, Finalize,
         StartCommand, CommandMutates, CommandWritesFile, CommandWritesRow, CommandFails,
         Phases, CleanInv, Stage
<1>3. Seen' /\ Watched'
  BY <1>1, <1>2 DEF Seen, Watched
<1>4. Leased'
  <2>1. at' \in PastSetup => at \in PastSetup
    BY DEF Elsewhere, Phase, PhaseStarts, BodySucceeds, BodyFails, PhaseCompletes, RecordFailure,
           ReportFailure, PhaseStoreFails, Raise, Claimed, NotClaimed, SetupFails, Report,
           TrackerMutated, TrackerFails, WriteFile, FileFails, WriteRow, RowFails, Finalize,
           StartCommand, CommandMutates, CommandWritesFile, CommandWritesRow, CommandFails,
           FailureReported, Enter, GoTo, End, After, Phases, PastSetup, CleanInv, Stage
  <2>2. QED
    BY <1>1, <2>1 DEF Leased
<1>5. DoneConfined'
  <2>1. AgentsDone' => AgentsDone
    <3>1. Successes' => AgentsDone
      BY <1>1, SuccessesComeFromLifecycle DEF AgentsDone
    <3>2. \/ at' = "codex_exec" /\ step' = "complete"
          \/ at' \in {"quality", "lifecycle"}
          => AgentsDone
      BY DEF AgentsDone, Elsewhere, Phase, PhaseStarts, BodySucceeds, BodyFails, PhaseCompletes,
             RecordFailure, ReportFailure, PhaseStoreFails, Raise, Claimed, NotClaimed, SetupFails,
             Report, TrackerMutated, TrackerFails, WriteFile, FileFails, WriteRow, RowFails,
             Finalize, StartCommand, CommandMutates, CommandWritesFile, CommandWritesRow,
             CommandFails, FailureReported, Enter, GoTo, End, After, Phases, CleanInv, Stage
    <3>3. QED
      BY <3>1, <3>2 DEF AgentsDone
  <2>2. QED
    BY <1>1, <2>1 DEF DoneConfined, Confined
<1>6. QED
  BY <1>3, <1>4, <1>5

LEMMA ConfinedStep ==
  ASSUME ConfInv, [ConfinedNext]_allVars
  PROVE  ConfInv'
<1> USE DEF ConfInv
<1>0. CleanInv'
  BY CleanStep
<1>1. CASE PrepareMemory
  <2>1. /\ at = "memory" /\ at' = "memory" /\ stage = "idle"
        /\ UNCHANGED <<verdict, watch, file, row, cmd>>
    BY <1>1 DEF PrepareMemory, PrepareRun, PrepareRunFails, BodySucceeds, BodyFails, GoTo
  <2>2. monitor = "none" /\ verdict # "ok"
    BY <2>1 DEF Watched
  <2>3. Seen' /\ Watched' /\ Leased'
    BY <2>1, <2>2 DEF Seen, Watched, Leased, PastSetup, watch, sampling
  <2>4. ~ Successes
    BY <2>1 DEF CleanInv
  <2>5. ~ AgentsDone'
    BY <2>1, <2>4 DEF AgentsDone, Successes
  <2>6. QED
    BY <1>0, <2>3, <2>5 DEF DoneConfined
<1>2. CASE PrepareAgents
  <2>1. /\ at = "setup" /\ stage = "prepared" /\ context' = context
        /\ UNCHANGED <<verdict, watch>>
    BY <1>2 DEF PrepareAgents, PrepareChildren, ChildGroupFails, settings
  <2>2. monitor = "none" /\ verdict # "ok"
    BY <2>1 DEF Watched
  <2>3. Seen' /\ Watched'
    BY <2>1, <2>2 DEF Seen, Watched, watch, sampling
  <2>4. at' \in {"worktree", "claim", "ended"} /\ UNCHANGED <<file, row, cmd>>
    BY <1>2 DEF PrepareAgents, Setup, SetupFails, GoTo, End, records
  <2>5. Leased'
    BY <1>2, <2>4 DEF PrepareAgents, PrepareChildren, Setup, SetupFails, End, GoTo, Leased,
                      PastSetup
  <2>6. ~ Successes
    BY <2>1 DEF CleanInv
  <2>7. ~ AgentsDone'
    BY <2>4, <2>6 DEF AgentsDone, Successes
  <2>8. QED
    BY <1>0, <2>3, <2>5, <2>7 DEF DoneConfined
<1>3. CASE AgentsRun
  <2>1. /\ at = "codex_exec" /\ step = "body"
        /\ UNCHANGED runVars /\ AgentRuns
    BY <1>3 DEF AgentsRun, InAgentPhase
  <2>2. Seen' /\ Watched' /\ UNCHANGED <<context, leases>>
    BY <2>1, RuntimeStep, MonitorStep, ProcessStep DEF AgentRuns
  <2>3. Leased' /\ ~ AgentsDone'
    BY <1>0, <2>1, <2>2 DEF Leased, runVars, vars, AgentsDone, CleanInv
  <2>4. QED
    BY <1>0, <2>2, <2>3 DEF DoneConfined
<1>4. CASE AgentsEnd
  <2>1. /\ at = "codex_exec" /\ at' = "codex_exec"
        /\ UNCHANGED groupVars /\ UNCHANGED <<file, row, cmd>>
    BY <1>4 DEF AgentsEnd, InAgentPhase, BodySucceeds, BodyFails, GoTo
  <2>2. Seen' /\ Watched' /\ Leased'
    BY <2>1 DEF Seen, Watched, Leased, groupVars, groups, watch, sampling
  <2>3. ~ Successes
    BY <2>1 DEF CleanInv
  <2>4. CASE step' = "complete"
    <3>1. stage = "ended" /\ verdict = "ok"
      BY <1>4, <2>4 DEF AgentsEnd, BodyFails, GoTo
    <3>2. denied = {} /\ ~ failure
      BY <2>1, <3>1 DEF Watched
    <3>3. context = "enforce" => leases = Agents
      BY <2>1 DEF Leased, PastSetup
    <3>4. DoneConfined'
      BY <2>1, <3>2, <3>3 DEF DoneConfined, Confined, groupVars, groups, watch, Agents
    <3>5. QED
      BY <1>0, <2>2, <3>4
  <2>5. CASE step' # "complete"
    <3>1. ~ AgentsDone'
      BY <2>1, <2>3, <2>5 DEF AgentsDone, Successes
    <3>2. QED
      BY <1>0, <2>2, <3>1 DEF DoneConfined
  <2>6. QED
    BY <2>4, <2>5
<1>5. CASE Dies
  <2>1. /\ at' = "ended" /\ stage' = "ended" /\ monitor' = "none" /\ errors' = FALSE
        /\ UNCHANGED <<context, leases, verdict, denied, failure>>
    BY <1>5 DEF Dies, Crash, Abandon, End, GoTo, groups
  <2>2. Next
    BY <1>5 DEF Dies, Next
  <2>3. Watched' /\ Leased'
    BY <2>1 DEF Watched, Leased, PastSetup
  <2>4. Successes' => AgentsDone
    BY <2>2, SuccessesComeFromLifecycle DEF AgentsDone
  <2>5. DoneConfined'
    BY <2>1, <2>4 DEF DoneConfined, Confined, AgentsDone, Agents
  <2>6. Seen'
    BY <2>1 DEF Seen
  <2>7. QED
    BY <1>0, <2>3, <2>5, <2>6
<1>6. CASE Elsewhere
  BY <1>0, <1>6, UnconfinedSteps
<1>7. CASE UNCHANGED allVars
  BY <1>0, <1>7 DEF allVars, vars, records, groupVars, groups, watch, sampling, Seen, Watched,
                    Leased, DoneConfined, AgentsDone, Successes, Confined, Agents
<1>8. QED
  BY <1>1, <1>2, <1>3, <1>4, <1>5, <1>6, <1>7 DEF ConfinedNext

\* The code trusts that `failure` tells of everything that any sample of the
\* monitor saw, and that the runtime looks at it once more when the process
\* has exited well: monitor_once, MemoryMonitor::stop and run_codex_exec.
THEOREM ReviewsAreConfined == ConfinedSpec => []ReviewedRunWasConfined
<1>1. ConfinedInit => ConfInv
  <2> SUFFICES ASSUME ConfinedInit PROVE ConfInv
    OBVIOUS
  <2>1. TypeOK /\ Stage /\ CommandsDecide
    BY InitialTypes DEF ConfinedInit
  <2>2. Passed /\ ~ Successes
    BY DEF ConfinedInit, Init, Passed, Failed, Successes, Status
  <2>3. Seen /\ Watched /\ Leased /\ ~ AgentsDone
    BY <2>2 DEF ConfinedInit, Init, GroupsInit, Seen, Watched, Leased, PastSetup, AgentsDone
  <2>4. QED
    BY <2>1, <2>2, <2>3 DEF ConfInv, CleanInv, DoneConfined
<1>2. ConfInv /\ [ConfinedNext]_allVars => ConfInv'
  BY ConfinedStep
<1>3. ConfInv => ReviewedRunWasConfined
  BY DEF ConfInv, DoneConfined, AgentsDone, Successes, Confined, ReviewedRunWasConfined
<1>4. QED
  BY <1>1, <1>2, <1>3, PTL DEF ConfinedSpec

-----------------------------------------------------------------------------
\* What is made for a run and an agent

Made == ({"root", "run"} \cup Agents) \X {"made", "high", "max", "status"}
Limits == {"made", "high", "max"}

LEMMA StepsOfAGroup ==
  ASSUME NEW g \in {"run"} \cup Agents
  PROVE  /\ GroupOf(g) \in Seq(Made) /\ Len(GroupOf(g)) = 3
         /\ GroupOf(g)[1] = <<g, "made">>
         /\ GroupOf(g)[2] = <<g, "high">>
         /\ GroupOf(g)[3] = <<g, "max">>
  BY DEF GroupOf, Made

LEMMA Concatenation ==
  ASSUME NEW s \in Seq(Made), NEW r \in Seq(Made)
  PROVE  /\ s \o r \in Seq(Made) /\ Len(s \o r) = Len(s) + Len(r)
         /\ Len(s) \in Nat /\ Len(r) \in Nat
         /\ \A i \in 1 .. Len(s) : (s \o r)[i] = s[i]
         /\ \A i \in 1 .. Len(r) : (s \o r)[Len(s) + i] = r[i]
<1>1. Len(s) \in Nat /\ Len(r) \in Nat
  BY LenProperties
<1>2. /\ s \o r \in Seq(Made) /\ Len(s \o r) = Len(s) + Len(r)
      /\ \A i \in 1 .. Len(s) + Len(r) : (s \o r)[i] = IF i <= Len(s) THEN s[i] ELSE r[i - Len(s)]
  BY ConcatProperties
<1>3. ASSUME NEW i \in 1 .. Len(r) PROVE (s \o r)[Len(s) + i] = r[i]
  <2>1. Len(s) + i \in 1 .. Len(s) + Len(r) /\ ~ (Len(s) + i <= Len(s)) /\ (Len(s) + i) - Len(s) = i
    BY <1>1
  <2>2. QED
    BY <1>2, <2>1
<1>4. QED
  BY <1>1, <1>2, <1>3

LEMMA StepsOfAnAgent ==
  ASSUME NEW a \in Agents
  PROVE  /\ AgentSteps(a) \in Seq(Made) /\ Len(AgentSteps(a)) = 4
         /\ \A i \in 1 .. 3 : AgentSteps(a)[i] = GroupOf(a)[i]
<1> DEFINE status == << <<a, "status">> >>
<1>1. status \in Seq(Made) /\ Len(status) = 1
  BY DEF Made
<1>2. GroupOf(a) \in Seq(Made) /\ Len(GroupOf(a)) = 3
  BY StepsOfAGroup
<1>0. AgentSteps(a) = GroupOf(a) \o status
  BY DEF AgentSteps
<1> HIDE DEF status
<1>3. /\ GroupOf(a) \o status \in Seq(Made) /\ Len(GroupOf(a) \o status) = 4
      /\ \A i \in 1 .. 3 : (GroupOf(a) \o status)[i] = GroupOf(a)[i]
  <2>1. /\ GroupOf(a) \o status \in Seq(Made)
        /\ Len(GroupOf(a) \o status) = Len(GroupOf(a)) + Len(status)
        /\ \A i \in 1 .. Len(GroupOf(a)) : (GroupOf(a) \o status)[i] = GroupOf(a)[i]
        /\ \A i \in 1 .. Len(status) : (GroupOf(a) \o status)[Len(GroupOf(a)) + i] = status[i]
    BY <1>1, <1>2, Concatenation, Zenon
  <2>2. QED
    BY <1>1, <1>2, <2>1
<1>4. QED
  BY <1>0, <1>3

LEMMA StepsOfARun ==
  /\ RunSteps \in Seq(Made) /\ Len(RunSteps) = 8
  /\ \A i \in 1 .. 3 : RunSteps[1 + i] = GroupOf("run")[i]
  /\ \A i \in 1 .. 3 : RunSteps[4 + i] = GroupOf(Writer)[i]
<1> DEFINE root == << <<"root", "made">> >>
           start == root \o GroupOf("run")
<1>1. root \in Seq(Made) /\ Len(root) = 1
  BY DEF Made
<1>2. GroupOf("run") \in Seq(Made) /\ Len(GroupOf("run")) = 3
  BY StepsOfAGroup
<1>3. /\ AgentSteps(Writer) \in Seq(Made) /\ Len(AgentSteps(Writer)) = 4
      /\ \A i \in 1 .. 3 : AgentSteps(Writer)[i] = GroupOf(Writer)[i]
  BY StepsOfAnAgent DEF Agents
<1>4. RunSteps = start \o AgentSteps(Writer)
  BY <1>1, <1>2, <1>3, ConcatAssociative DEF RunSteps
<1> HIDE DEF root
<1>5. /\ start \in Seq(Made) /\ Len(start) = 4
      /\ \A i \in 1 .. 3 : start[1 + i] = GroupOf("run")[i]
  BY <1>1, <1>2, Concatenation
<1> DEFINE writer == AgentSteps(Writer)
<1>6. writer \in Seq(Made) /\ Len(writer) = 4 /\ RunSteps = start \o writer
  BY <1>3, <1>4
<1>7. \A i \in 1 .. 3 : writer[i] = GroupOf(Writer)[i]
  BY <1>3
<1> HIDE DEF start, writer
<1>8. /\ start \o writer \in Seq(Made) /\ Len(start \o writer) = 8
      /\ \A i \in 1 .. 4 : (start \o writer)[i] = start[i]
      /\ \A i \in 1 .. 4 : (start \o writer)[4 + i] = writer[i]
  <2>1. /\ start \o writer \in Seq(Made) /\ Len(start \o writer) = Len(start) + Len(writer)
        /\ \A i \in 1 .. Len(start) : (start \o writer)[i] = start[i]
        /\ \A i \in 1 .. Len(writer) : (start \o writer)[Len(start) + i] = writer[i]
    BY <1>5, <1>6, Concatenation, Zenon
  <2>2. QED
    BY <1>5, <1>6, <2>1
<1>9. ASSUME NEW i \in 1 .. 3
      PROVE  RunSteps[1 + i] = GroupOf("run")[i] /\ RunSteps[4 + i] = GroupOf(Writer)[i]
  <2>1. 1 + i \in 1 .. 4 /\ i \in 1 .. 4
    OBVIOUS
  <2>2. QED
    BY <2>1, <1>5, <1>6, <1>7, <1>8
<1>10. QED
  BY <1>6, <1>8, <1>9

LEMMA FirstOfSteps ==
  ASSUME NEW steps \in Seq(Made), NEW n \in 0 .. Len(steps)
  PROVE  FirstOf(steps, n) \subseteq Made
  BY ElementOfSeq DEF FirstOf

LEMMA AllOfAgentSteps ==
  ASSUME NEW a \in Agents
  PROVE  AllOf(AgentSteps(a)) \subseteq Made /\ {a} \X Limits \subseteq AllOf(AgentSteps(a))
<1>1. AllOf(AgentSteps(a)) \subseteq Made
  BY StepsOfAnAgent, FirstOfSteps DEF AllOf
<1>2. \A i \in 1 .. 3 : GroupOf(a)[i] \in AllOf(AgentSteps(a))
  BY StepsOfAnAgent DEF AllOf, FirstOf
<1>3. <<a, "made">> \in AllOf(AgentSteps(a)) /\ <<a, "high">> \in AllOf(AgentSteps(a))
      /\ <<a, "max">> \in AllOf(AgentSteps(a))
  <2>1. 1 \in 1 .. 3 /\ 2 \in 1 .. 3 /\ 3 \in 1 .. 3
    OBVIOUS
  <2>2. QED
    BY <1>2, <2>1, StepsOfAGroup
<1>4. QED
  BY <1>1, <1>3 DEF Limits

LEMMA AllOfRunSteps ==
  AllOf(RunSteps) \subseteq Made /\ {"run", Writer} \X Limits \subseteq AllOf(RunSteps)
<1>1. AllOf(RunSteps) \subseteq Made
  BY StepsOfARun, FirstOfSteps DEF AllOf
<1>2. Writer \in Agents
  BY DEF Agents
<1>3. \A i \in 1 .. 3 : GroupOf("run")[i] \in AllOf(RunSteps) /\ GroupOf(Writer)[i] \in AllOf(RunSteps)
  <2>1. SUFFICES ASSUME NEW i \in 1 .. 3
                 PROVE  GroupOf("run")[i] \in AllOf(RunSteps) /\ GroupOf(Writer)[i] \in AllOf(RunSteps)
    OBVIOUS
  <2>2. 1 + i \in 1 .. Len(RunSteps) /\ 4 + i \in 1 .. Len(RunSteps)
    BY StepsOfARun
  <2>3. QED
    BY <2>2, StepsOfARun DEF AllOf, FirstOf
<1>4. \A g \in {"run", Writer} : /\ <<g, "made">> \in AllOf(RunSteps)
                                 /\ <<g, "high">> \in AllOf(RunSteps)
                                 /\ <<g, "max">> \in AllOf(RunSteps)
  BY <1>2, <1>3, StepsOfAGroup
<1>5. QED
  BY <1>1, <1>4 DEF Limits

-----------------------------------------------------------------------------
\* Type correctness of the groups

LEMMA TypedPreparation ==
  ASSUME GroupsTypeOK, PrepareRun \/ PrepareRunFails \/ PrepareChildren \/ ChildGroupFails
  PROVE  GroupsTypeOK'
<1> USE DEF GroupsTypeOK, settings, tree, watch, sampling, groups
<1>1. Writer \in Agents /\ Children \subseteq Agents
  BY DEF Agents
<1>2. Made = ({"root", "run"} \cup Agents) \X {"made", "high", "max", "status"}
  BY DEF Made
<1>3. CASE PrepareRun
  <2>1. done' \subseteq Made
    <3>1. <<Writer, "status">> \in Made
      BY <1>1 DEF Made
    <3>2. QED
      BY <1>3, <3>1, AllOfRunSteps DEF PrepareRun
  <2>2. /\ context' \in {"observe", "enforce"} /\ stage' = "prepared"
        /\ UNCHANGED <<settings, leases, agent, verdict, tree, watch>>
    BY <1>3 DEF PrepareRun
  <2>3. QED
    BY <1>2, <2>1, <2>2
<1>4. CASE PrepareRunFails
  <2>1. PICK n \in 0 .. Len(RunSteps) - 1 : done' = FirstOf(RunSteps, n)
    BY <1>4 DEF PrepareRunFails
  <2>2. done' \subseteq Made
    <3>1. RunSteps \in Seq(Made) /\ n \in 0 .. Len(RunSteps)
      BY <2>1, StepsOfARun
    <3>2. QED
      BY <2>1, <3>1, FirstOfSteps
  <2>3. stage' = "ended" /\ UNCHANGED <<settings, context, leases, agent, verdict, tree, watch>>
    BY <1>4 DEF PrepareRunFails
  <2>4. QED
    BY <1>2, <2>2, <2>3
<1>5. CASE PrepareChildren
  <2>1. \A c \in Children : AllOf(AgentSteps(c)) \subseteq Made
    BY <1>1, AllOfAgentSteps
  <2>2. done' \subseteq Made /\ leases' \subseteq Agents
    BY <1>2, <1>5, <2>1 DEF PrepareChildren
  <2>3. /\ agent' \in Agents /\ stage' = "ready"
        /\ UNCHANGED <<settings, context, verdict, tree, watch>>
    BY <1>5 DEF PrepareChildren
  <2>4. QED
    BY <1>2, <2>2, <2>3
<1>6. CASE ChildGroupFails
  <2>1. \A c \in Children : AllOf(AgentSteps(c)) \subseteq Made
    BY <1>1, AllOfAgentSteps
  <2>2. \A c \in Children, n \in 0 .. 3 : FirstOf(AgentSteps(c), n) \subseteq Made
    <3>1. SUFFICES ASSUME NEW c \in Children, NEW n \in 0 .. 3
                   PROVE  FirstOf(AgentSteps(c), n) \subseteq Made
      OBVIOUS
    <3>2. AgentSteps(c) \in Seq(Made) /\ Len(AgentSteps(c)) = 4
      BY <1>1, StepsOfAnAgent
    <3>3. n \in 0 .. Len(AgentSteps(c))
      BY <3>2
    <3>4. QED
      BY <3>2, <3>3, FirstOfSteps
  <2>3. PICK before \in SUBSET Children, c \in Children, n \in 0 .. 3 :
          done' = done \cup FirstOf(AgentSteps(c), n) \cup UNION {AllOf(AgentSteps(b)) : b \in before}
    BY <1>6 DEF ChildGroupFails
  <2>4. done' \subseteq Made
    BY <1>2, <2>1, <2>2, <2>3
  <2>5. stage' = "ended" /\ UNCHANGED <<settings, context, leases, agent, verdict, tree, watch>>
    BY <1>6 DEF ChildGroupFails
  <2>6. QED
    BY <1>2, <2>4, <2>5
<1>7. QED
  BY <1>3, <1>4, <1>5, <1>6

LEMMA TypedAgents ==
  ASSUME GroupsTypeOK, AgentRuns
  PROVE  GroupsTypeOK'
<1> USE GroupsAssumption DEF GroupsTypeOK, settings, groups, sampling, Processes, Root
<1>1. CASE LaunchRefused \/ RunUnleased \/ Exited
  BY <1>1 DEF LaunchRefused, RunUnleased, Exited, Return, tree, watch
<1>2. CASE Launch
  BY <1>2 DEF Launch, watch
<1>3. CASE Attach
  BY <1>3 DEF Attach, LeaseOf
<1>4. CASE AttachFails \/ Terminated
  BY <1>4 DEF AttachFails, Terminated, Return, watch
<1>5. CASE Stopped
  BY <1>5 DEF Stopped, Return
<1>6. CASE StartSample \/ WalkEnds \/ EndSample
  BY <1>6 DEF StartSample, WalkEnds, EndSample, tree
<1>7. ASSUME NEW p \in Processes, ReadChildren(p) PROVE GroupsTypeOK'
  BY <1>7 DEF ReadChildren, tree
<1>8. ASSUME NEW p \in Processes, Check(p) PROVE GroupsTypeOK'
  <2>1. /\ cgroup' \in [Processes -> Agents \cup {"host"}]
        /\ errors' \in BOOLEAN /\ denied' \subseteq Processes
    BY <1>8 DEF Check, InOrGone, Reattach, MembershipError, LeaseOf
  <2>2. QED
    BY <1>8, <2>1 DEF Check
<1>9. ASSUME NEW p \in Processes, Fork(p) PROVE GroupsTypeOK'
  <2>1. started + 1 \in 1 .. MaxProcesses
    BY <1>9 DEF Fork
  <2>2. QED
    BY <1>9, <2>1 DEF Fork, watch
<1>10. ASSUME NEW p \in Processes, Exit(p) PROVE GroupsTypeOK'
  BY <1>10 DEF Exit, watch
<1>11. QED
  BY <1>1, <1>2, <1>3, <1>4, <1>5, <1>6, <1>7, <1>8, <1>9, <1>10
     DEF AgentRuns, Runtime, Monitor, Process

LEMMA TypedStep ==
  ASSUME GroupsTypeOK, [ConfinedNext]_allVars
  PROVE  GroupsTypeOK'
<1>1. CASE UNCHANGED groupVars
  BY <1>1 DEF GroupsTypeOK, groupVars, groups, settings, tree, watch, sampling
<1>2. CASE Dies
  <2>1. /\ parent' \in [Processes -> 0 .. MaxProcesses]
        /\ cgroup' \in [Processes -> Agents \cup {"host"}]
        /\ started' \in 0 .. MaxProcesses
    BY <1>2, GroupsAssumption DEF Dies, Abandon
  <2>2. QED
    BY <1>2, <2>1 DEF Dies, Abandon, GroupsTypeOK, groups, settings
<1>3. CASE PrepareMemory \/ PrepareAgents
  <2>1. PrepareRun \/ PrepareRunFails \/ PrepareChildren \/ ChildGroupFails
    BY <1>3 DEF PrepareMemory, PrepareAgents
  <2>2. QED
    BY <2>1, TypedPreparation
<1>4. CASE AgentsRun
  BY <1>4, TypedAgents DEF AgentsRun
<1>5. CASE AgentsEnd \/ Elsewhere \/ UNCHANGED allVars
  BY <1>1, <1>5 DEF AgentsEnd, Elsewhere, allVars
<1>6. QED
  BY <1>2, <1>3, <1>4, <1>5 DEF ConfinedNext

LEMMA TypedInit == GroupsInit => GroupsTypeOK
<1> SUFFICES ASSUME GroupsInit PROVE GroupsTypeOK
  OBVIOUS
<1>1. /\ parent \in [Processes -> 0 .. MaxProcesses]
      /\ cgroup \in [Processes -> Agents \cup {"host"}]
      /\ started \in 0 .. MaxProcesses
  BY GroupsAssumption DEF GroupsInit
<1>2. QED
  BY <1>1 DEF GroupsInit, GroupsTypeOK, Agents

\* Whatever is made, forked, listed or denied: the groups, the processes and
\* the monitor keep their types, for every number of agents and processes.
THEOREM GroupsAreTyped == ConfinedSpec => []GroupsTypeOK
<1>1. ConfinedInit => GroupsTypeOK
  BY TypedInit DEF ConfinedInit
<1>2. QED
  BY <1>1, TypedStep, PTL DEF ConfinedSpec

-----------------------------------------------------------------------------
\* A strict claim

\* What is leased has its limits.
Limited ==
  /\ context = "enforce" => {"run", Writer} \X Limits \subseteq done
  /\ leases # {} => ({"run"} \cup Agents) \X Limits \subseteq done
  /\ stage \in {"idle", "prepared"} => leases = {}
  /\ stage = "idle" => context = "none"

\* A leased agent that the runtime waits for has its root in its own group and
\* a monitor; the root is the first process.
Held ==
  /\ stage = "watching" /\ agent \in leases =>
       monitor # "none" /\ (Root \in alive => cgroup[Root] = agent)
  /\ alive # {} => started >= 1

StrictInv == GroupsTypeOK /\ Limited /\ Held

\* Whatever the policy, there is no strict claim without a group.
LEMMA StrictNeedsGroup ==
  ASSUME NEW policy \in AttributionPolicy, NEW a, Validate(policy, AttributionOf(a)) = "strict"
  PROVE  a \in leases
<1>1. ~ Refused(policy, AttributionOf(a)) /\ Strict(policy, AttributionOf(a))
  BY DEF Validate
<1>2. AttributionOf(a).group = (a \in leases) /\ AttributionOf(a).container = FALSE
  BY DEF AttributionOf
<1>3. CASE policy.backend = "native_linux"
  BY <1>1, <1>2, <1>3 DEF Refused
<1>4. CASE policy.backend = "docker_linux_vm"
  BY <1>1, <1>2, <1>4 DEF Refused
<1>5. CASE policy.backend = "auto"
  BY <1>1, <1>2, <1>5 DEF Strict
<1>6. QED
  BY <1>1, <1>3, <1>4, <1>5 DEF Strict

LEMMA LimitedStep ==
  ASSUME StrictInv, PrepareRun \/ PrepareRunFails \/ PrepareChildren \/ ChildGroupFails
  PROVE  Limited' /\ Held'
<1> USE DEF StrictInv, Limited, Held, tree, watch, settings
<1>1. CASE PrepareRun
  BY <1>1, AllOfRunSteps DEF PrepareRun
<1>2. CASE PrepareRunFails
  <2>1. leases' = {} /\ context' = "none" /\ stage' = "ended" /\ UNCHANGED <<alive, started>>
    BY <1>2 DEF PrepareRunFails
  <2>2. QED
    BY <2>1
<1>3. CASE PrepareChildren
  <2>1. CASE context = "enforce"
    <3>1. \A c \in Children : {c} \X Limits \subseteq AllOf(AgentSteps(c))
      BY AllOfAgentSteps DEF Agents
    <3>2. /\ done' = done \cup UNION {AllOf(AgentSteps(c)) : c \in Children}
          /\ {"run", Writer} \X Limits \subseteq done
      BY <1>3, <2>1 DEF PrepareChildren
    <3>3. ({"run"} \cup Agents) \X Limits \subseteq done'
      BY <3>1, <3>2 DEF Agents
    <3>4. QED
      BY <1>3, <3>2, <3>3 DEF PrepareChildren
  <2>2. CASE context # "enforce"
    BY <1>3, <2>2 DEF PrepareChildren
  <2>3. QED
    BY <2>1, <2>2
<1>4. CASE ChildGroupFails
  <2>1. done \subseteq done'
    BY <1>4 DEF ChildGroupFails
  <2>2. stage' = "ended" /\ UNCHANGED <<context, leases, alive, started>>
    BY <1>4 DEF ChildGroupFails
  <2>3. QED
    BY <2>1, <2>2
<1>5. QED
  BY <1>1, <1>2, <1>3, <1>4

LEMMA HeldStep ==
  ASSUME StrictInv, AgentRuns
  PROVE  Limited' /\ Held'
<1>1. UNCHANGED groups /\ (stage' \in {"idle", "prepared"} => stage' = stage)
  BY DEF AgentRuns, Runtime, Monitor, Process, LaunchRefused, Launch, Attach, AttachFails,
         RunUnleased, Exited, Terminated, Stopped, StartSample, WalkEnds, EndSample,
         ReadChildren, Check, Fork, Exit, Return
<1>2. Limited'
  BY <1>1 DEF StrictInv, Limited, groups
<1>3. Held'
  <2> USE DEF StrictInv, Held, GroupsTypeOK, Processes, Root, groups, tree, watch, sampling
  <2>1. CASE LaunchRefused \/ Launch \/ AttachFails \/ Exited \/ Terminated \/ Stopped
    BY <2>1 DEF LaunchRefused, Launch, AttachFails, Exited, Terminated, Stopped, Return
  <2>2. CASE Attach \/ RunUnleased
    BY <2>2 DEF Attach, RunUnleased, LeaseOf
  <2>3. CASE StartSample \/ WalkEnds \/ EndSample
    BY <2>3 DEF StartSample, WalkEnds, EndSample
  <2>4. ASSUME NEW p \in Processes, ReadChildren(p) PROVE Held'
    BY <2>4 DEF ReadChildren
  <2>5. ASSUME NEW p \in Processes, Check(p) PROVE Held'
    <3>1. cgroup' = cgroup \/ \E g \in LeaseOf(agent) : cgroup' = [cgroup EXCEPT ![p] = g]
      BY <2>5 DEF Check, InOrGone, Reattach, MembershipError
    <3>2. agent \in leases /\ Root \in alive /\ cgroup[Root] = agent => cgroup'[Root] = agent
      BY <3>1 DEF LeaseOf
    <3>3. QED
      BY <2>5, <3>2 DEF Check
  <2>6. ASSUME NEW p \in Processes, Fork(p) PROVE Held'
    <3>1. started >= 1 /\ started + 1 # Root /\ started \in Nat
      BY <2>6 DEF Fork
    <3>2. cgroup'[Root] = cgroup[Root] /\ (Root \in alive' <=> Root \in alive) /\ started' = started + 1
      BY <2>6, <3>1 DEF Fork
    <3>3. QED
      BY <2>6, <3>1, <3>2 DEF Fork
  <2>7. ASSUME NEW p \in Processes, Exit(p) PROVE Held'
    BY <2>7 DEF Exit
  <2>8. QED
    BY <2>1, <2>2, <2>3, <2>4, <2>5, <2>6, <2>7 DEF AgentRuns, Runtime, Monitor, Process
<1>4. QED
  BY <1>2, <1>3

\* A strict claim about a process that the runtime waits for is true, for every
\* policy that may ask: the groups are made and limited before the agent has
\* its lease, and the root is put into the group before the runtime waits.
THEOREM StrictClaims == ConfinedSpec => []StrictClaimIsTrue
<1>1. ConfinedInit => StrictInv
  BY TypedInit DEF ConfinedInit, GroupsInit, StrictInv, Limited, Held
<1>2. StrictInv /\ [ConfinedNext]_allVars => StrictInv'
  <2> SUFFICES ASSUME StrictInv, [ConfinedNext]_allVars PROVE StrictInv'
    OBVIOUS
  <2>1. GroupsTypeOK'
    BY TypedStep DEF StrictInv
  <2>2. CASE PrepareMemory \/ PrepareAgents
    <3>1. PrepareRun \/ PrepareRunFails \/ PrepareChildren \/ ChildGroupFails
      BY <2>2 DEF PrepareMemory, PrepareAgents
    <3>2. QED
      BY <2>1, <3>1, LimitedStep DEF StrictInv
  <2>3. CASE AgentsRun
    BY <2>1, <2>3, HeldStep DEF AgentsRun, StrictInv
  <2>4. CASE Dies
    BY <2>1, <2>4 DEF Dies, Abandon, StrictInv, Limited, Held, groups
  <2>5. CASE AgentsEnd \/ Elsewhere \/ UNCHANGED allVars
    <3>1. UNCHANGED groupVars
      BY <2>5 DEF AgentsEnd, Elsewhere, allVars
    <3>2. QED
      BY <2>1, <3>1 DEF StrictInv, Limited, Held, groupVars, groups, tree, watch
  <2>6. QED
    BY <2>2, <2>3, <2>4, <2>5 DEF ConfinedNext
<1>3. StrictInv => StrictClaimIsTrue
  <2> SUFFICES ASSUME StrictInv, stage = "watching", NEW policy \in AttributionPolicy,
                      Validate(policy, AttributionOf(agent)) = "strict"
               PROVE  /\ {"run", agent} \X {"made", "high", "max"} \subseteq done
                      /\ Root \in alive => cgroup[Root] = agent
                      /\ monitor # "none"
    BY DEF StrictClaimIsTrue
  <2>1. agent \in leases
    BY StrictNeedsGroup
  <2>2. agent \in Agents
    BY DEF StrictInv, GroupsTypeOK
  <2>3. QED
    BY <2>1, <2>2 DEF StrictInv, Limited, Held, Limits
<1>4. QED
  BY <1>1, <1>2, <1>3, PTL DEF ConfinedSpec
=============================================================================
