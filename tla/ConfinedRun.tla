----------------------------- MODULE ConfinedRun -----------------------------
(***************************************************************************)
(* A run whose agents are confined: RunIssue with the cgroups and agents   *)
(* of MemoryGroups.  The body of phase "memory" prepares the run's groups, *)
(* those of the children follow before the claim, and the body of phase    *)
(* "codex_exec" is the life of the agents: it ends when they have, with    *)
(* what the runtime returned of them.                                      *)
(*                                                                         *)
(* One agent is followed; any other one may fail the phase.                *)
(***************************************************************************)
EXTENDS RunIssue, MemoryGroups

runVars == vars
allVars == <<vars, groupVars>>

ConfinedInit == Init /\ GroupsInit

PrepareMemory ==
  /\ at = "memory" /\ step = "body"
  /\ \/ PrepareRun /\ (BodySucceeds \/ BodyFails)
     \/ PrepareRunFails /\ BodyFails

PrepareAgents ==
  /\ at = "setup"
  /\ \/ PrepareChildren /\ (Setup \/ SetupFails)
     \/ ChildGroupFails /\ SetupFails

InAgentPhase == at = "codex_exec" /\ step = "body"

AgentsRun == InAgentPhase /\ AgentRuns /\ UNCHANGED runVars

\* after_runtime_success samples the group once more, which may fail.
AgentsEnd ==
  /\ InAgentPhase
  /\ \/ stage = "ended" /\ verdict = "ok" /\ BodySucceeds
     \/ stage \in {"ready", "ended"} /\ BodyFails
  /\ UNCHANGED groupVars

Dies == Crash /\ Abandon

Elsewhere ==
  /\ \/ Phase /\ ~ (step = "body" /\ at \in {"memory", "codex_exec"})
     \/ Claimed \/ NotClaimed
     \/ at = "claim" /\ SetupFails
     \/ Report
     \/ \E c \in Command : Finalize(c)
  /\ UNCHANGED groupVars

ConfinedNext ==
  PrepareMemory \/ PrepareAgents \/ AgentsRun \/ AgentsEnd \/ Dies \/ Elsewhere

\* The monitor thread runs; of nothing else is it assumed.
ConfinedSpec ==
  /\ ConfinedInit /\ [][ConfinedNext]_allVars
  /\ WF_allVars(InAgentPhase /\ Monitor /\ UNCHANGED runVars)

-----------------------------------------------------------------------------
\* Properties

\* A run that enforces memory limits is offered for review, or finalized, only
\* if its agents ended under a monitor that found every process of theirs in
\* its group or put it there: what a late sample saw counts too.
ReviewedRunWasConfined ==
  context = "enforce" /\ {file, row.status} \cap {"review_required", "finalized"} # {} =>
    leases = Agents /\ denied = {} /\ ~ failure
=============================================================================
