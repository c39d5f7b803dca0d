---------------------------- MODULE MemoryGroups ----------------------------
(***************************************************************************)
(* The cgroups of one run and the confinement of an agent's processes: the *)
(* controller prepares a group for the run, the writer and each child; the *)
(* runtime's process is spawned outside and put into its group; and the    *)
(* monitor thread walks the tree below it through /proc, to put into the   *)
(* group whatever was forked before, while processes fork and exit.        *)
(*                                                                         *)
(* The agents of a run have trees and monitors of their own, so one is     *)
(* followed, whichever it is.  A process stays in the process group it was *)
(* forked into, which a kill ends whole.  The host is Linux.               *)
(***************************************************************************)
EXTENDS Integers, Sequences, FiniteSets

CONSTANTS
  Writer, Children, \* the agents of the spawn plan
  Settings,         \* [linux_memory] tables
  Hosts,            \* hosts the run may be on
  Kilo,             \* what a suffix multiplies by: 1024
  MaxBytes,         \* u64::MAX
  MaxProcesses      \* bound: processes an agent starts

Agents == {Writer} \cup Children

Suffixes == {"b", "k", "m", "g", "t"}
Amount == [number : Nat, suffix : Suffixes] \cup [max : {TRUE}]
Setting == [enabled : BOOLEAN, mode : {"strict", "observe_only"},
            cgroup_v2_required : BOOLEAN, psi_required : BOOLEAN,
            high : Amount, max : Amount,              \* per_agent_.. and per_issue_..
            rlimit : Amount \cup [off : {TRUE}]]      \* setrlimit_..
\* mounted: the cgroup root resolves to a path below /sys/fs/cgroup.
Host == [cgroup_v2 : BOOLEAN, psi_memory : BOOLEAN, mounted : BOOLEAN]

ASSUME GroupsAssumption ==
  /\ Writer \notin Children
  /\ Settings \subseteq Setting /\ Hosts \subseteq Host
  /\ Kilo \in Nat \ {0} /\ MaxBytes \in Nat /\ MaxProcesses \in Nat \ {0}

VARIABLES
  setting, host,
  done,     \* what has been made: a group, or a value written to it
  context,  \* MemoryRunContext, by whether it enforces
  leases,   \* agents for which the runtime has a group
  agent,    \* the agent that is followed
  stage,    \* where run_codex_exec is with it
  verdict,  \* what it returned
  started,  \* how many processes there have been; the first is the root
  alive,
  parent,   \* 0 for the root and for an orphan
  cgroup,   \* the group each process is in, "host" for the program's own
  monitor,  \* the monitor thread
  unread,   \* listed processes whose children are still to be read
  listed,   \* listed processes that are still to be put into the group
  errors,   \* membership_errors of this sample
  denied,   \* every process that any sample could not put there
  failure   \* MemoryMonitor::failure

settings == <<setting, host>>
groups == <<done, context, leases>>
tree == <<started, alive, parent, cgroup>>
sampling == <<unread, listed, errors>>
watch == <<monitor, sampling, denied, failure>>
groupVars == <<settings, groups, agent, stage, verdict, tree, watch>>

Processes == 1 .. MaxProcesses
Root == 1

GroupsTypeOK ==
  /\ setting \in Settings /\ host \in Hosts
  /\ done \subseteq ({"root", "run"} \cup Agents) \X {"made", "high", "max", "status"}
  /\ context \in {"none", "observe", "enforce"}
  /\ leases \subseteq Agents
  /\ agent \in Agents
  /\ stage \in {"idle", "prepared", "ready", "attaching", "watching", "stopping", "ended"}
  /\ verdict \in {"none", "ok", "error"}
  /\ started \in 0 .. MaxProcesses
  /\ alive \subseteq Processes
  /\ parent \in [Processes -> 0 .. MaxProcesses]
  /\ cgroup \in [Processes -> Agents \cup {"host"}]
  /\ monitor \in {"none", "resting", "walking", "attaching"}
  /\ unread \subseteq Processes /\ listed \subseteq Processes
  /\ errors \in BOOLEAN /\ denied \subseteq Processes /\ failure \in BOOLEAN

GroupsInit ==
  /\ setting \in Settings /\ host \in Hosts
  /\ done = {} /\ context = "none" /\ leases = {}
  /\ agent = Writer /\ stage = "idle" /\ verdict = "none"
  /\ started = 0 /\ alive = {}
  /\ parent = [p \in Processes |-> 0]
  /\ cgroup = [p \in Processes |-> "host"]
  /\ monitor = "none" /\ unread = {} /\ listed = {}
  /\ errors = FALSE /\ denied = {} /\ failure = FALSE

-----------------------------------------------------------------------------
\* Amounts of memory

Power(suffix) ==
  CASE suffix = "b" -> 0 [] suffix = "k" -> 1 [] suffix = "m" -> 2
    [] suffix = "g" -> 3 [] suffix = "t" -> 4

\* parse_memory_bytes: checked_mul refuses what a u64 does not hold.
Bytes(amount) == IF "max" \in DOMAIN amount THEN MaxBytes
                 ELSE amount.number * Kilo ^ Power(amount.suffix)
Parses(amount) == Bytes(amount) <= MaxBytes

\* parse_optional_memory_limit of the runtime knows neither "max" nor "t".
LimitParses(amount) ==
  \/ "off" \in DOMAIN amount
  \/ "number" \in DOMAIN amount /\ amount.suffix # "t" /\ Parses(amount)

-----------------------------------------------------------------------------
\* MemoryAttributionPolicy::validate, which gives a claim or a failure

Attribution == [model : {"one_shot", "per_run", "per_agent", "shared", "remote"},
                group : BOOLEAN, local : BOOLEAN, container : BOOLEAN]
AttributionPolicy ==
  [backend : {"auto", "native_linux", "native_macos", "docker_linux_vm", "observe_only"},
   strict_required : BOOLEAN, allow_shared_server : BOOLEAN,
   require_process_anchor : BOOLEAN]

\* The failures of each backend, and whether what it accepts is a strict claim.
Refused(policy, a) ==
  LET unanchored == policy.require_process_anchor /\ ~ a.local IN
  \/ a.model = "shared" /\ ~ policy.allow_shared_server
  \/ policy.backend \in {"native_macos", "observe_only"} /\ policy.strict_required
  \/ policy.backend = "native_linux" /\ (a.model = "remote" \/ ~ a.group \/ unanchored)
  \/ policy.backend = "docker_linux_vm" /\ (~ a.container \/ ~ a.group)
  \/ /\ policy.backend = "auto" /\ policy.strict_required
     /\ ~ a.group \/ unanchored \/ a.model = "remote"
Strict(policy, a) ==
  \/ policy.backend \in {"native_linux", "docker_linux_vm"}
  \/ policy.backend = "auto" /\ a.group /\ a.local /\ a.model # "remote"
Validate(policy, a) ==
  IF Refused(policy, a) THEN "failure" ELSE IF Strict(policy, a) THEN "strict" ELSE "observe"

\* runtime_process_attribution of agent a
AttributionOf(a) ==
  [model |-> "one_shot", group |-> a \in leases, local |-> TRUE, container |-> FALSE]

-----------------------------------------------------------------------------
\* LinuxMemoryController

Enforces == setting.enabled /\ setting.mode # "observe_only"
HostFits ==
  /\ setting.cgroup_v2_required => host.cgroup_v2
  /\ setting.psi_required => host.psi_memory
LimitsParse == Parses(setting.high) /\ Parses(setting.max)

\* prepare_agent_group_in_run and the status artifact after it.
GroupOf(g) == << <<g, "made">>, <<g, "high">>, <<g, "max">> >>
AgentSteps(a) == GroupOf(a) \o << <<a, "status">> >>
RunSteps == << <<"root", "made">> >> \o GroupOf("run") \o AgentSteps(Writer)
FirstOf(steps, n) == {steps[i] : i \in 1 .. n}
AllOf(steps) == FirstOf(steps, Len(steps))

PrepareRun ==
  /\ stage = "idle" /\ LimitsParse
  /\ \/ ~ Enforces /\ context' = "observe" /\ done' = {<<Writer, "status">>}
     \/ /\ Enforces /\ HostFits
        /\ context' = "enforce"
        /\ done' = AllOf(RunSteps)
  /\ stage' = "prepared"
  /\ UNCHANGED <<settings, leases, agent, verdict, tree, watch>>

\* A refusal, or a step that fails: what was made before stays.
PrepareRunFails ==
  /\ stage = "idle"
  /\ \E n \in 0 .. Len(RunSteps) - 1 :
       /\ n > 0 => LimitsParse /\ Enforces /\ HostFits
       /\ done' = FirstOf(RunSteps, n)
  /\ stage' = "ended"
  /\ UNCHANGED <<settings, context, leases, agent, verdict, tree, watch>>

\* codex_runtime_with_memory
PrepareChildren ==
  /\ stage = "prepared"
  /\ IF context = "enforce"
       THEN /\ leases' = Agents
            /\ done' = done \cup UNION {AllOf(AgentSteps(c)) : c \in Children}
       ELSE UNCHANGED <<leases, done>>
  /\ agent' \in Agents
  /\ stage' = "ready"
  /\ UNCHANGED <<settings, context, verdict, tree, watch>>

ChildGroupFails ==
  /\ stage = "prepared" /\ context = "enforce"
  /\ \E before \in SUBSET Children : \E c \in Children \ before, n \in 0 .. 3 :
       done' = done \cup FirstOf(AgentSteps(c), n) \cup UNION {AllOf(AgentSteps(b)) : b \in before}
  /\ stage' = "ended"
  /\ UNCHANGED <<settings, context, leases, agent, verdict, tree, watch>>

-----------------------------------------------------------------------------
\* run_codex_exec of the agent

Return(v) == stage' = "ended" /\ verdict' = v

\* configure_linux_launch_limits refuses, or the process cannot be spawned.
LaunchRefused ==
  /\ stage = "ready"
  /\ Return("error")
  /\ UNCHANGED <<settings, groups, agent, tree, watch>>

Launch ==
  /\ stage = "ready" /\ LimitParses(setting.rlimit)
  /\ started' = 1 /\ alive' = {Root}
  /\ stage' = "attaching"
  /\ UNCHANGED <<settings, groups, agent, verdict, parent, cgroup, watch>>

\* child_request_from_node: the lease of an agent is its own.
\* Mutant: a child runs on the lease of its parent.
LeaseOfParent(a) == IF a \in leases THEN {Writer} ELSE {}
LeaseOf(a) == {a} \cap leases

\* CliCodexMemorySupervisor::start: the root, and only it, is put into the
\* group, and the monitor starts if the group's own path can be told.
Attach ==
  /\ stage = "attaching" /\ LeaseOf(agent) # {} /\ host.mounted
  /\ Root \in alive
  /\ \E g \in LeaseOf(agent) : cgroup' = [cgroup EXCEPT ![Root] = g]
  /\ monitor' = "resting"
  /\ stage' = "watching"
  /\ UNCHANGED <<settings, groups, agent, verdict, started, alive, parent,
                 sampling, denied, failure>>

\* terminate_child ends the process group.
AttachFails ==
  /\ stage = "attaching" /\ LeaseOf(agent) # {}
  /\ alive' = {}
  /\ Return("error")
  /\ UNCHANGED <<settings, groups, agent, started, parent, cgroup, watch>>

RunUnleased ==
  /\ stage = "attaching" /\ LeaseOf(agent) = {}
  /\ stage' = "watching"
  /\ UNCHANGED <<settings, groups, agent, verdict, tree, watch>>

\* wait_child_with_timeout: the root has exited, or everything is killed for a
\* failure of the monitor or the time.
Exited ==
  /\ stage = "watching" /\ Root \notin alive
  /\ stage' = "stopping"
  /\ verdict' \in {"ok", "error"}
  /\ UNCHANGED <<settings, groups, agent, tree, watch>>

Terminated ==
  /\ stage = "watching" /\ Root \in alive
  /\ alive' = {}
  /\ stage' = "stopping" /\ verdict' = "error"
  /\ UNCHANGED <<settings, groups, agent, started, parent, cgroup, watch>>

\* MemoryMonitor::stop waits for the sample that is under way.  What is left
\* of the tree is not followed any more.
Stopped ==
  /\ stage = "stopping" /\ monitor \in {"none", "resting"}
  /\ Return(IF failure THEN "error" ELSE verdict)
  /\ monitor' = "none"
  /\ started' = 0 /\ alive' = {}
  /\ parent' = [p \in Processes |-> 0] /\ cgroup' = [p \in Processes |-> "host"]
  /\ UNCHANGED <<settings, groups, agent, sampling, denied, failure>>

Runtime ==
  \/ LaunchRefused \/ Launch \/ Attach \/ AttachFails \/ RunUnleased
  \/ Exited \/ Terminated \/ Stopped

-----------------------------------------------------------------------------
\* The monitor thread: monitor_once

\* process_tree_pids, which finds nothing once the root is gone.
StartSample ==
  /\ stage = "watching" /\ monitor = "resting"
  /\ unread' = {Root} \cap alive /\ listed' = unread'
  /\ errors' = FALSE
  /\ monitor' = "walking"
  /\ UNCHANGED <<settings, groups, agent, stage, verdict, tree, denied, failure>>

\* child_pids of the next listed process, parents first.
\* Mutant: of the root only.
ReadRootsChildren(p) ==
  LET found == {q \in alive : parent[q] = p /\ p = Root} \ listed IN
  /\ monitor = "walking" /\ p \in unread /\ parent[p] \notin unread
  /\ unread' = (unread \ {p}) \cup found
  /\ listed' = listed \cup found
  /\ UNCHANGED <<settings, groups, agent, stage, verdict, tree, monitor, errors, denied, failure>>
ReadChildren(p) ==
  LET found == {q \in alive : parent[q] = p} \ listed IN
  /\ monitor = "walking" /\ p \in unread /\ parent[p] \notin unread
  /\ unread' = (unread \ {p}) \cup found
  /\ listed' = listed \cup found
  /\ UNCHANGED <<settings, groups, agent, stage, verdict, tree, monitor, errors, denied, failure>>

WalkEnds ==
  /\ monitor = "walking" /\ unread = {}
  /\ monitor' = "attaching"
  /\ UNCHANGED <<settings, groups, agent, stage, verdict, tree, sampling, denied, failure>>

\* One listed process: it is in the group, gone, put there, or an error.
InOrGone(p) ==
  /\ p \notin alive \/ cgroup[p] # "host"
  /\ UNCHANGED <<cgroup, errors, denied>>
Reattach(p) ==
  /\ p \in alive /\ cgroup[p] = "host"
  /\ \E g \in LeaseOf(agent) : cgroup' = [cgroup EXCEPT ![p] = g]
  /\ UNCHANGED <<errors, denied>>
MembershipError(p) ==
  /\ p \in alive
  /\ errors' = TRUE /\ denied' = denied \cup {p}
  /\ UNCHANGED cgroup
Check(p) ==
  /\ monitor = "attaching" /\ p \in listed /\ parent[p] \notin listed
  /\ InOrGone(p) \/ Reattach(p) \/ MembershipError(p)
  /\ listed' = listed \ {p}
  /\ UNCHANGED <<settings, groups, agent, stage, verdict, started, alive, parent,
                 monitor, unread, failure>>

\* An error fails the run, and so may what was counted: see MemoryGovernor.
\* Mutant: an error is only logged.
EndSampleLogged ==
  /\ monitor = "attaching" /\ listed = {}
  /\ failure' \in {failure, TRUE}
  /\ monitor' = "resting" /\ errors' = FALSE
  /\ UNCHANGED <<settings, groups, agent, stage, verdict, tree, unread, listed, denied>>
EndSample ==
  /\ monitor = "attaching" /\ listed = {}
  /\ failure' \in {failure \/ errors, TRUE}
  /\ monitor' = "resting" /\ errors' = FALSE
  /\ UNCHANGED <<settings, groups, agent, stage, verdict, tree, unread, listed, denied>>

Monitor ==
  \/ StartSample \/ WalkEnds \/ EndSample
  \/ \E p \in Processes : ReadChildren(p) \/ Check(p)

-----------------------------------------------------------------------------
\* The agent's processes

\* A process starts where its parent is.
Fork(p) ==
  LET q == started + 1 IN
  /\ stage \in {"attaching", "watching"}
  /\ p \in alive /\ started < MaxProcesses
  /\ started' = q /\ alive' = alive \cup {q}
  /\ parent' = [parent EXCEPT ![q] = p]
  /\ cgroup' = [cgroup EXCEPT ![q] = cgroup[p]]
  /\ UNCHANGED <<settings, groups, agent, stage, verdict, watch>>

\* Its children become init's.
Exit(p) ==
  /\ stage \in {"attaching", "watching"}
  /\ p \in alive
  /\ alive' = alive \ {p}
  /\ parent' = [q \in Processes |-> IF parent[q] = p THEN 0 ELSE parent[q]]
  /\ UNCHANGED <<settings, groups, agent, stage, verdict, started, cgroup, watch>>

Process == \E p \in Processes : Fork(p) \/ Exit(p)

\* The program dies: nobody waits for the agent or watches it.
Abandon ==
  /\ stage' = "ended" /\ monitor' = "none"
  /\ started' = 0 /\ alive' = {}
  /\ parent' = [p \in Processes |-> 0] /\ cgroup' = [p \in Processes |-> "host"]
  /\ unread' = {} /\ listed' = {} /\ errors' = FALSE
  /\ UNCHANGED <<settings, groups, agent, verdict, denied, failure>>

AgentRuns == Runtime \/ Monitor \/ Process

-----------------------------------------------------------------------------
\* Properties

\* Whatever policy asks for the claim of the process that was attributed: when
\* the claim is strict the process is in the group of its own agent, all of
\* whose limits and those of the run were written, and a monitor watches it.
StrictClaimIsTrue ==
  stage = "watching" =>
    \A policy \in AttributionPolicy :
      Validate(policy, AttributionOf(agent)) = "strict" =>
        /\ {"run", agent} \X {"made", "high", "max"} \subseteq done
        /\ Root \in alive => cgroup[Root] = agent
        /\ monitor # "none"

\* A process that lives below the root but outside of the group, because it was
\* forked before its parent was put there, is found and put there, or ends,
\* becomes an orphan or fails the run; forking on does not hide it.
Descends(p) ==
  /\ p \in alive
  /\ \A up \in SUBSET Processes :
       p \in up /\ (\A q \in up : parent[q] \in up \cup {0}) => Root \in up
Stray(p) == monitor # "none" /\ ~ failure /\ Descends(p) /\ cgroup[p] = "host"
StraysAreBroughtIn == \A p \in Processes : Stray(p) ~> ~ Stray(p)
=============================================================================
