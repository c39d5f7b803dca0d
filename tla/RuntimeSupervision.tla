------------------------- MODULE RuntimeSupervision -------------------------
(***************************************************************************)
(* The agent runtime of one run: a thread per helper that runs a codex     *)
(* process, then the writer's process once every helper was joined.  Each  *)
(* process has a monitor thread, which can fail it, kill it for want of    *)
(* memory, or cancel a helper of its choice.                               *)
(*                                                                         *)
(* A monitor chooses freely here: when it does what is MemoryGovernor's.   *)
(* A process group is killed in one step, its two grace periods included.  *)
(***************************************************************************)
EXTENDS Integers, Sequences

CONSTANTS
  Helpers,     \* SpawnPlan::child_nodes, in order
  Writer,      \* the Implementer
  MayRefuse,   \* children whose plan may ask for more than reading
  MayLose,     \* processes of which events can fail to be written
  Memory,      \* the processes have memory leases
  MayLeave,    \* processes that may leave something running in their groups
  Leftovers    \* what that can be

Helper == {Helpers[i] : i \in DOMAIN Helpers}
Process == Helper \cup {Writer}

ASSUME ConstantsAssumption ==
  /\ Helpers \in Seq(Helper)
  /\ \A i, j \in DOMAIN Helpers : Helpers[i] = Helpers[j] => i = j
  /\ Writer \notin Helper
  /\ MayRefuse \subseteq Helper /\ MayLose \subseteq Process /\ MayLeave \subseteq Process
  /\ Memory \in BOOLEAN
  /\ Leftovers \subseteq {"holds_output", "silent"}

VARIABLES
  refused,   \* children that ensure_read_only_child refuses
  losing,    \* processes of which events can fail to be written in this run
  main,      \* run_issue_request
  spawned,   \* how many helpers have a thread
  pc,        \* where each process's thread is in run_codex_exec
  result,    \* what run_codex_exec returned
  bad,       \* it will return an error
  root,      \* the process itself
  success,   \* whether it exited with 0
  rest,      \* what its group still runs besides it
  events,    \* runtime_process_events.jsonl
  monitor,   \* its monitor thread
  target,    \* the helpers that thread is about to cancel
  failure,   \* MemoryMonitor::failure
  cancelled  \* ActiveMemoryRegistryState::cancelled

threads == <<main, spawned, pc, result, bad>>
processes == <<root, success, rest>>
monitors == <<monitor, target, failure, cancelled>>
given == <<refused, losing>>
vars == <<given, threads, processes, events, monitors>>

Locations == {"idle", "launching", "recording_started", "abandoning", "killing_unobserved",
              "attaching", "killing_unmonitored", "closing", "recording_attributed",
              "dropping", "waiting", "terminating", "joining_monitor", "recording_end",
              "joining_streams", "done"}

TypeOK ==
  /\ refused \subseteq MayRefuse
  /\ losing \subseteq MayLose
  /\ main \in {"spawning", "joining", "writing", "ok", "error"}
  /\ spawned \in 0 .. Len(Helpers)
  /\ pc \in [Process -> Locations]
  /\ result \in [Process -> {"none", "ok", "error"}]
  /\ bad \in [Process -> BOOLEAN]
  /\ root \in [Process -> {"none", "running", "exited", "reaped"}]
  /\ success \in [Process -> BOOLEAN]
  /\ rest \in [Process -> Leftovers \cup {"none"}]
  /\ events \in [Process -> Seq({"started", "attributed", "terminated"})]
  /\ monitor \in [Process -> {"none", "running", "failing", "killing", "cancelling",
                              "signalling", "exited"}]
  /\ target \in [Process -> SUBSET Helper]
  /\ failure \in [Process -> BOOLEAN]
  /\ cancelled \subseteq Helper

Init ==
  /\ refused \in SUBSET MayRefuse
  /\ losing \in SUBSET MayLose
  /\ main = "spawning" /\ spawned = 0
  /\ pc = [p \in Process |-> "idle"]
  /\ result = [p \in Process |-> "none"]
  /\ bad = [p \in Process |-> FALSE]
  /\ root = [p \in Process |-> "none"]
  /\ success = [p \in Process |-> FALSE]
  /\ rest = [p \in Process |-> "none"]
  /\ events = [p \in Process |-> <<>>]
  /\ monitor = [p \in Process |-> "none"]
  /\ target = [p \in Process |-> {}]
  /\ failure = [p \in Process |-> FALSE]
  /\ cancelled = {}

-----------------------------------------------------------------------------
\* run_codex_exec

Go(p, from, to) ==
  /\ pc[p] = from
  /\ pc' = [pc EXCEPT ![p] = to]
  /\ UNCHANGED <<main, spawned, result>>

Return(p, from, r) ==
  /\ pc[p] = from
  /\ pc' = [pc EXCEPT ![p] = "done"]
  /\ result' = [result EXCEPT ![p] = r]
  /\ UNCHANGED <<main, spawned>>

\* RuntimeProcessLifecycle writes an event n times: a write that failed may
\* have reached the artifact before the trace.
Write(p, event, n) ==
  events' = [events EXCEPT ![p] = IF n = 0 THEN @ ELSE IF n = 1 THEN Append(@, event)
                                  ELSE Append(Append(@, event), event)]

\* terminate_child, and cancel_process_tree as the thread that waits sees it.
KillAndReap(p) ==
  /\ root' = [root EXCEPT ![p] = "reaped"]
  /\ rest' = [rest EXCEPT ![p] = "none"]
  /\ UNCHANGED success

\* What comes before the process is spawned may fail, and so may that.
LaunchFails(p) == Return(p, "launching", "error") /\ UNCHANGED <<bad, processes, events, monitors>>
Launch(p) ==
  /\ Go(p, "launching", "recording_started")
  /\ root' = [root EXCEPT ![p] = "running"]
  /\ UNCHANGED <<bad, success, rest, events, monitors>>

RecordStarted(p) ==
  /\ Go(p, "recording_started", "attaching")
  /\ Write(p, "started", 1)
  /\ UNCHANGED <<bad, processes, monitors>>

\* RuntimeProcessLifecycle::start fails, and drops the lifecycle: it ends
\* before the process does.
StartedNotRecorded(p) ==
  /\ p \in losing
  /\ Go(p, "recording_started", "abandoning")
  /\ \E n \in 0 .. 1 : Write(p, "started", n)
  /\ UNCHANGED <<bad, processes, monitors>>
Abandon(p) ==
  /\ Go(p, "abandoning", "killing_unobserved")
  /\ \E n \in 0 .. 1 : Write(p, "terminated", n)
  /\ UNCHANGED <<bad, processes, monitors>>
KillUnobserved(p) ==
  /\ Return(p, "killing_unobserved", "error")
  /\ KillAndReap(p)
  /\ UNCHANGED <<bad, events, monitors>>

\* CliCodexMemorySupervisor::start
Attach(p) ==
  /\ Go(p, "attaching", "recording_attributed")
  /\ monitor' = [monitor EXCEPT ![p] = IF Memory THEN "running" ELSE "none"]
  /\ UNCHANGED <<bad, processes, events, target, failure, cancelled>>
AttachFails(p) ==
  /\ Memory
  /\ Go(p, "attaching", "killing_unmonitored")
  /\ UNCHANGED <<bad, processes, events, monitors>>
KillUnmonitored(p) ==
  /\ Go(p, "killing_unmonitored", "closing")
  /\ KillAndReap(p)
  /\ UNCHANGED <<bad, events, monitors>>

\* How often "terminated" may be written when it is tried again on drop.
Attempts(p) == IF p \in losing THEN 0 .. 2 ELSE {1}

Close(p) ==
  /\ Return(p, "closing", "error")
  /\ \E n \in Attempts(p) : Write(p, "terminated", n)
  /\ UNCHANGED <<bad, processes, monitors>>

RecordAttributed(p) ==
  /\ Go(p, "recording_attributed", "waiting")
  /\ Write(p, "attributed", 1)
  /\ UNCHANGED <<bad, processes, monitors>>

\* The `?` after attributed(): the process and its monitor are left alone.
AttributedNotRecorded(p) ==
  /\ p \in losing
  /\ Go(p, "recording_attributed", "dropping")
  /\ \E n \in 0 .. 1 : Write(p, "attributed", n)
  /\ UNCHANGED <<bad, processes, monitors>>
Drop(p) ==
  /\ Return(p, "dropping", "error")
  /\ \E n \in 0 .. 1 : Write(p, "terminated", n)
  /\ UNCHANGED <<bad, processes, monitors>>

\* wait_child_with_timeout asks for an exit first, then for a failure of the
\* monitor, then for the time.
AfterWait(p) == IF monitor[p] = "none" THEN "recording_end" ELSE "joining_monitor"
Poll(p) ==
  /\ root[p] = "exited"
  /\ Go(p, "waiting", AfterWait(p))
  /\ root' = [root EXCEPT ![p] = "reaped"]
  /\ UNCHANGED <<bad, success, rest, events, monitors>>
FailClosed(p) ==
  /\ root[p] = "running" /\ failure[p]
  /\ Go(p, "waiting", "terminating")
  /\ UNCHANGED <<bad, processes, events, monitors>>
\* Mutant: a monitored process has no timeout.
TimeoutUnmonitored(p) ==
  /\ root[p] = "running" /\ monitor[p] = "none"
  /\ Go(p, "waiting", "terminating")
  /\ UNCHANGED <<bad, processes, events, monitors>>
Timeout(p) ==
  /\ root[p] = "running" /\ ~ failure[p]
  /\ Go(p, "waiting", "terminating")
  /\ UNCHANGED <<bad, processes, events, monitors>>

\* Mutant: the process is signalled and not waited for.
TerminateWithoutWait(p) ==
  /\ Go(p, "terminating", AfterWait(p))
  /\ bad' = [bad EXCEPT ![p] = TRUE]
  /\ UNCHANGED <<processes, events, monitors>>
Terminate(p) ==
  /\ Go(p, "terminating", AfterWait(p))
  /\ bad' = [bad EXCEPT ![p] = TRUE]
  /\ KillAndReap(p)
  /\ UNCHANGED <<events, monitors>>

\* MemoryMonitor::stop, once its thread has seen the flag.
\* Mutant: its failure is not asked for.
StopMonitorOnly(p) ==
  /\ monitor[p] = "exited"
  /\ Go(p, "joining_monitor", "recording_end")
  /\ monitor' = [monitor EXCEPT ![p] = "none"]
  /\ UNCHANGED <<bad, processes, events, target, failure, cancelled>>
StopMonitor(p) ==
  /\ monitor[p] = "exited"
  /\ Go(p, "joining_monitor", "recording_end")
  /\ monitor' = [monitor EXCEPT ![p] = "none"]
  /\ bad' = [bad EXCEPT ![p] = @ \/ failure[p]]
  /\ UNCHANGED <<processes, events, target, failure, cancelled>>

\* terminated(), whose result counts only when nothing else failed.
RecordEnd(p) ==
  /\ Go(p, "recording_end", "joining_streams")
  /\ \/ Write(p, "terminated", 1)
     \/ bad[p] /\ \E n \in Attempts(p) : Write(p, "terminated", n)
  /\ UNCHANGED <<bad, processes, monitors>>
EndNotRecorded(p) ==
  /\ p \in losing /\ ~ bad[p]
  /\ Return(p, "recording_end", "error")
  /\ \E n \in Attempts(p) : Write(p, "terminated", n)
  /\ UNCHANGED <<bad, processes, monitors>>

\* join_codex_streams waits for the end of the output; then the exit status and
\* the output are looked at, and a helper writes its handoff.
JoinStreams(p) ==
  /\ rest[p] # "holds_output"
  /\ \/ Return(p, "joining_streams", "error")
     \/ ~ bad[p] /\ success[p] /\ Return(p, "joining_streams", "ok")
  /\ UNCHANGED <<bad, processes, events, monitors>>

Thread(p) ==
  \/ LaunchFails(p) \/ Launch(p) \/ RecordStarted(p) \/ StartedNotRecorded(p)
  \/ Abandon(p) \/ KillUnobserved(p) \/ Attach(p) \/ AttachFails(p) \/ KillUnmonitored(p)
  \/ Close(p) \/ RecordAttributed(p) \/ AttributedNotRecorded(p) \/ Drop(p)
  \/ Poll(p) \/ FailClosed(p) \/ Timeout(p) \/ Terminate(p) \/ StopMonitor(p)
  \/ RecordEnd(p) \/ EndNotRecorded(p) \/ JoinStreams(p)

-----------------------------------------------------------------------------
\* run_child_agents and run_issue_request

SpawnHelper ==
  LET node == Helpers[spawned + 1] IN
  /\ main = "spawning" /\ spawned < Len(Helpers) /\ node \notin refused
  /\ spawned' = spawned + 1
  /\ pc' = [pc EXCEPT ![node] = "launching"]
  /\ UNCHANGED <<main, result, bad, processes, events, monitors>>

\* ensure_read_only_child's `?`: the threads there are, are not joined.
RefuseHelper ==
  /\ main = "spawning" /\ spawned < Len(Helpers) /\ Helpers[spawned + 1] \in refused
  /\ main' = "error"
  /\ UNCHANGED <<spawned, pc, result, bad, processes, events, monitors>>

AllSpawned ==
  /\ main = "spawning" /\ spawned = Len(Helpers)
  /\ main' = "joining"
  /\ UNCHANGED <<spawned, pc, result, bad, processes, events, monitors>>

\* join_child_agent_threads and write_spawn_handoff_manifest.  It joins every
\* thread before it returns the first error.
\* Mutant: it returns the first error at once.
HelpersFailedAtOnce ==
  /\ main = "joining"
  /\ \E h \in Helper : result[h] = "error"
  /\ main' = "error"
  /\ UNCHANGED <<spawned, pc, result, bad, processes, events, monitors>>
HelpersFailed ==
  /\ main = "joining"
  /\ \A h \in Helper : pc[h] = "done"
  /\ main' = "error"
  /\ UNCHANGED <<spawned, pc, result, bad, processes, events, monitors>>

\* Mutant: the writer starts when no helper has failed.
StartWriterEarly ==
  /\ main = "joining"
  /\ \A h \in Helper : result[h] # "error"
  /\ main' = "writing"
  /\ pc' = [pc EXCEPT ![Writer] = "launching"]
  /\ UNCHANGED <<spawned, result, bad, processes, events, monitors>>
StartWriter ==
  /\ main = "joining"
  /\ \A h \in Helper : result[h] = "ok"
  /\ main' = "writing"
  /\ pc' = [pc EXCEPT ![Writer] = "launching"]
  /\ UNCHANGED <<spawned, result, bad, processes, events, monitors>>

WriterReturned ==
  /\ main = "writing" /\ pc[Writer] = "done"
  /\ main' = result[Writer]
  /\ UNCHANGED <<spawned, pc, result, bad, processes, events, monitors>>

Main == SpawnHelper \/ RefuseHelper \/ AllSpawned \/ HelpersFailed \/ StartWriter \/ WriterReturned

-----------------------------------------------------------------------------
\* The monitor threads

\* Targets of ActiveMemoryRegistry: registered when the monitor starts, and
\* until it was joined.
Registered == {p \in Process : monitor[p] # "none"}

\* TERM, then KILL, to a process group.  The process may take TERM for an
\* ordinary end, and whoever waits for it sees its exit later.
Signal(p) ==
  /\ root' = [root EXCEPT ![p] = IF @ = "running" THEN "exited" ELSE @]
  /\ rest' = [rest EXCEPT ![p] = "none"]
  /\ success' \in {success} \cup
                  IF root[p] = "running" THEN {[success EXCEPT ![p] = TRUE]} ELSE {}

Become(p, from, to) ==
  /\ monitor[p] = from
  /\ monitor' = [monitor EXCEPT ![p] = to]
  /\ UNCHANGED <<threads, events>>

\* A sample is taken until the flag is up: an error, or pressure with nobody to
\* cancel, fails the run; for want of memory the group is killed before.
Sample(p) ==
  /\ pc[p] # "joining_monitor"
  /\ \/ Become(p, "running", "failing") /\ UNCHANGED target
     \/ Become(p, "running", "killing") /\ UNCHANGED target
     \/ /\ Become(p, "running", "cancelling")
        /\ \E h \in Helper \cap Registered : target' = [target EXCEPT ![p] = {h}]
  /\ UNCHANGED <<processes, failure, cancelled>>

Fail(p) ==
  /\ Become(p, "failing", "running")
  /\ failure' = [failure EXCEPT ![p] = TRUE]
  /\ UNCHANGED <<processes, target, cancelled>>

KillGroup(p) ==
  /\ Become(p, "killing", "failing")
  /\ Signal(p)
  /\ UNCHANGED <<target, failure, cancelled>>

\* mark_cancelled, by then perhaps too late.
Markable(p) == (target[p] \cap Registered) \ cancelled
MarkCancelled(p) ==
  /\ Markable(p) # {}
  /\ Become(p, "cancelling", "signalling")
  /\ cancelled' = cancelled \cup target[p]
  /\ UNCHANGED <<processes, target, failure>>
CancelTooLate(p) ==
  /\ Markable(p) = {}
  /\ Become(p, "cancelling", "running")
  /\ target' = [target EXCEPT ![p] = {}]
  /\ UNCHANGED <<processes, failure, cancelled>>
CancelHelper(p) ==
  /\ Become(p, "signalling", "running")
  /\ \E h \in target[p] : Signal(h)
  /\ target' = [target EXCEPT ![p] = {}]
  /\ UNCHANGED <<failure, cancelled>>

StopSampling(p) ==
  /\ pc[p] = "joining_monitor"
  /\ Become(p, "running", "exited")
  /\ UNCHANGED <<processes, target, failure, cancelled>>

Monitor(p) ==
  Fail(p) \/ KillGroup(p) \/ MarkCancelled(p) \/ CancelTooLate(p) \/ CancelHelper(p)
  \/ StopSampling(p)

-----------------------------------------------------------------------------
\* The processes

\* A process ends, for good or ill, and may leave others in its group.
Exit(p) ==
  /\ root[p] = "running"
  /\ root' = [root EXCEPT ![p] = "exited"]
  /\ \E ok \in BOOLEAN : success' = [success EXCEPT ![p] = ok]
  /\ \E left \in {l \in Leftovers : p \in MayLeave} \cup {"none"} : rest' = [rest EXCEPT ![p] = left]
  /\ UNCHANGED <<threads, events, monitors>>

LeftoverExits(p) ==
  /\ rest[p] # "none"
  /\ rest' = [rest EXCEPT ![p] = "none"]
  /\ UNCHANGED <<threads, root, success, events, monitors>>

Next ==
  /\ \/ Main
     \/ \E p \in Process : Thread(p) \/ Sample(p) \/ Monitor(p) \/ Exit(p) \/ LeftoverExits(p)
  /\ UNCHANGED given

\* The threads run: a poll follows a poll, and time passes.  Nothing is assumed
\* of the processes, which may run for ever, or of what a monitor sees.
Fairness ==
  /\ WF_vars(Main /\ UNCHANGED given)
  /\ \A p \in Process :
       WF_vars(Thread(p) /\ UNCHANGED given) /\ WF_vars(Monitor(p) /\ UNCHANGED given)

Spec == Init /\ [][Next]_vars /\ Fairness

-----------------------------------------------------------------------------
\* Properties

Returned == main \in {"ok", "error"}

\* The writer's process runs only when every helper has succeeded and its
\* process and its monitor are gone, whatever was cancelled or could not be
\* recorded on the way.
WriterRunsAlone ==
  root[Writer] \in {"running", "exited"} =>
    \A h \in Helper : result[h] = "ok" /\ root[h] = "reaped" /\ monitor[h] = "none"

\* A run succeeds only if no monitor reported a failure, however late, no
\* process failed, and each one's life was recorded whole.
SuccessIsAccounted ==
  main = "ok" =>
    \A p \in Process :
      /\ ~ failure[p] /\ success[p]
      /\ events[p] = <<"started", "attributed", "terminated">>

\* Nothing keeps the runtime from looking after its processes.
Orderly == losing = {} /\ refused = {} /\ "silent" \notin Leftovers

\* When the runtime returns, also with an error, none of its processes or
\* monitors is still at work, however they ended and whoever ended them, unless
\* an event could not be recorded, a child was refused, or a process left
\* something silent behind (see the README).
NothingLeftRunning ==
  Orderly /\ Returned =>
    \A p \in Process : root[p] \in {"none", "reaped"} /\ rest[p] = "none" /\ monitor[p] = "none"

\* As long as they can be recorded, the events of a process say that it has
\* ended once, and only when it has.
EndIsRecorded ==
  \A p \in Process \ losing :
    /\ "terminated" \in {events[p][i] : i \in DOMAIN events[p]} => root[p] = "reaped"
    /\ pc[p] = "done" /\ root[p] # "none" =>
         \E i \in DOMAIN events[p] :
           \A j \in DOMAIN events[p] : events[p][j] = "terminated" <=> j = i

\* The runtime returns, whether or not its processes would, and whatever is
\* refused, killed or not recorded, provided that what a process leaves behind
\* does not hold its output for ever.
RuntimeReturns == (\A p \in Process : []<>(rest[p] # "holds_output")) => <>Returned
=============================================================================
