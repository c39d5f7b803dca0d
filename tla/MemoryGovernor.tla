--------------------------- MODULE MemoryGovernor ---------------------------
(***************************************************************************)
(* The monitor thread of one runtime process and its RunResourceGovernor:  *)
(* the counters of the process's cgroup are read every 250 ms, compared    *)
(* with those of the sample before, and the differences drive the state    *)
(* machine that pauses spawns, picks a helper to cancel and fails the run. *)
(*                                                                         *)
(* The counters are the kernel's: "high" and "oom" of memory.events ("oom" *)
(* stands for oom and oom_kill) and "psi", the totals of memory.pressure.  *)
(***************************************************************************)
EXTENDS Integers, Sequences, FiniteSets

CONSTANTS
  Sustained,   \* sustained_pressure_samples
  Clear,       \* clear_pressure_samples
  PauseSpawns, \* pause_read_only_spawns
  Compaction,  \* request_runtime_compaction
  MaxCount,    \* u32::MAX
  Candidates,  \* helpers the registry may list
  Listings,    \* orders in which it may list some of them
  Readings,    \* which of the cgroup's files a sample can read
  MaxEvents,   \* bound: a counter's value
  MaxSamples   \* bound: samples taken

Counter == {"high", "oom", "psi"}
Counts == [Counter -> Nat]

\* HelperMemoryCandidate
Candidate == [id : Nat, readOnly : BOOLEAN, priority : Int, score : Nat, started : Nat]

\* sample_cgroup fails as a whole when memory.events cannot be read, and does
\* without memory.pressure.
Reading == {{}, {"high", "oom"}, Counter}

ASSUME ConstantsAssumption ==
  /\ MaxCount \in Nat
  /\ Sustained \in 1 .. MaxCount /\ Clear \in 1 .. MaxCount
  /\ PauseSpawns \in BOOLEAN /\ Compaction \in BOOLEAN
  /\ Candidates \subseteq Candidate
  /\ Listings \subseteq Seq(Candidates)
  /\ Readings \subseteq Reading
  /\ MaxEvents \in Nat /\ MaxSamples \in Nat

VARIABLES
  cgroup,    \* the kernel's counters
  previous,  \* previous_sample, which is None while history is empty
  governor,  \* RunResourceGovernor
  actions,   \* names of the actions of the last MemoryPressureTransition
  victim,    \* the helper it cancels, if any
  helpers,   \* the candidates it was given
  failure,   \* MemoryMonitor::failure
  history    \* what each sample was taken for

vars == <<cgroup, previous, governor, actions, victim, helpers, failure, history>>

States == {"Normal", "PressureObserved", "PressureSustained", "PressureCleared",
           "SpawnPauseReleased", "Terminal"}
Actions == {"KillGroup", "FailRun", "PauseReadOnlySpawns", "RequestRuntimeMitigation",
            "CancelReadOnlyHelper", "Observe", "ReleaseSpawnPause"}
Kinds == {"terminal", "pressure", "clear"}

TypeOK ==
  /\ cgroup \in Counts
  /\ previous \in Counts
  /\ governor \in [state : States, pressure : 0 .. MaxCount, clear : 0 .. MaxCount,
                   paused : BOOLEAN]
  /\ actions \subseteq Actions
  /\ victim \subseteq Nat
  /\ helpers \in Seq(Candidates)
  /\ failure \in BOOLEAN
  /\ history \in Seq(Kinds)

Init ==
  /\ cgroup = [c \in Counter |-> 0]
  /\ previous = cgroup
  /\ governor = [state |-> "Normal", pressure |-> 0, clear |-> 0, paused |-> FALSE]
  /\ actions = {} /\ victim = {} /\ helpers = <<>>
  /\ failure = FALSE
  /\ history = <<>>

-----------------------------------------------------------------------------
\* Sampling

\* MemoryPressureRawSample::from_monitor_event: what was not read counts as 0.
Raw(read) == [c \in Counter |-> IF c \in read THEN cgroup[c] ELSE 0]

\* MemoryPressureRawSample::delta.  There is none for the first sample.
Grew(raw, c) == history # <<>> /\ raw[c] > previous[c]

\* has_terminal_oom is asked before has_pressure.
Kind(raw) ==
  IF Grew(raw, "oom") THEN "terminal"
  ELSE IF Grew(raw, "high") \/ Grew(raw, "psi") THEN "pressure"
  ELSE "clear"

\* monitor_once: the count itself, not its growth, fails the run.
\* Mutant: its growth.
OutOfMemoryGrew(raw) == Grew(raw, "oom")
OutOfMemory(raw) == raw["oom"] > 0

\* u32::saturating_add
Next32(n) == IF n < MaxCount THEN n + 1 ELSE MaxCount

\* select_helper_victim: the order of its sort.
\* Mutant: without the last tie-break.
PrecedesButId(l, r) ==
  \/ l.priority < r.priority
  \/ l.priority = r.priority /\ l.score > r.score
  \/ l.priority = r.priority /\ l.score = r.score /\ l.started > r.started
Precedes(l, r) ==
  \/ l.priority < r.priority
  \/ l.priority = r.priority /\ l.score > r.score
  \/ l.priority = r.priority /\ l.score = r.score /\ l.started > r.started
  \/ l.priority = r.priority /\ l.score = r.score /\ l.started = r.started /\ l.id < r.id

\* The first of the read-only candidates once they are stably sorted.
Victim(listed) ==
  LET readers == {i \in DOMAIN listed : listed[i].readOnly}
      least == {i \in readers : \A j \in readers : ~ Precedes(listed[j], listed[i])}
  IN {listed[i].id : i \in {n \in least : \A j \in least : n <= j}}

-----------------------------------------------------------------------------
\* RunResourceGovernor::observe, by the kind of the sample

Terminal ==
  /\ governor' = [governor EXCEPT !.state = "Terminal", !.paused = TRUE]
  /\ actions' = {"KillGroup", "FailRun"}
  /\ victim' = {}

\* Mutant: the count of clear samples is kept.
PressureKeepsClear ==
  LET n == Next32(governor.pressure) IN
  /\ n < Sustained
  /\ governor' = [governor EXCEPT !.state = "PressureObserved", !.pressure = n]
  /\ actions' = {"Observe"}
  /\ victim' = {}
Pressure ==
  LET n == Next32(governor.pressure) IN
  /\ n < Sustained
  /\ governor' = [governor EXCEPT !.state = "PressureObserved", !.pressure = n, !.clear = 0]
  /\ actions' = {"Observe"}
  /\ victim' = {}

SustainedPressure(listed) ==
  LET n == Next32(governor.pressure) IN
  /\ n >= Sustained
  /\ governor' = [governor EXCEPT !.state = "PressureSustained", !.pressure = n, !.clear = 0,
                                  !.paused = @ \/ PauseSpawns]
  /\ victim' = Victim(listed)
  /\ actions' = {a \in {"PauseReadOnlySpawns", "RequestRuntimeMitigation",
                        "CancelReadOnlyHelper", "FailRun"} :
                  /\ a = "PauseReadOnlySpawns" => PauseSpawns /\ ~ governor.paused
                  /\ a = "RequestRuntimeMitigation" => Compaction
                  /\ a = "CancelReadOnlyHelper" => victim' # {}
                  /\ a = "FailRun" => victim' = {}}

\* Mutant: the count of pressure samples is kept.
ClearSampleKeepsPressure ==
  LET n == Next32(governor.clear) IN
  /\ ~ (governor.paused /\ n >= Clear)
  /\ governor' = [governor EXCEPT !.clear = n,
                                  !.state = IF @ = "Normal" THEN @ ELSE "PressureCleared"]
  /\ actions' = IF governor.state = "Normal" THEN {} ELSE {"Observe"}
  /\ victim' = {}
ClearSample ==
  LET n == Next32(governor.clear) IN
  /\ ~ (governor.paused /\ n >= Clear)
  /\ governor' = [governor EXCEPT !.pressure = 0, !.clear = n,
                                  !.state = IF @ = "Normal" THEN @ ELSE "PressureCleared"]
  /\ actions' = IF governor.state = "Normal" THEN {} ELSE {"Observe"}
  /\ victim' = {}

Release ==
  LET n == Next32(governor.clear) IN
  /\ governor.paused /\ n >= Clear
  /\ governor' = [governor EXCEPT !.pressure = 0, !.clear = n, !.paused = FALSE,
                                  !.state = "SpawnPauseReleased"]
  /\ actions' = {"ReleaseSpawnPause"}
  /\ victim' = {}

Observe(kind, listed) ==
  \/ kind = "terminal" /\ Terminal
  \/ kind = "pressure" /\ (Pressure \/ SustainedPressure(listed))
  \/ kind = "clear" /\ (ClearSample \/ Release)

\* One iteration of the monitor thread.  attached: every descendant is in the
\* cgroup, or could be put there.
Sample(read, listed, attached) ==
  LET raw == Raw(read) IN
  /\ Len(history) < MaxSamples
  /\ Observe(Kind(raw), listed)
  /\ previous' = raw
  /\ helpers' = listed
  /\ failure' = (failure \/ ~ attached \/ OutOfMemory(raw) \/ "FailRun" \in actions')
  /\ history' = Append(history, Kind(raw))
  /\ UNCHANGED cgroup

\* The kernel counts an event.
Count(c) ==
  /\ cgroup[c] < MaxEvents
  /\ cgroup' = [cgroup EXCEPT ![c] = @ + 1]
  /\ UNCHANGED <<previous, governor, actions, victim, helpers, failure, history>>

Next ==
  \/ \E c \in Counter : Count(c)
  \/ \E read \in Readings, listed \in Listings, attached \in BOOLEAN :
       Sample(read, listed, attached)

Spec == Init /\ [][Next]_vars

-----------------------------------------------------------------------------
\* Properties

\* The samples of a kind taken since the last one of another kind.
Recent(kind, other) ==
  {i \in DOMAIN history : history[i] = kind /\ \A j \in i .. Len(history) : history[j] # other}

\* A helper is cancelled, or the run failed, for pressure only when enough
\* samples saw it since the last sample that saw none.
PauseIsEarned ==
  governor.state = "PressureSustained" => Cardinality(Recent("pressure", "clear")) >= Sustained

\* Spawns resume only after enough clear samples since the last that saw
\* pressure, however the pause began.
ReleaseIsEarned ==
  governor.state = "SpawnPauseReleased" => Cardinality(Recent("clear", "pressure")) >= Clear

\* An out-of-memory event that a sample read fails the run, also when it came
\* before the first sample and the governor saw no growth.
OomIsNeverMissed ==
  (history # <<>> /\ previous["oom"] > 0) \/ "terminal" \in {history[i] : i \in DOMAIN history}
    => failure

\* The victim depends on the candidates, not on the order in which the
\* registry's map lists them: two monitors that see the same cancel the same.
VictimIgnoresOrder ==
  victim # {} =>
    \A order \in [DOMAIN helpers -> DOMAIN helpers] :
      (\A i, j \in DOMAIN helpers : order[i] = order[j] => i = j) =>
        Victim([i \in DOMAIN helpers |-> helpers[order[i]]]) = victim
=============================================================================
