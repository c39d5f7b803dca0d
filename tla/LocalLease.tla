----------------------------- MODULE LocalLease -----------------------------
(***************************************************************************)
(* The local SQLite run store of the CLI: the tables `runs` and            *)
(* `local_leases`, the transaction record_run_state executes on them, and  *)
(* the heartbeat thread that renews a run's lease while it works.          *)
(*                                                                         *)
(* Each element of Proc is one process that executes `agentactr run issue` *)
(* on the issue IssueOf[p].  All processes share the run store.  Instants  *)
(* and durations are in one arbitrary unit (the code uses milliseconds).   *)
(***************************************************************************)
EXTENDS Integers

CONSTANTS
  Proc,             \* processes executing `run issue`
  Issues,           \* issues (repository and number)
  IssueOf,          \* the issue each process runs
  Ttl,              \* scheduling.lease_ttl_ms
  MinInterval,      \* the clamp of lease_heartbeat_interval, 1000 in the code
  MaxInterval,      \* and 60000
  MaxDelay,         \* how late a due lease step of a live process may be
  MaxTime,          \* bound: the last instant of a behaviour
  SameInstantRuns,  \* may two runs of one issue be named in one instant?
  NoId              \* the run id of a process that has none

ASSUME ConstantsAssumption ==
  /\ IssueOf \in [Proc -> Issues]
  /\ Ttl \in Nat
  /\ MinInterval \in Nat
  /\ MaxInterval \in Nat
  /\ MaxDelay \in Nat
  /\ MaxTime \in Nat
  /\ SameInstantRuns \in BOOLEAN
  /\ NoId \notin [issue : Issues, at : 0 .. MaxTime]

\* new_run_id: "issue-{issue}-{epoch_ms}" and nothing else.
RunIds == [issue : Issues, at : 0 .. MaxTime]
NewRunId(p, now) == [issue |-> IssueOf[p], at |-> now]

\* What a run records of itself: "failed" is any status that record_run_state
\* ends the lease row for ("<phase>_failed"; "...deferred" and "completed",
\* which it also lists, no caller writes), "kept" any other one (disabled,
\* review_required, finalized, claim_not_acquired).
Outcomes == {"started", "failed", "kept"}
Releases(status) == status = "failed"

\* Mutant: the heartbeat waits for the whole lease.
HeartbeatIntervalTooLong == Ttl

\* (lease_ttl_ms / 3).clamp(1_000, 60_000)
HeartbeatInterval ==
  LET third == Ttl \div 3
  IN  IF third < MinInterval THEN MinInterval
      ELSE IF third > MaxInterval THEN MaxInterval ELSE third

VARIABLES
  clock,   \* the wall clock every process reads
  lease,   \* table local_leases: at most one row per issue
  runs,    \* table runs: the run ids that have a row
  pc,      \* where each process is in cmd_run
  rid,     \* the run id of each process
  outcome, \* the outcome it has recorded itself, if any
  hb,      \* its heartbeat thread
  mark,    \* when its recv_timeout ends, or the instant its refresh has read
  due,     \* the instant by which its next lease step is due
  result   \* what cmd_run returned

vars == <<clock, lease, runs, pc, rid, outcome, hb, mark, due, result>>

NoRow == [status |-> "none", run |-> NoId, expires |-> 0]

Row == [status  : {"none", "active", "expired", "released"},
        run     : RunIds \cup {NoId},
        expires : Nat]

TypeOK ==
  /\ clock \in 0 .. MaxTime
  /\ lease \in [Issues -> Row]
  /\ runs \subseteq RunIds
  /\ pc \in [Proc -> {"idle", "named", "leased", "working", "done", "ended", "refused"}]
  /\ rid \in [Proc -> RunIds \cup {NoId}]
  /\ \A p \in Proc : pc[p] # "idle" => rid[p] \in RunIds
  /\ outcome \in [Proc -> Outcomes]
  /\ hb \in [Proc -> {"off", "waiting", "refreshing", "failed"}]
  /\ mark \in [Proc -> Nat]
  /\ due \in [Proc -> Nat]
  /\ result \in [Proc -> {"none", "ok", "err", "crashed"}]

Init ==
  /\ clock = 0
  /\ lease = [i \in Issues |-> NoRow]
  /\ runs = {}
  /\ pc = [p \in Proc |-> "idle"]
  /\ rid = [p \in Proc |-> NoId]
  /\ outcome = [p \in Proc |-> "started"]
  /\ hb = [p \in Proc |-> "off"]
  /\ mark = [p \in Proc |-> 0]
  /\ due = [p \in Proc |-> 0]
  /\ result = [p \in Proc |-> "none"]

-----------------------------------------------------------------------------
\* The statements of record_run_state's transaction.

\* UPDATE local_leases SET status = 'expired'
\*   WHERE status = 'active' AND expires_at_ms <= now, for every issue.
Elapsed(row) == row.status = "active" /\ row.expires <= clock

Swept ==
  [i \in Issues |->
     IF Elapsed(lease[i]) THEN [lease[i] EXCEPT !.status = "expired"]
                          ELSE lease[i]]

\* Mutant: the comparison with the asking run is inverted.
ConflictWithItself(p) ==
  LET row == Swept[IssueOf[p]]
  IN  row.status = "active" /\ row.expires > clock /\ row.run = rid[p]

\* The conflict query: an active, unexpired row of another run.
Conflict(p) ==
  LET row == Swept[IssueOf[p]]
  IN  row.status = "active" /\ row.expires > clock /\ row.run # rid[p]

\* UPDATE local_leases SET status = ?4 WHERE repo, issue and run_id match: the
\* row takes the run's own status, which is neither 'active' nor 'expired'.
ReleasedBy(p, table) ==
  IF table[IssueOf[p]].run = rid[p]
    THEN [table EXCEPT ![IssueOf[p]].status = "released"]
    ELSE table

-----------------------------------------------------------------------------
\* cmd_run

\* let run_id = new_run_id(&issue)
NameRun(p) ==
  /\ pc[p] = "idle"
  /\ SameInstantRuns \/ \A q \in Proc : rid[q] # NewRunId(p, clock)
  /\ rid' = [rid EXCEPT ![p] = NewRunId(p, clock)]
  /\ pc' = [pc EXCEPT ![p] = "named"]
  /\ UNCHANGED <<clock, lease, runs, outcome, hb, mark, due, result>>

\* record_run_state(.., "started", ..) commits: the runs row is written, the
\* elapsed leases are marked and INSERT OR REPLACE takes the issue's row.
Admit(p) ==
  /\ pc[p] = "named"
  /\ ~Conflict(p)
  /\ runs' = runs \cup {rid[p]}
  /\ lease' = [Swept EXCEPT ![IssueOf[p]] =
                 [status |-> "active", run |-> rid[p], expires |-> clock + Ttl]]
  /\ pc' = [pc EXCEPT ![p] = "leased"]
  /\ due' = [due EXCEPT ![p] = clock + MaxDelay]
  /\ UNCHANGED <<clock, rid, outcome, hb, mark, result>>

\* It rolls back on a conflict, or the store fails: the transaction leaves
\* nothing behind and `?` ends the command.
Refuse(p) ==
  /\ pc[p] = "named"
  /\ pc' = [pc EXCEPT ![p] = "refused"]
  /\ result' = [result EXCEPT ![p] = "err"]
  /\ UNCHANGED <<clock, lease, runs, rid, outcome, hb, mark, due>>

\* The trace event that follows the commit cannot be appended: `?` ends the
\* command before the heartbeat starts, and the lease stays.
AdmitEventFails(p) ==
  /\ pc[p] = "leased"
  /\ pc' = [pc EXCEPT ![p] = "ended"]
  /\ result' = [result EXCEPT ![p] = "err"]
  /\ due' = [due EXCEPT ![p] = 0]
  /\ UNCHANGED <<clock, lease, runs, rid, outcome, hb, mark>>

\* LocalLeaseHeartbeat::start
StartHeartbeat(p) ==
  /\ pc[p] = "leased"
  /\ pc' = [pc EXCEPT ![p] = "working"]
  /\ hb' = [hb EXCEPT ![p] = "waiting"]
  /\ mark' = [mark EXCEPT ![p] = clock + HeartbeatInterval]
  /\ due' = [due EXCEPT ![p] = clock + HeartbeatInterval + MaxDelay]
  /\ UNCHANGED <<clock, lease, runs, rid, outcome, result>>

\* A run records one outcome; quality_failed it records twice, in
\* record_phase and again in cmd_run.
Records(p, status) ==
  \/ outcome[p] = "started" /\ status \in {"failed", "kept"}
  \/ outcome[p] = "failed"  /\ status = "failed"

\* record_run_state with any later status, from the run's own thread.  The
\* heartbeat still runs, and so does the run: the tracker calls that follow
\* a failed phase come after this.
RecordStatus(p, status) ==
  /\ pc[p] = "working"
  /\ Records(p, status)
  /\ outcome' = [outcome EXCEPT ![p] = status]
  /\ runs' = runs \cup {rid[p]}
  /\ lease' = IF Releases(status) THEN ReleasedBy(p, Swept) ELSE Swept
  /\ UNCHANGED <<clock, pc, rid, hb, mark, due, result>>

\* The closure of cmd_run returns, with or without a recorded outcome; it is
\* Ok(()) only after an outcome that keeps the lease.
BodyReturns(p, res) ==
  /\ pc[p] = "working"
  /\ res = "ok" => outcome[p] = "kept"
  /\ pc' = [pc EXCEPT ![p] = "done"]
  /\ result' = [result EXCEPT ![p] = res]
  /\ UNCHANGED <<clock, lease, runs, rid, outcome, hb, mark, due>>

\* The heartbeat thread is gone and its instants with it.
HeartbeatOff(p) ==
  /\ hb' = [hb EXCEPT ![p] = "off"]
  /\ mark' = [mark EXCEPT ![p] = 0]
  /\ due' = [due EXCEPT ![p] = 0]

\* lease_heartbeat.stop()? joins the thread and reports its failure, if any,
\* in place of run_result.
StopHeartbeat(p) ==
  /\ pc[p] = "done"
  /\ hb[p] \in {"waiting", "failed"}
  /\ pc' = [pc EXCEPT ![p] = "ended"]
  /\ result' = [result EXCEPT ![p] = IF hb[p] = "failed" THEN "err" ELSE @]
  /\ HeartbeatOff(p)
  /\ UNCHANGED <<clock, lease, runs, rid, outcome>>

\* The process dies; the run store keeps what was committed.
Crash(p) ==
  /\ pc[p] \in {"named", "leased", "working", "done"}
  /\ pc' = [pc EXCEPT ![p] = "ended"]
  /\ result' = [result EXCEPT ![p] = "crashed"]
  /\ HeartbeatOff(p)
  /\ UNCHANGED <<clock, lease, runs, rid, outcome>>

-----------------------------------------------------------------------------
\* The heartbeat thread

\* recv_timeout times out; refresh_local_lease reads the clock.
HeartbeatWakes(p) ==
  /\ hb[p] = "waiting"
  /\ clock >= mark[p]
  /\ hb' = [hb EXCEPT ![p] = "refreshing"]
  /\ mark' = [mark EXCEPT ![p] = clock]
  /\ UNCHANGED <<clock, lease, runs, pc, rid, outcome, due, result>>

\* Mutant: the UPDATE replaces the issue's row whoever has it.
HeartbeatReplaces(p) ==
  LET i == IssueOf[p]
  IN  /\ hb[p] = "refreshing"
      /\ lease' = [lease EXCEPT ![i] =
                     [status |-> "active", run |-> rid[p], expires |-> mark[p] + Ttl]]
      /\ hb' = [hb EXCEPT ![p] = "waiting"]
      /\ mark' = [mark EXCEPT ![p] = clock + HeartbeatInterval]
      /\ due' = [due EXCEPT ![p] = clock + HeartbeatInterval + MaxDelay]
      /\ UNCHANGED <<clock, runs, pc, rid, outcome, result>>

\* Its UPDATE matches the run's own active row, whether or not the row has
\* elapsed, or no row at all; both are Ok(()) and the thread waits again.
HeartbeatRefreshes(p) ==
  LET i == IssueOf[p]
  IN  /\ hb[p] = "refreshing"
      /\ lease' = IF lease[i].status = "active" /\ lease[i].run = rid[p]
                    THEN [lease EXCEPT ![i].expires = mark[p] + Ttl]
                    ELSE lease
      /\ hb' = [hb EXCEPT ![p] = "waiting"]
      /\ mark' = [mark EXCEPT ![p] = clock + HeartbeatInterval]
      /\ due' = [due EXCEPT ![p] = clock + HeartbeatInterval + MaxDelay]
      /\ UNCHANGED <<clock, runs, pc, rid, outcome, result>>

\* The store cannot be opened or stays locked: the error is kept for stop()
\* and the thread ends.
HeartbeatFails(p) ==
  /\ hb[p] = "refreshing"
  /\ hb' = [hb EXCEPT ![p] = "failed"]
  /\ mark' = [mark EXCEPT ![p] = 0]
  /\ due' = [due EXCEPT ![p] = 0]
  /\ UNCHANGED <<clock, lease, runs, pc, rid, outcome, result>>

-----------------------------------------------------------------------------
\* cmd_finalize, a process of its own, ends in record_run_state with a status
\* that keeps the lease.  Which runs it accepts is decided on their artifacts;
\* here any recorded run may be finalized at any time.
Finalize(r) ==
  /\ r \in runs
  /\ lease' = Swept
  /\ UNCHANGED <<clock, runs, pc, rid, outcome, hb, mark, due, result>>

-----------------------------------------------------------------------------
\* A live process whose heartbeat thread has not failed.
Timed(p) == pc[p] = "leased" \/ hb[p] \in {"waiting", "refreshing"}

\* Time passes, but no due lease step of a live process is more than
\* MaxDelay late (with MaxDelay > MaxTime it may be arbitrarily late).
Tick ==
  /\ clock < MaxTime
  /\ \A p \in Proc : Timed(p) => clock < due[p]
  /\ clock' = clock + 1
  /\ UNCHANGED <<lease, runs, pc, rid, outcome, hb, mark, due, result>>

Run(p) ==
  \/ NameRun(p)
  \/ Admit(p)
  \/ Refuse(p)
  \/ AdmitEventFails(p)
  \/ StartHeartbeat(p)
  \/ \E status \in {"failed", "kept"} : RecordStatus(p, status)
  \/ \E res \in {"ok", "err"} : BodyReturns(p, res)
  \/ StopHeartbeat(p)
  \/ Crash(p)

Heartbeat(p) == HeartbeatWakes(p) \/ HeartbeatRefreshes(p) \/ HeartbeatFails(p)

Next ==
  \/ \E p \in Proc : Run(p) \/ Heartbeat(p)
  \/ \E r \in RunIds : Finalize(r)
  \/ Tick

Spec == Init /\ [][Next]_vars

-----------------------------------------------------------------------------
\* Properties

\* A process that is dispatching work on its issue: admitted, alive, and with
\* no outcome recorded that gives the lease up.
Dispatching(p) == pc[p] \in {"leased", "working"} /\ ~Releases(outcome[p])

Healthy(p) == hb[p] # "failed"

\* The timing under which a heartbeat is never too late: a period and two
\* delays, of the wake-up and of the write, fit in the lease.  With the
\* clamp of lease_heartbeat_interval this needs a lease_ttl_ms above 1000.
Timely ==
  /\ ~SameInstantRuns
  /\ HeartbeatInterval + 2 * MaxDelay < Ttl

\* Two processes never dispatch one issue at a time, as long as the heartbeat
\* of neither has failed: what the conflict query of record_run_state and the
\* renewal of the lease are for.
ExclusiveDispatch ==
  \A p, q \in Proc :
    /\ Dispatching(p) /\ Dispatching(q)
    /\ Healthy(p) /\ Healthy(q)
    /\ IssueOf[p] = IssueOf[q]
    => p = q

\* A dispatching process with a working heartbeat owns the lease row of its
\* issue, and the row has not elapsed: another process' sweep or admission
\* never falls between two of its refreshes.
DispatcherHoldsLease ==
  \A p \in Proc :
    Dispatching(p) /\ Healthy(p) =>
      LET row == lease[IssueOf[p]]
      IN  row.status = "active" /\ row.run = rid[p] /\ clock < row.expires

\* A process that has been refused, or is yet to ask, has no row in `runs`:
\* the rollback on a conflict takes back the upsert that precedes it.
RefusedRunsLeaveNoRow ==
  \A p \in Proc : pc[p] \in {"named", "refused"} => rid[p] \notin runs

\* No step takes an active, unexpired row from the run that holds it.
NoTakeoverOfLiveLease ==
  [][\A i \in Issues :
       lease[i].status = "active" /\ clock < lease[i].expires
         => lease'[i].run = lease[i].run]_vars

\* The lease table implements the abstract lease: what happens to rows,
\* heartbeats and the clock amounts to grants, renewals, lapses and
\* give-ups of issues.
Holder(i) ==
  IF lease[i].status = "active" /\ clock < lease[i].expires
    THEN lease[i].run ELSE NoId

Abstract == INSTANCE IssueLease WITH
  None    <- NoId,
  holder  <- [i \in Issues |-> Holder(i)],
  last    <- [i \in Issues |-> lease[i].run],
  open    <- [i \in Issues |-> lease[i].status = "active"],
  granted <- runs

ImplementsIssueLease == Abstract!Spec
=============================================================================
