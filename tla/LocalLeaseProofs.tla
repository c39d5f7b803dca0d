-------------------------- MODULE LocalLeaseProofs --------------------------
(***************************************************************************)
(* Proofs about LocalLease, for any number of processes and issues, any    *)
(* bound on time and, where a theorem says so, any Timely heartbeat.       *)
(***************************************************************************)
EXTENDS LocalLease, TLAPS

(***************************************************************************)
(* Type correctness needs nothing but the types of the constants.          *)
(***************************************************************************)
LEMMA IntervalType == HeartbeatInterval \in Nat
<1>1. Ttl \div 3 \in Nat
  BY ConstantsAssumption
<1>2. QED
  BY <1>1, ConstantsAssumption DEF HeartbeatInterval

LEMMA SweptType == TypeOK => Swept \in [Issues -> Row]
  BY DEF TypeOK, Swept, Row

LEMMA NewIdType ==
  ASSUME TypeOK, NEW p \in Proc
  PROVE  NewRunId(p, clock) \in RunIds
  BY ConstantsAssumption DEF TypeOK, NewRunId, RunIds

LEMMA TypeStep == TypeOK /\ [Next]_vars => TypeOK'
<1> SUFFICES ASSUME TypeOK, [Next]_vars PROVE TypeOK'
  OBVIOUS
<1> USE ConstantsAssumption, IntervalType, SweptType
<1>1. ASSUME NEW p \in Proc, NameRun(p) PROVE TypeOK'
  BY <1>1, NewIdType DEF TypeOK, NameRun
<1>2. ASSUME NEW p \in Proc, Admit(p) PROVE TypeOK'
  <2>1. rid[p] \in RunIds \cup {NoId} /\ clock + Ttl \in Nat
    BY DEF TypeOK
  <2>2. [status |-> "active", run |-> rid[p], expires |-> clock + Ttl] \in Row
    BY <2>1 DEF Row
  <2>3. lease' \in [Issues -> Row]
    BY <1>2, <2>2 DEF Admit
  <2>4. QED
    BY <1>2, <2>3 DEF TypeOK, Admit
<1>3. ASSUME NEW p \in Proc, Refuse(p) PROVE TypeOK'
  BY <1>3 DEF TypeOK, Refuse
<1>4. ASSUME NEW p \in Proc, AdmitEventFails(p) PROVE TypeOK'
  BY <1>4 DEF TypeOK, AdmitEventFails
<1>5. ASSUME NEW p \in Proc, StartHeartbeat(p) PROVE TypeOK'
  BY <1>5 DEF TypeOK, StartHeartbeat
<1>6. ASSUME NEW p \in Proc, NEW status \in {"failed", "kept"}, RecordStatus(p, status)
      PROVE  TypeOK'
  <2>1. ReleasedBy(p, Swept) \in [Issues -> Row]
    BY DEF ReleasedBy, Row
  <2>2. lease' \in [Issues -> Row]
    BY <1>6, <2>1 DEF RecordStatus
  <2>3. QED
    BY <1>6, <2>2 DEF TypeOK, RecordStatus, Outcomes
<1>7. ASSUME NEW p \in Proc, NEW res \in {"ok", "err"}, BodyReturns(p, res) PROVE TypeOK'
  BY <1>7 DEF TypeOK, BodyReturns
<1>8. ASSUME NEW p \in Proc, StopHeartbeat(p) PROVE TypeOK'
  BY <1>8 DEF TypeOK, StopHeartbeat, HeartbeatOff
<1>9. ASSUME NEW p \in Proc, Crash(p) PROVE TypeOK'
  BY <1>9 DEF TypeOK, Crash, HeartbeatOff
<1>10. ASSUME NEW p \in Proc, HeartbeatWakes(p) PROVE TypeOK'
  BY <1>10 DEF TypeOK, HeartbeatWakes
<1>11. ASSUME NEW p \in Proc, HeartbeatRefreshes(p) PROVE TypeOK'
  <2>1. mark[p] + Ttl \in Nat
    BY DEF TypeOK
  <2>2. lease' \in [Issues -> Row]
    BY <1>11, <2>1 DEF TypeOK, HeartbeatRefreshes, Row
  <2>3. QED
    BY <1>11, <2>2 DEF TypeOK, HeartbeatRefreshes
<1>12. ASSUME NEW p \in Proc, HeartbeatFails(p) PROVE TypeOK'
  BY <1>12 DEF TypeOK, HeartbeatFails
<1>13. ASSUME NEW r \in RunIds, Finalize(r) PROVE TypeOK'
  BY <1>13 DEF TypeOK, Finalize
<1>14. CASE Tick
  BY <1>14 DEF TypeOK, Tick
<1>15. CASE UNCHANGED vars
  BY <1>15 DEF TypeOK, vars
<1>16. QED
  BY <1>1, <1>2, <1>3, <1>4, <1>5, <1>6, <1>7, <1>8, <1>9, <1>10, <1>11, <1>12,
     <1>13, <1>14, <1>15 DEF Next, Run, Heartbeat

\* Every reachable state is well typed.
THEOREM TypeCorrect == Spec => []TypeOK
<1>1. Init => TypeOK
  BY ConstantsAssumption DEF Init, TypeOK, NoRow, Row, Outcomes
<1>2. QED
  BY <1>1, TypeStep, PTL DEF Spec

(***************************************************************************)
(* Exclusive dispatch.  ExclusiveDispatch is not inductive: that no other  *)
(* process is admitted while p dispatches follows from p owning the row    *)
(* and the row not having elapsed, which follows from when p's next lease  *)
(* step is due.  The invariant adds the shape of a process, the freshness  *)
(* of run ids and the distance from a due step to the row's expiry.        *)
(***************************************************************************)
\* A run id belongs to one process and names its issue.
IdsFresh ==
  /\ \A p \in Proc : pc[p] = "idle" => rid[p] = NoId
  /\ \A p, q \in Proc : rid[p] = rid[q] /\ rid[p] # NoId => p = q

\* Lease rows are about recorded runs only, and a recorded run was admitted.
Admitted(p) == pc[p] \in {"leased", "working", "done", "ended"} /\ rid[p] \in runs

RowsRecorded ==
  /\ \A i \in Issues : lease[i].run \in runs \cup {NoId}
  /\ \A r \in runs : \E p \in Proc : rid[p] = r /\ Admitted(p)
  /\ \A p \in Proc : pc[p] \in {"leased", "working", "done"} => rid[p] \in runs

\* The heartbeat thread lives inside the run.
HeartbeatShape ==
  \A p \in Proc : hb[p] # "off" <=> pc[p] \in {"working", "done"}

\* A due lease step is never overdue, and a refresh under way read the clock
\* no earlier than it was woken.
DueInTime ==
  \A p \in Proc :
    /\ Timed(p) => clock <= due[p]
    /\ hb[p] \in {"waiting", "refreshing"} => due[p] <= mark[p] + MaxDelay
    /\ hb[p] = "refreshing" => mark[p] <= clock

\* When a dispatching process has acted in time its row has not yet elapsed;
\* before the heartbeat starts there is room for one whole period.
DueBeforeExpiry ==
  \A p \in Proc : Dispatching(p) /\ Healthy(p) =>
    LET row == lease[IssueOf[p]]
    IN  /\ row.status = "active"
        /\ row.run = rid[p]
        /\ due[p] < row.expires
        /\ pc[p] = "leased" =>
              due[p] + HeartbeatInterval + MaxDelay < row.expires

Inv ==
  /\ Timely
  /\ TypeOK
  /\ IdsFresh
  /\ RowsRecorded
  /\ HeartbeatShape
  /\ DueInTime
  /\ DueBeforeExpiry

LEMMA InitInv == Timely /\ Init => Inv
<1> SUFFICES ASSUME Timely, Init PROVE Inv
  OBVIOUS
<1>1. TypeOK
  BY ConstantsAssumption DEF Init, TypeOK, NoRow, Row, Outcomes
<1>2. IdsFresh
  BY DEF Init, IdsFresh
<1>3. RowsRecorded
  BY DEF Init, RowsRecorded, RefusedRunsLeaveNoRow, NoRow
<1>4. HeartbeatShape
  BY DEF Init, HeartbeatShape
<1>5. DueInTime
  BY DEF Init, DueInTime, Timed
<1>6. DueBeforeExpiry
  BY DEF Init, DueBeforeExpiry, Dispatching
<1>7. QED
  BY <1>1, <1>2, <1>3, <1>4, <1>5, <1>6 DEF Inv

\* Ids: only NameRun gives one, and a fresh one.
LEMMA IdsStep == Inv /\ [Next]_vars => IdsFresh'
<1> SUFFICES ASSUME Inv, [Next]_vars PROVE IdsFresh'
  OBVIOUS
<1> USE DEF Inv, IdsFresh
<1>1. ASSUME NEW p \in Proc, NameRun(p) PROVE IdsFresh'
  BY <1>1 DEF NameRun, Timely, TypeOK
<1>2. CASE UNCHANGED rid /\ \A p \in Proc : pc'[p] = "idle" => pc[p] = "idle"
  BY <1>2
<1>3. ASSUME NEW p \in Proc, Run(p) \/ Heartbeat(p), ~NameRun(p)
      PROVE  UNCHANGED rid /\ \A q \in Proc : pc'[q] = "idle" => pc[q] = "idle"
  BY <1>3 DEF TypeOK, Run, Heartbeat, Admit, Refuse, AdmitEventFails, StartHeartbeat,
     RecordStatus, BodyReturns, StopHeartbeat, Crash, HeartbeatWakes,
     HeartbeatRefreshes, HeartbeatFails
<1>4. QED
  BY <1>1, <1>2, <1>3 DEF Next, Finalize, Tick, vars

LEMMA SweptKeeps ==
  ASSUME NEW i \in Issues, TypeOK
  PROVE  /\ Swept[i].run = lease[i].run
         /\ Swept[i].expires = lease[i].expires
         /\ clock < lease[i].expires => Swept[i] = lease[i]
         /\ Swept[i].status = "active" <=>
               lease[i].status = "active" /\ clock < lease[i].expires
  BY DEF TypeOK, Swept, Elapsed, Row

LEMMA ReleasedKeeps ==
  ASSUME NEW i \in Issues, NEW p \in Proc, TypeOK
  PROVE  /\ ReleasedBy(p, Swept)[i].run = lease[i].run
         /\ ReleasedBy(p, Swept)[i].expires = lease[i].expires
         /\ lease[i].run # rid[p] => ReleasedBy(p, Swept)[i] = Swept[i]
         /\ i # IssueOf[p] => ReleasedBy(p, Swept)[i] = Swept[i]
<1>1. Swept \in [Issues -> Row] /\ IssueOf[p] \in Issues
  BY SweptType, ConstantsAssumption
<1>2. QED
  BY <1>1, SweptKeeps DEF ReleasedBy, Row

\* Rows: a row's run is recorded by the step that inserts it.
LEMMA RowsStep == Inv /\ [Next]_vars => RowsRecorded'
<1> SUFFICES ASSUME Inv, [Next]_vars PROVE RowsRecorded'
  OBVIOUS
<1> USE DEF Inv, RowsRecorded, Admitted
\* Steps that leave the rows' runs alone and neither admit a process nor let
\* an admitted one go back.
<1> DEFINE In(q) == pc[q] \in {"leased", "working", "done"}
<1>1. CASE /\ UNCHANGED runs
           /\ \A i \in Issues : lease'[i].run = lease[i].run
           /\ \A q \in Proc : Admitted(q) => Admitted(q)' /\ rid'[q] = rid[q]
           /\ \A q \in Proc : In(q)' => In(q) /\ rid'[q] = rid[q]
  BY <1>1
<1>2. ASSUME NEW p \in Proc, NameRun(p) PROVE RowsRecorded'
  <2>1. \A q \in Proc : /\ Admitted(q) => Admitted(q)' /\ rid'[q] = rid[q]
                        /\ In(q)' => In(q) /\ rid'[q] = rid[q]
    BY <1>2 DEF NameRun, TypeOK
  <2>2. QED
    BY <1>1, <1>2, <2>1 DEF NameRun
<1>3. ASSUME NEW p \in Proc, Admit(p) PROVE RowsRecorded'
  <2>1. rid[p] \in RunIds /\ IssueOf[p] \in Issues
    BY <1>3, ConstantsAssumption DEF Admit, TypeOK
  <2>2. \A i \in Issues : lease'[i].run \in {rid[p], lease[i].run}
    BY <1>3, <2>1, SweptType, SweptKeeps DEF Admit
  <2>3. Admitted(p)' /\ \A q \in Proc : Admitted(q) => Admitted(q)' /\ rid'[q] = rid[q]
    BY <1>3 DEF Admit, TypeOK
  <2>4. \A q \in Proc : In(q)' => q = p \/ In(q)
    BY <1>3 DEF Admit, TypeOK
  <2>5. QED
    BY <1>3, <2>2, <2>3, <2>4 DEF Admit
<1>4. ASSUME NEW p \in Proc, NEW status \in {"failed", "kept"}, RecordStatus(p, status)
      PROVE  RowsRecorded'
  <2>1. \A i \in Issues : lease'[i].run = lease[i].run
    BY <1>4, SweptKeeps, ReleasedKeeps DEF RecordStatus
  <2>2. Admitted(p)' /\ \A q \in Proc : Admitted(q) => Admitted(q)' /\ rid'[q] = rid[q]
    BY <1>4 DEF RecordStatus, TypeOK
  <2>3. QED
    BY <1>4, <2>1, <2>2 DEF RecordStatus
<1>5. ASSUME NEW p \in Proc, HeartbeatRefreshes(p) PROVE RowsRecorded'
  <2>1. \A i \in Issues : lease'[i].run = lease[i].run
    BY <1>5, ConstantsAssumption DEF HeartbeatRefreshes, TypeOK, Row
  <2>2. QED
    BY <1>1, <1>5, <2>1 DEF HeartbeatRefreshes
<1>6. ASSUME NEW r \in RunIds, Finalize(r) PROVE RowsRecorded'
  BY <1>1, <1>6, SweptKeeps DEF Finalize
<1>7. ASSUME NEW p \in Proc,
             \/ Refuse(p) \/ AdmitEventFails(p) \/ StartHeartbeat(p)
             \/ \E res \in {"ok", "err"} : BodyReturns(p, res)
             \/ StopHeartbeat(p) \/ Crash(p) \/ HeartbeatWakes(p) \/ HeartbeatFails(p)
      PROVE  RowsRecorded'
  <2>1. UNCHANGED <<runs, lease, rid>>
    BY <1>7 DEF Refuse, AdmitEventFails, StartHeartbeat, BodyReturns, StopHeartbeat,
       Crash, HeartbeatWakes, HeartbeatFails
  <2>2. \A q \in Proc : /\ Admitted(q) => Admitted(q)' /\ rid'[q] = rid[q]
                        /\ In(q)' => In(q) /\ rid'[q] = rid[q]
    BY <1>7, <2>1 DEF Refuse, AdmitEventFails, StartHeartbeat, BodyReturns, StopHeartbeat,
       Crash, HeartbeatWakes, HeartbeatFails, TypeOK
  <2>3. QED
    BY <1>1, <2>1, <2>2
<1>8. CASE Tick \/ UNCHANGED vars
  BY <1>1, <1>8 DEF Tick, vars
<1>9. QED
  BY <1>2, <1>3, <1>4, <1>5, <1>6, <1>7, <1>8 DEF Next, Run, Heartbeat

LEMMA UnadmittedUnrecorded == IdsFresh /\ RowsRecorded /\ TypeOK => RefusedRunsLeaveNoRow
  BY ConstantsAssumption DEF IdsFresh, RowsRecorded, Admitted, RefusedRunsLeaveNoRow, TypeOK, RunIds

LEMMA HeartbeatShapeStep == Inv /\ [Next]_vars => HeartbeatShape'
<1> SUFFICES ASSUME Inv, [Next]_vars PROVE HeartbeatShape'
  OBVIOUS
<1> USE DEF Inv, HeartbeatShape, TypeOK
<1>1. ASSUME NEW p \in Proc, Run(p) PROVE HeartbeatShape'
  BY <1>1 DEF Run, NameRun, Admit, Refuse, AdmitEventFails, StartHeartbeat, RecordStatus,
     BodyReturns, StopHeartbeat, Crash, HeartbeatOff
<1>2. ASSUME NEW p \in Proc, Heartbeat(p) PROVE HeartbeatShape'
  BY <1>2 DEF Heartbeat, HeartbeatWakes, HeartbeatRefreshes, HeartbeatFails
<1>3. QED
  BY <1>1, <1>2 DEF Next, Finalize, Tick, vars

LEMMA DueInTimeStep == Inv /\ [Next]_vars => DueInTime'
<1> SUFFICES ASSUME Inv, [Next]_vars PROVE DueInTime'
  OBVIOUS
<1> USE ConstantsAssumption, IntervalType DEF Inv, DueInTime, Timed
<1>1. ASSUME NEW p \in Proc, Run(p) PROVE DueInTime'
  BY <1>1 DEF Run, NameRun, Admit, Refuse, AdmitEventFails, StartHeartbeat, RecordStatus,
     BodyReturns, StopHeartbeat, Crash, HeartbeatOff, TypeOK, HeartbeatShape
<1>2. ASSUME NEW p \in Proc, Heartbeat(p) PROVE DueInTime'
  <2>1. CASE HeartbeatWakes(p)
    <3>1. due[p] <= mark[p] + MaxDelay /\ mark[p] <= clock
      BY <2>1 DEF HeartbeatWakes
    <3>2. due[p] <= clock + MaxDelay
      BY <3>1 DEF TypeOK
    <3>3. QED
      BY <2>1, <3>2 DEF HeartbeatWakes, TypeOK
  <2>2. CASE HeartbeatRefreshes(p)
    BY <2>2 DEF HeartbeatRefreshes, TypeOK
  <2>3. CASE HeartbeatFails(p)
    BY <2>3, Zenon DEF HeartbeatFails, TypeOK, HeartbeatShape
  <2>4. QED
    BY <1>2, <2>1, <2>2, <2>3 DEF Heartbeat
<1>3. CASE Tick
  BY <1>3 DEF Tick, TypeOK
<1>4. QED
  BY <1>1, <1>2, <1>3 DEF Next, Finalize, vars

\* What a dispatching, healthy process has before its row elapses.
LEMMA HoldsRow ==
  ASSUME Inv, NEW p \in Proc, Dispatching(p), Healthy(p)
  PROVE  /\ IssueOf[p] \in Issues
         /\ lease[IssueOf[p]].status = "active"
         /\ lease[IssueOf[p]].run = rid[p]
         /\ rid[p] # NoId
         /\ Timed(p)
         /\ clock < lease[IssueOf[p]].expires
<1>1. IssueOf[p] \in Issues /\ lease[IssueOf[p]] \in Row
  BY ConstantsAssumption DEF Inv, TypeOK
<1>2. Timed(p)
  BY DEF Inv, TypeOK, HeartbeatShape, Dispatching, Healthy, Timed
<1>3. clock <= due[p] /\ due[p] < lease[IssueOf[p]].expires
  BY <1>2 DEF Inv, DueInTime, DueBeforeExpiry
<1>4. clock < lease[IssueOf[p]].expires
  BY <1>1, <1>3, ConstantsAssumption DEF Inv, TypeOK, Row
<1>5. rid[p] # NoId
  BY ConstantsAssumption DEF Inv, TypeOK, Dispatching, RunIds
<1>6. QED
  BY <1>1, <1>2, <1>4, <1>5 DEF Inv, DueBeforeExpiry

\* Sweeping, or releasing another run's row, does not touch a held row.
LEMMA HeldRowKept ==
  ASSUME Inv, NEW p \in Proc, Dispatching(p), Healthy(p)
  PROVE  /\ Swept[IssueOf[p]] = lease[IssueOf[p]]
         /\ \A q \in Proc \ {p} : ReleasedBy(q, Swept)[IssueOf[p]] = lease[IssueOf[p]]
<1>1. TypeOK
  BY DEF Inv
<1>2. Swept[IssueOf[p]] = lease[IssueOf[p]]
  BY <1>1, HoldsRow, SweptKeeps
<1>3. ASSUME NEW q \in Proc \ {p}
      PROVE  ReleasedBy(q, Swept)[IssueOf[p]] = lease[IssueOf[p]]
  <2>1. rid[q] # lease[IssueOf[p]].run
    BY HoldsRow DEF Inv, IdsFresh
  <2>2. QED
    BY <1>1, <1>2, <2>1, HoldsRow, ReleasedKeeps
<1>4. QED
  BY <1>2, <1>3

LEMMA DueBeforeExpiryStep == Inv /\ [Next]_vars => DueBeforeExpiry'
<1> SUFFICES ASSUME Inv, [Next]_vars,
                    NEW p \in Proc, Dispatching(p)', Healthy(p)'
             PROVE  /\ lease'[IssueOf[p]].status = "active"
                    /\ lease'[IssueOf[p]].run = rid'[p]
                    /\ due'[p] < lease'[IssueOf[p]].expires
                    /\ pc'[p] = "leased" =>
                         due'[p] + HeartbeatInterval + MaxDelay < lease'[IssueOf[p]].expires
  BY DEF DueBeforeExpiry
<1> DEFINE i == IssueOf[p]
           Goal == /\ lease'[i].status = "active"
                   /\ lease'[i].run = rid'[p]
                   /\ due'[p] < lease'[i].expires
                   /\ pc'[p] = "leased" =>
                        due'[p] + HeartbeatInterval + MaxDelay < lease'[i].expires
<1> USE ConstantsAssumption, IntervalType
<1>a. TypeOK /\ i \in Issues
  BY DEF Inv
\* Steps that leave p and the row of its issue alone.
<1>1. CASE /\ UNCHANGED <<pc[p], rid[p], due[p]>>
           /\ Dispatching(p) /\ Healthy(p)
           /\ lease'[i] = lease[i]
  BY <1>1 DEF Inv, DueBeforeExpiry
<1>2. ASSUME NEW q \in Proc, Admit(q) PROVE Goal
  <2>1. CASE q = p
    <3>1. lease'[i] = [status |-> "active", run |-> rid[p], expires |-> clock + Ttl]
      BY <1>2, <1>a, <2>1, SweptType DEF Admit
    <3>2. due'[p] = clock + MaxDelay /\ rid'[p] = rid[p]
      BY <1>2, <2>1 DEF Admit, Inv, TypeOK
    <3>3. MaxDelay + HeartbeatInterval + MaxDelay < Ttl
      BY DEF Inv, Timely
    <3>4. QED
      BY <3>1, <3>2, <3>3, <1>a DEF TypeOK
  <2>2. CASE q # p
    <3>1. Dispatching(p) /\ Healthy(p) /\ UNCHANGED <<pc[p], rid[p], due[p]>>
      BY <1>2, <2>2 DEF Admit, Inv, TypeOK, Dispatching, Healthy
    <3>2. rid[q] # rid[p]
      BY <2>2, <3>1, HoldsRow DEF Inv, IdsFresh
    <3>3. IssueOf[q] # i
      BY <1>2, <3>1, <3>2, HoldsRow, HeldRowKept DEF Admit, Conflict
    <3>4. lease'[i] = lease[i]
      BY <1>2, <1>a, <3>1, <3>3, HeldRowKept, SweptType DEF Admit
    <3>5. QED
      BY <1>1, <3>1, <3>4
  <2>3. QED
    BY <2>1, <2>2
<1>3. ASSUME NEW q \in Proc, StartHeartbeat(q) PROVE Goal
  <2>1. CASE q = p
    <3>1. pc[p] = "leased" /\ hb[p] = "off" /\ Dispatching(p) /\ Healthy(p)
      BY <1>3, <2>1 DEF StartHeartbeat, Inv, TypeOK, HeartbeatShape, Dispatching, Healthy
    <3>2. due'[p] = clock + HeartbeatInterval + MaxDelay /\ pc'[p] = "working"
      BY <1>3, <2>1 DEF StartHeartbeat, Inv, TypeOK
    <3>3. clock <= due[p] /\ due[p] + HeartbeatInterval + MaxDelay < lease[i].expires
      BY <3>1, HoldsRow DEF Inv, DueInTime, DueBeforeExpiry
    <3>4. lease[i].expires \in Nat /\ clock \in Nat /\ due[p] \in Nat
      BY <1>a DEF TypeOK, Row
    <3>5. due'[p] < lease[i].expires
      BY <3>2, <3>3, <3>4
    <3>6. UNCHANGED <<lease, rid>>
      BY <1>3 DEF StartHeartbeat
    <3>7. QED
      BY <3>1, <3>2, <3>5, <3>6, HoldsRow
  <2>2. CASE q # p
    BY <1>1, <1>3, <2>2 DEF StartHeartbeat, Inv, TypeOK, Dispatching, Healthy
  <2>3. QED
    BY <2>1, <2>2
<1>4. ASSUME NEW q \in Proc, NEW status \in {"failed", "kept"}, RecordStatus(q, status)
      PROVE  Goal
  <2>1. Dispatching(p) /\ Healthy(p) /\ UNCHANGED <<pc[p], rid[p], due[p]>>
    BY <1>4 DEF RecordStatus, Records, Inv, TypeOK, Dispatching, Healthy, Releases
  <2>2. q = p => status = "kept"
    BY <1>4 DEF RecordStatus, Inv, TypeOK, Dispatching, Releases
  <2>3. lease'[i] = lease[i]
    BY <1>4, <2>1, <2>2, HeldRowKept DEF RecordStatus, Releases
  <2>4. QED
    BY <1>1, <2>1, <2>3
<1>5. ASSUME NEW q \in Proc, HeartbeatRefreshes(q) PROVE Goal
  <2>1. Dispatching(p) /\ Healthy(p)
    BY <1>5 DEF HeartbeatRefreshes, Inv, TypeOK, Dispatching, Healthy
  <2>2. CASE q = p
    <3>1. lease'[i] = [lease[i] EXCEPT !.expires = mark[p] + Ttl]
      BY <1>5, <1>a, <2>1, <2>2, HoldsRow DEF HeartbeatRefreshes, TypeOK
    <3>2. due'[p] = clock + HeartbeatInterval + MaxDelay
      BY <1>5, <2>2 DEF HeartbeatRefreshes, Inv, TypeOK
    <3>3. clock <= due[p] /\ due[p] <= mark[p] + MaxDelay
      BY <1>5, <2>2 DEF HeartbeatRefreshes, Inv, DueInTime, Timed
    <3>4. pc'[p] # "leased"
      BY <1>5, <2>2 DEF HeartbeatRefreshes, Inv, HeartbeatShape
    <3>5. clock \in Nat /\ due[p] \in Nat /\ mark[p] \in Nat
      BY <1>a DEF TypeOK
    <3>6. due'[p] < mark[p] + Ttl
      BY <3>2, <3>3, <3>5 DEF Inv, Timely
    <3>7. lease[i] \in Row
      BY <1>a DEF TypeOK
    <3>8. QED
      BY <1>5, <2>1, <3>1, <3>4, <3>6, <3>7, HoldsRow DEF HeartbeatRefreshes, Row
  <2>3. CASE q # p
    <3>1. lease'[i] = lease[i]
      BY <1>5, <1>a, <2>1, <2>3, HoldsRow DEF HeartbeatRefreshes, TypeOK, Inv, IdsFresh
    <3>2. QED
      BY <1>1, <1>5, <2>1, <2>3, <3>1 DEF HeartbeatRefreshes, Inv, TypeOK
  <2>4. QED
    BY <2>2, <2>3
<1>6. ASSUME NEW r \in RunIds, Finalize(r) PROVE Goal
  BY <1>1, <1>6, HeldRowKept DEF Finalize, Dispatching, Healthy
<1>7. ASSUME NEW q \in Proc,
             \/ NameRun(q) \/ Refuse(q) \/ AdmitEventFails(q)
             \/ \E res \in {"ok", "err"} : BodyReturns(q, res)
             \/ StopHeartbeat(q) \/ Crash(q) \/ HeartbeatWakes(q) \/ HeartbeatFails(q)
      PROVE  Goal
  <2>1. lease' = lease
    BY <1>7 DEF NameRun, Refuse, AdmitEventFails, BodyReturns, StopHeartbeat, Crash,
       HeartbeatWakes, HeartbeatFails
  <2>2. /\ UNCHANGED <<pc[p], rid[p], due[p]>>
        /\ Dispatching(p) /\ Healthy(p)
    BY <1>7 DEF NameRun, Refuse, AdmitEventFails, BodyReturns, StopHeartbeat, Crash,
       HeartbeatWakes, HeartbeatFails, HeartbeatOff, Inv, TypeOK, Dispatching, Healthy
  <2>3. QED
    BY <1>1, <2>1, <2>2
<1>8. CASE Tick \/ UNCHANGED vars
  BY <1>1, <1>8 DEF Tick, vars, Dispatching, Healthy
<1>9. QED
  BY <1>2, <1>3, <1>4, <1>5, <1>6, <1>7, <1>8 DEF Next, Run, Heartbeat

LEMMA InvStep == Inv /\ [Next]_vars => Inv'
<1>1. Inv /\ [Next]_vars => TypeOK'
  BY TypeStep DEF Inv
<1>2. Inv => Timely'
  BY DEF Inv, Timely, HeartbeatInterval
<1>3. QED
  BY <1>1, <1>2, IdsStep, RowsStep, HeartbeatShapeStep, DueInTimeStep,
     DueBeforeExpiryStep DEF Inv

LEMMA Invariance == Timely /\ Spec => []Inv
  BY InitInv, InvStep, PTL DEF Spec

LEMMA InvExcludes == Inv => DispatcherHoldsLease /\ ExclusiveDispatch /\ RefusedRunsLeaveNoRow
<1> SUFFICES ASSUME Inv
             PROVE  DispatcherHoldsLease /\ ExclusiveDispatch /\ RefusedRunsLeaveNoRow
  OBVIOUS
<1>1. DispatcherHoldsLease
  BY HoldsRow DEF DispatcherHoldsLease
<1>2. ExclusiveDispatch
  BY HoldsRow DEF ExclusiveDispatch, Inv, IdsFresh
<1>3. QED
  BY <1>1, <1>2, UnadmittedUnrecorded DEF Inv

\* A dispatching process with a working heartbeat owns its issue's row, and
\* the row has not elapsed.
THEOREM HolderKeepsLease == Timely /\ Spec => []DispatcherHoldsLease
  BY Invariance, InvExcludes, PTL

\* Two processes with working heartbeats never dispatch one issue at a time.
THEOREM MutualExclusion == Timely /\ Spec => []ExclusiveDispatch
  BY Invariance, InvExcludes, PTL

\* A process that was refused its issue has left no row in `runs`.
THEOREM RollbackIsComplete == Timely /\ Spec => []RefusedRunsLeaveNoRow
  BY Invariance, InvExcludes, PTL

(***************************************************************************)
(* Action properties.                                                      *)
(***************************************************************************)

\* The steps that change the lease table; every other step leaves it alone.
LEMMA LeaseChanges ==
  ASSUME TypeOK, [Next]_vars
  PROVE  \/ \E p \in Proc : Admit(p)
         \/ \E p \in Proc, status \in {"failed", "kept"} : RecordStatus(p, status)
         \/ \E p \in Proc : HeartbeatRefreshes(p)
         \/ \E r \in RunIds : Finalize(r)
         \/ Tick
         \/ UNCHANGED <<lease, clock, runs>>
<1>1. ASSUME NEW p \in Proc,
             \/ NameRun(p) \/ Refuse(p) \/ AdmitEventFails(p) \/ StartHeartbeat(p)
             \/ \E res \in {"ok", "err"} : BodyReturns(p, res)
             \/ StopHeartbeat(p) \/ Crash(p) \/ HeartbeatWakes(p) \/ HeartbeatFails(p)
      PROVE  UNCHANGED <<lease, clock, runs>>
  BY <1>1 DEF NameRun, Refuse, AdmitEventFails, StartHeartbeat, BodyReturns, StopHeartbeat,
     Crash, HeartbeatWakes, HeartbeatFails
<1>2. QED
  BY <1>1 DEF Next, Run, Heartbeat, vars

LEMMA TakeoverStep ==
  ASSUME Inv, [Next]_vars, NEW i \in Issues,
         lease[i].status = "active", clock < lease[i].expires
  PROVE  lease'[i].run = lease[i].run
<1>a. TypeOK
  BY DEF Inv
<1>1. ASSUME NEW p \in Proc, Admit(p) PROVE lease'[i].run = lease[i].run
  <2>1. CASE i = IssueOf[p]
    <3>1. lease[i].run = rid[p]
      BY <1>1, <1>a, <2>1, SweptKeeps DEF Admit, Conflict
    <3>2. QED
      BY <1>1, <1>a, <2>1, <3>1, SweptType DEF Admit
  <2>2. CASE i # IssueOf[p]
    BY <1>1, <1>a, <2>2, SweptKeeps, SweptType DEF Admit
  <2>3. QED
    BY <2>1, <2>2
<1>2. ASSUME NEW p \in Proc, NEW status \in {"failed", "kept"}, RecordStatus(p, status)
      PROVE  lease'[i].run = lease[i].run
  BY <1>2, <1>a, SweptKeeps, ReleasedKeeps DEF RecordStatus
<1>3. ASSUME NEW p \in Proc, HeartbeatRefreshes(p) PROVE lease'[i].run = lease[i].run
  BY <1>3, <1>a DEF HeartbeatRefreshes, TypeOK, Row
<1>4. ASSUME NEW r \in RunIds, Finalize(r) PROVE lease'[i].run = lease[i].run
  BY <1>4, <1>a, SweptKeeps DEF Finalize
<1>5. QED
  BY <1>1, <1>2, <1>3, <1>4, <1>a, LeaseChanges DEF Tick

\* No step takes an active, unexpired row from the run that holds it.
THEOREM NoTakeover == Timely /\ Spec => NoTakeoverOfLiveLease
<1>1. Inv /\ [Next]_vars =>
        [\A i \in Issues : lease[i].status = "active" /\ clock < lease[i].expires
           => lease'[i].run = lease[i].run]_vars
  BY TakeoverStep
<1>2. QED
  BY <1>1, Invariance, PTL DEF Spec, NoTakeoverOfLiveLease

(***************************************************************************)
(* Refinement: the lease table implements IssueLease.                      *)
(***************************************************************************)
LEMMA InitRefines == Init => Abstract!Init
<1> SUFFICES ASSUME Init PROVE Abstract!Init
  OBVIOUS
<1>1. \A i \in Issues : lease[i].run = NoId /\ Holder(i) = NoId /\ lease[i].status # "active"
  BY DEF Init, NoRow, Holder
<1>2. [i \in Issues |-> lease[i].status = "active"] = [i \in Issues |-> FALSE]
  BY <1>1, Zenon
<1>3. QED
  BY <1>1, <1>2 DEF Init, Abstract!Init

ElapsedRows == {j \in Issues : Elapsed(lease[j])}

LEMMA SweepIsNoticed ==
  ASSUME TypeOK
  PROVE  /\ ElapsedRows \in SUBSET Abstract!Lapsed
         /\ \A j \in Issues :
              (Swept[j].status = "active") =
                (lease[j].status = "active" /\ j \notin ElapsedRows)
  BY DEF TypeOK, ElapsedRows, Elapsed, Swept, Row, Holder, Abstract!Lapsed

LEMMA AdmitRefines ==
  ASSUME Inv, NEW p \in Proc, Admit(p)
  PROVE  \E S \in SUBSET Abstract!Lapsed : Abstract!Acquire(IssueOf[p], rid[p], S)
<1> DEFINE i == IssueOf[p]
<1>a. TypeOK /\ i \in Issues /\ rid[p] \in RunIds /\ rid[p] \notin runs /\ rid[p] # NoId
  BY ConstantsAssumption, UnadmittedUnrecorded
     DEF Inv, Admit, RefusedRunsLeaveNoRow, TypeOK, RunIds
<1>b. clock \in Nat /\ Ttl \in Nat /\ clock < clock + Ttl
  BY <1>a, IntervalType, ConstantsAssumption DEF Inv, Timely, TypeOK
<1>1. Holder(i) = NoId
  BY <1>a, SweptKeeps DEF Holder, Admit, Conflict, Inv, RowsRecorded
<1>2. /\ clock' = clock
      /\ runs' = runs \cup {rid[p]}
      /\ lease' = [Swept EXCEPT ![i] =
                    [status |-> "active", run |-> rid[p], expires |-> clock + Ttl]]
  BY DEF Admit
<1>3. lease'[i] = [status |-> "active", run |-> rid[p], expires |-> clock + Ttl]
  BY <1>2, <1>a, SweptType
<1>4. \A j \in Issues \ {i} : lease'[j] = Swept[j]
  BY <1>2, <1>a, SweptType
<1>5. [j \in Issues |-> Holder(j)]' = [[j \in Issues |-> Holder(j)] EXCEPT ![i] = rid[p]]
  <2>1. Holder(i)' = rid[p]
    BY <1>b, <1>2, <1>3 DEF Holder
  <2>2. \A j \in Issues \ {i} : Holder(j)' = Holder(j)
    BY <1>a, <1>2, <1>4, SweptKeeps DEF Holder
  <2>3. QED
    BY <1>a, <2>1, <2>2
<1>6. [j \in Issues |-> lease[j].run]' = [[j \in Issues |-> lease[j].run] EXCEPT ![i] = rid[p]]
  <2>1. lease'[i].run = rid[p]
    BY <1>3
  <2>2. \A j \in Issues \ {i} : lease'[j].run = lease[j].run
    BY <1>a, <1>4, SweptKeeps
  <2>3. QED
    BY <1>a, <2>1, <2>2
<1>7. [j \in Issues |-> lease[j].status = "active"]' =
        [Abstract!Noticed(ElapsedRows) EXCEPT ![i] = TRUE]
  <2>1. lease'[i].status = "active"
    BY <1>3
  <2>2. \A j \in Issues \ {i} :
          (lease'[j].status = "active") = (lease[j].status = "active" /\ j \notin ElapsedRows)
    BY <1>a, <1>4, SweepIsNoticed
  <2>3. QED
    BY <1>a, <2>1, <2>2, Zenon DEF Abstract!Noticed
<1>8. Abstract!Acquire(i, rid[p], ElapsedRows)
  BY <1>a, <1>1, <1>2, <1>5, <1>6, <1>7 DEF Abstract!Acquire
<1>9. ElapsedRows \in SUBSET Abstract!Lapsed
  BY <1>a, SweepIsNoticed
<1>10. QED
  BY <1>8, <1>9 DEF Abstract!Acquire

\* A sweep alone, as in any status update that keeps the lease.
LEMMA SweepRefines ==
  ASSUME TypeOK, lease' = Swept, clock' = clock, runs' = runs
  PROVE  \E S \in SUBSET Abstract!Lapsed : Abstract!Notice(S)
<1>1. [j \in Issues |-> Holder(j)]' = [j \in Issues |-> Holder(j)]
  BY SweptKeeps DEF Holder
<1>2. [j \in Issues |-> lease[j].run]' = [j \in Issues |-> lease[j].run]
  BY SweptKeeps
<1>3. [j \in Issues |-> lease[j].status = "active"]' = Abstract!Noticed(ElapsedRows)
  <2>1. \A j \in Issues :
          (lease'[j].status = "active") = (lease[j].status = "active" /\ j \notin ElapsedRows)
    BY SweepIsNoticed
  <2>2. QED
    BY <2>1, Zenon DEF Abstract!Noticed
<1>4. QED
  BY <1>1, <1>2, <1>3, SweepIsNoticed DEF Abstract!Notice

\* A failure gives up the issue if the row is still the run's own.
LEMMA FailureRefines ==
  ASSUME Inv, NEW p \in Proc, RecordStatus(p, "failed"), lease[IssueOf[p]].run = rid[p]
  PROVE  \E S \in SUBSET Abstract!Lapsed : Abstract!GiveUp(IssueOf[p], S)
<1> DEFINE i == IssueOf[p]
<1>a. TypeOK /\ i \in Issues /\ rid[p] # NoId
  BY ConstantsAssumption DEF Inv, RecordStatus, TypeOK, RunIds
<1>1. lease' = [Swept EXCEPT ![i].status = "released"] /\ clock' = clock
  BY <1>a, SweptKeeps DEF RecordStatus, Releases, ReleasedBy
<1>2. runs' = runs
  <2>1. rid[p] \in runs
    BY <1>a DEF Inv, RowsRecorded
  <2>2. QED
    BY <2>1 DEF RecordStatus
<1>3. lease'[i].status = "released" /\ lease'[i].run = lease[i].run
  BY <1>1, <1>a, SweptType, SweptKeeps DEF Row
<1>4. \A j \in Issues \ {i} : lease'[j] = Swept[j]
  BY <1>1, <1>a, SweptType
<1>5. [j \in Issues |-> Holder(j)]' = [[j \in Issues |-> Holder(j)] EXCEPT ![i] = NoId]
  <2>1. Holder(i)' = NoId
    BY <1>3 DEF Holder
  <2>2. \A j \in Issues \ {i} : Holder(j)' = Holder(j)
    BY <1>a, <1>1, <1>4, SweptKeeps DEF Holder
  <2>3. QED
    BY <1>a, <2>1, <2>2
<1>6. [j \in Issues |-> lease[j].run]' = [j \in Issues |-> lease[j].run]
  <2>1. \A j \in Issues : lease'[j].run = lease[j].run
    BY <1>a, <1>3, <1>4, SweptKeeps
  <2>2. QED
    BY <2>1
<1>7. [j \in Issues |-> lease[j].status = "active"]' =
        [Abstract!Noticed(ElapsedRows) EXCEPT ![i] = FALSE]
  <2>1. (lease'[i].status = "active") = FALSE
    BY <1>3
  <2>2. \A j \in Issues \ {i} :
          (lease'[j].status = "active") = (lease[j].status = "active" /\ j \notin ElapsedRows)
    BY <1>a, <1>4, SweepIsNoticed
  <2>3. QED
    BY <1>a, <2>1, <2>2, Zenon DEF Abstract!Noticed
<1>8. Abstract!GiveUp(i, ElapsedRows)
  BY <1>a, <1>2, <1>5, <1>6, <1>7 DEF Abstract!GiveUp
<1>9. ElapsedRows \in SUBSET Abstract!Lapsed
  BY <1>a, SweepIsNoticed
<1>10. QED
  BY <1>8, <1>9 DEF Abstract!GiveUp

\* A refresh of the run's own row renews the lease, revives it if it had
\* lapsed unnoticed, or comes so late that it has lapsed again.
LEMMA RefreshRefines ==
  ASSUME Inv, NEW p \in Proc, HeartbeatRefreshes(p)
  PROVE  \/ Abstract!Revive(IssueOf[p])
         \/ Abstract!Lapse({IssueOf[p]})
         \/ UNCHANGED Abstract!vars
<1> DEFINE i == IssueOf[p]
<1>a. TypeOK /\ i \in Issues /\ lease[i] \in Row
  BY ConstantsAssumption DEF Inv, TypeOK
<1>b. UNCHANGED <<clock, runs>>
  BY DEF HeartbeatRefreshes
<1>1. CASE ~(lease[i].status = "active" /\ lease[i].run = rid[p])
  BY <1>1, <1>b DEF HeartbeatRefreshes, Abstract!vars, Holder
<1>2. CASE lease[i].status = "active" /\ lease[i].run = rid[p]
  <2>1. lease' = [lease EXCEPT ![i].expires = mark[p] + Ttl]
    BY <1>2 DEF HeartbeatRefreshes
  <2>2. /\ lease'[i].status = "active" /\ lease'[i].run = lease[i].run
        /\ \A j \in Issues \ {i} : lease'[j] = lease[j]
    BY <1>2, <1>a, <2>1 DEF TypeOK, Row
  <2>3. [j \in Issues |-> lease[j].run]' = [j \in Issues |-> lease[j].run]
    BY <1>a, <2>2
  <2>4. [j \in Issues |-> lease[j].status = "active"]' = [j \in Issues |-> lease[j].status = "active"]
    BY <1>a, <1>2, <2>2, Zenon
  <2>5. \A j \in Issues \ {i} : Holder(j)' = Holder(j)
    BY <1>b, <2>2 DEF Holder
  <2>6. CASE clock < lease'[i].expires
    <3>1. Holder(i)' = lease[i].run
      BY <1>b, <2>2, <2>6 DEF Holder
    <3>2. QED
      BY <1>a, <1>b, <1>2, <2>3, <2>4, <2>5, <3>1 DEF Abstract!Revive
  <2>7. CASE ~(clock < lease'[i].expires)
    <3>1. Holder(i)' = NoId
      BY <1>b, <2>7 DEF Holder
    <3>2. QED
      BY <1>a, <1>b, <2>3, <2>4, <2>5, <3>1 DEF Abstract!Lapse
  <2>8. QED
    BY <2>6, <2>7
<1>3. QED
  BY <1>1, <1>2

LEMMA TickRefines ==
  ASSUME TypeOK, Tick
  PROVE  \E S \in SUBSET Issues : Abstract!Lapse(S)
<1> DEFINE S == {j \in Issues : Holder(j)' = NoId}
<1>1. \A j \in Issues : Holder(j)' = IF j \in S THEN NoId ELSE Holder(j)
  <2>1. ASSUME NEW j \in Issues, j \notin S PROVE Holder(j)' = Holder(j)
    <3>1. lease'[j] = lease[j] /\ lease[j] \in Row /\ clock \in Nat /\ clock' = clock + 1
      BY ConstantsAssumption DEF Tick, TypeOK
    <3>2. lease[j].status = "active" /\ clock + 1 < lease[j].expires
      BY <2>1, <3>1 DEF Holder
    <3>3. clock < lease[j].expires
      BY <3>1, <3>2 DEF Row
    <3>4. QED
      BY <3>1, <3>2, <3>3 DEF Holder
  <2>2. QED
    BY <2>1
<1>2. Abstract!Lapse(S)
  BY <1>1 DEF Tick, Abstract!Lapse
<1>3. QED
  BY <1>2

LEMMA StepRefines == Inv /\ [Next]_vars => [Abstract!Next]_(Abstract!vars)
<1> SUFFICES ASSUME Inv, [Next]_vars PROVE [Abstract!Next]_(Abstract!vars)
  OBVIOUS
<1>a. TypeOK
  BY DEF Inv
<1>1. ASSUME NEW p \in Proc, Admit(p) PROVE Abstract!Next
  <2>1. IssueOf[p] \in Issues /\ rid[p] \in RunIds
    BY <1>1, <1>a, ConstantsAssumption DEF Admit, TypeOK
  <2>2. QED
    BY <1>1, <2>1, AdmitRefines DEF Abstract!Next
<1>2. ASSUME NEW p \in Proc, NEW status \in {"failed", "kept"}, RecordStatus(p, status)
      PROVE  Abstract!Next
  <2>0. IssueOf[p] \in Issues
    BY ConstantsAssumption
  <2>1. CASE status = "failed" /\ lease[IssueOf[p]].run = rid[p]
    BY <1>2, <2>0, <2>1, FailureRefines DEF Abstract!Next
  <2>2. CASE ~(status = "failed" /\ lease[IssueOf[p]].run = rid[p])
    <3>1. lease' = Swept /\ clock' = clock
      BY <1>2, <1>a, <2>0, <2>2, SweptKeeps DEF RecordStatus, Releases, ReleasedBy
    <3>2. runs' = runs
      BY <1>2 DEF RecordStatus, Inv, RowsRecorded
    <3>3. QED
      BY <1>a, <3>1, <3>2, SweepRefines DEF Abstract!Next
  <2>3. QED
    BY <2>1, <2>2
<1>3. ASSUME NEW p \in Proc, HeartbeatRefreshes(p) PROVE [Abstract!Next]_(Abstract!vars)
  <2>1. IssueOf[p] \in Issues /\ {IssueOf[p]} \in SUBSET Issues
    BY ConstantsAssumption
  <2>2. QED
    BY <1>3, <2>1, RefreshRefines DEF Abstract!Next
<1>4. ASSUME NEW r \in RunIds, Finalize(r) PROVE Abstract!Next
  BY <1>4, <1>a, SweepRefines DEF Finalize, Abstract!Next
<1>5. CASE Tick
  BY <1>5, <1>a, TickRefines DEF Abstract!Next
<1>6. CASE UNCHANGED <<lease, clock, runs>>
  BY <1>6 DEF Abstract!vars, Holder
<1>7. QED
  BY <1>1, <1>2, <1>3, <1>4, <1>5, <1>6, <1>a, LeaseChanges

\* The lease table, its transactions and the heartbeats implement IssueLease.
THEOREM Refinement == Timely /\ Spec => ImplementsIssueLease
  BY InitRefines, StepRefines, Invariance, PTL DEF Spec, ImplementsIssueLease, Abstract!Spec
=============================================================================
