---------------------- MODULE RuntimeSupervisionProofs ----------------------
(***************************************************************************)
(* Theorems about RuntimeSupervision, for any number of helpers, with any  *)
(* failure to record, any refusal and any leftovers.                       *)
(***************************************************************************)
EXTENDS RuntimeSupervision, SequenceTheorems, TLAPS

Complete == <<"started", "attributed", "terminated">>

Accounted(p) ==
  /\ root[p] = "reaped" /\ monitor[p] = "none" /\ ~ failure[p] /\ success[p]
  /\ events[p] = Complete

\* How far a process got, and what was recorded of it, while nothing is wrong.
Stage(p) ==
  /\ result[p] = "none" <=> pc[p] # "done"
  /\ pc[p] \in {"idle", "launching"} => root[p] = "none"
  /\ pc[p] \in {"idle", "launching", "recording_started"} => events[p] = <<>>
  /\ pc[p] \in {"attaching", "recording_attributed"} => events[p] = <<"started">>
  /\ pc[p] \in {"waiting", "terminating"} => events[p] = <<"started", "attributed">>
  /\ pc[p] \in {"joining_monitor", "recording_end"} /\ ~ bad[p] =>
       root[p] = "reaped" /\ events[p] = <<"started", "attributed">>
  /\ pc[p] = "joining_streams" /\ ~ bad[p] => root[p] = "reaped" /\ events[p] = Complete
  /\ pc[p] \in {"recording_end", "joining_streams"} /\ ~ bad[p] =>
       monitor[p] = "none" /\ ~ failure[p]
  /\ pc[p] \in {"idle", "launching", "recording_started", "attaching"} => monitor[p] = "none"
  /\ pc[p] \notin {"recording_end", "joining_streams", "done"} /\ monitor[p] = "none" =>
       ~ failure[p]
  /\ result[p] = "ok" => Accounted(p)

\* The writer waits for the helpers, and each helper for its turn.
Order ==
  /\ main \in {"spawning", "joining"} => pc[Writer] = "idle"
  /\ pc[Writer] # "idle" => \A h \in Helper : result[h] = "ok"
  /\ main = "ok" => result[Writer] = "ok"
  /\ \A i \in DOMAIN Helpers : i > spawned => pc[Helpers[i]] = "idle"

IInv == TypeOK /\ (\A p \in Process : Stage(p)) /\ Order

LEMMA Participants ==
  /\ Helpers \in Seq(Helper) /\ DOMAIN Helpers = 1 .. Len(Helpers) /\ Len(Helpers) \in Nat
  /\ Writer \in Process /\ Writer \notin Helper /\ Helper \subseteq Process
  /\ \A i \in DOMAIN Helpers : Helpers[i] \in Helper
  /\ \A i, j \in DOMAIN Helpers : Helpers[i] = Helpers[j] => i = j
  BY ConstantsAssumption DEF Helper, Process

LEMMA InitialState == Init => IInv
<1> SUFFICES ASSUME Init PROVE IInv
  OBVIOUS
<1>1. TypeOK
  <2>1. 0 \in 0 .. Len(Helpers)
    BY Participants
  <2>2. QED
    BY <2>1 DEF Init, TypeOK, Locations
<1>2. ASSUME NEW p \in Process PROVE Stage(p)
  BY DEF Init, Stage
<1>3. Order
  BY Participants DEF Init, Order
<1>4. QED
  BY <1>1, <1>2, <1>3 DEF IInv

\* What Write leaves in the artifact.
LEMMA WriteIsTyped ==
  ASSUME NEW p \in Process, NEW event \in {"started", "attributed", "terminated"},
         NEW n, Write(p, event, n),
         events \in [Process -> Seq({"started", "attributed", "terminated"})]
  PROVE  /\ events' \in [Process -> Seq({"started", "attributed", "terminated"})]
         /\ n = 1 => events'[p] = Append(events[p], event)
         /\ \A q \in Process : q # p => events'[q] = events[q]
  BY DEF Write

\* A step that changes nothing of a process but what runs beside it.
LEMMA StageStays ==
  ASSUME NEW q \in Process, Stage(q),
         pc'[q] = pc[q], result'[q] = result[q], bad'[q] = bad[q], root'[q] = root[q],
         success'[q] = success[q], events'[q] = events[q], monitor'[q] = monitor[q],
         failure'[q] = failure[q]
  PROVE  Stage(q)'
  BY DEF Stage, Accounted


\* The step of a thread of run_codex_exec: its process, and no other.
LEMMA ThreadIsLocal ==
  ASSUME IInv, NEW p \in Process, Thread(p), NEW q \in Process, q # p
  PROVE  Stage(q)'
<1>1. Stage(q)
  BY DEF IInv
<1>2. /\ pc'[q] = pc[q] /\ result'[q] = result[q] /\ bad'[q] = bad[q]
  BY DEF IInv, TypeOK, Thread, Go, Return, processes, monitors,
         LaunchFails, Launch, RecordStarted, StartedNotRecorded, Abandon, KillUnobserved,
         Attach, AttachFails, KillUnmonitored, Close, RecordAttributed, AttributedNotRecorded,
         Drop, Poll, FailClosed, Timeout, Terminate, StopMonitor, RecordEnd, EndNotRecorded,
         JoinStreams
<1>3. /\ root'[q] = root[q] /\ success'[q] = success[q] /\ events'[q] = events[q]
  BY DEF IInv, TypeOK, Thread, processes, KillAndReap, Write,
         LaunchFails, Launch, RecordStarted, StartedNotRecorded, Abandon, KillUnobserved,
         Attach, AttachFails, KillUnmonitored, Close, RecordAttributed, AttributedNotRecorded,
         Drop, Poll, FailClosed, Timeout, Terminate, StopMonitor, RecordEnd, EndNotRecorded,
         JoinStreams
<1>4. /\ monitor'[q] = monitor[q] /\ failure'[q] = failure[q]
  BY DEF IInv, TypeOK, Thread, monitors,
         LaunchFails, Launch, RecordStarted, StartedNotRecorded, Abandon, KillUnobserved,
         Attach, AttachFails, KillUnmonitored, Close, RecordAttributed, AttributedNotRecorded,
         Drop, Poll, FailClosed, Timeout, Terminate, StopMonitor, RecordEnd, EndNotRecorded,
         JoinStreams
<1>5. QED
  BY <1>1, <1>2, <1>3, <1>4, StageStays

\* The same step keeps the order of the processes.
LEMMA ThreadKeepsOrder ==
  ASSUME IInv, NEW p \in Process, Thread(p)
  PROVE  Order'
<1>1. /\ main' = main /\ spawned' = spawned
      /\ pc[p] \notin {"idle", "done"}
      /\ \E l \in Locations \ {"idle"} : pc' = [pc EXCEPT ![p] = l]
      /\ \E r \in {"none", "ok", "error"} : result' = result \/ result' = [result EXCEPT ![p] = r]
  BY DEF IInv, TypeOK, Locations, Thread, Go, Return, AfterWait,
         LaunchFails, Launch, RecordStarted, StartedNotRecorded, Abandon, KillUnobserved,
         Attach, AttachFails, KillUnmonitored, Close, RecordAttributed, AttributedNotRecorded,
         Drop, Poll, FailClosed, Timeout, Terminate, StopMonitor, RecordEnd, EndNotRecorded,
         JoinStreams
<1>2. /\ \A q \in Process : pc'[q] = "idle" <=> pc[q] = "idle"
      /\ \A q \in Process : q # p => pc'[q] = pc[q] /\ result'[q] = result[q]
  BY <1>1 DEF IInv, TypeOK
<1>3. result[p] = "none"
  BY <1>1 DEF IInv, Stage
<1>4. \A q \in Process : result[q] = "ok" => result'[q] = "ok"
  BY <1>2, <1>3
<1>5. QED
  BY <1>1, <1>2, <1>4, Participants DEF IInv, Order

LEMMA ThreadIsTyped ==
  ASSUME TypeOK, NEW p \in Process, Thread(p), UNCHANGED <<refused, losing>>
  PROVE  TypeOK'
<1>1. /\ main' = main /\ spawned' = spawned
      /\ pc' \in [Process -> Locations]
  BY DEF TypeOK, Locations, Thread, Go, Return, AfterWait,
         LaunchFails, Launch, RecordStarted, StartedNotRecorded, Abandon, KillUnobserved,
         Attach, AttachFails, KillUnmonitored, Close, RecordAttributed, AttributedNotRecorded,
         Drop, Poll, FailClosed, Timeout, Terminate, StopMonitor, RecordEnd, EndNotRecorded,
         JoinStreams
<1>2. /\ result' \in [Process -> {"none", "ok", "error"}]
      /\ bad' \in [Process -> BOOLEAN]
  <2>1. \/ result' = result
        \/ \E r \in {"ok", "error"} : result' = [result EXCEPT ![p] = r]
    BY DEF Thread, Go, Return,
         LaunchFails, Launch, RecordStarted, StartedNotRecorded, Abandon, KillUnobserved,
         Attach, AttachFails, KillUnmonitored, Close, RecordAttributed, AttributedNotRecorded,
         Drop, Poll, FailClosed, Timeout, Terminate, StopMonitor, RecordEnd, EndNotRecorded,
         JoinStreams
  <2>2. bad' = bad \/ \E b \in BOOLEAN : bad' = [bad EXCEPT ![p] = b]
    <3>1. CASE StopMonitor(p)
      <4>1. (bad[p] \/ failure[p]) \in BOOLEAN
        OBVIOUS
      <4>2. QED
        BY <3>1, <4>1 DEF StopMonitor
    <3>2. CASE ~ StopMonitor(p)
      BY <3>2 DEF Thread,
         LaunchFails, Launch, RecordStarted, StartedNotRecorded, Abandon, KillUnobserved,
         Attach, AttachFails, KillUnmonitored, Close, RecordAttributed, AttributedNotRecorded,
         Drop, Poll, FailClosed, Timeout, Terminate, StopMonitor, RecordEnd, EndNotRecorded,
         JoinStreams
    <3>3. QED
      BY <3>1, <3>2
  <2>3. result' \in [Process -> {"none", "ok", "error"}]
    BY <2>1 DEF TypeOK
  <2>4. bad' \in [Process -> BOOLEAN]
    BY <2>2 DEF TypeOK
  <2>5. QED
    BY <2>3, <2>4
<1>3. /\ root' \in [Process -> {"none", "running", "exited", "reaped"}]
      /\ success' = success
      /\ rest' \in [Process -> Leftovers \cup {"none"}]
  BY DEF TypeOK, Thread, processes, KillAndReap,
         LaunchFails, Launch, RecordStarted, StartedNotRecorded, Abandon, KillUnobserved,
         Attach, AttachFails, KillUnmonitored, Close, RecordAttributed, AttributedNotRecorded,
         Drop, Poll, FailClosed, Timeout, Terminate, StopMonitor, RecordEnd, EndNotRecorded,
         JoinStreams
<1>4. events' \in [Process -> Seq({"started", "attributed", "terminated"})]
  <2>1. \/ events' = events
        \/ \E e \in {"started", "attributed", "terminated"}, n \in 0 .. 2 : Write(p, e, n)
    BY DEF Thread, Attempts,
         LaunchFails, Launch, RecordStarted, StartedNotRecorded, Abandon, KillUnobserved,
         Attach, AttachFails, KillUnmonitored, Close, RecordAttributed, AttributedNotRecorded,
         Drop, Poll, FailClosed, Timeout, Terminate, StopMonitor, RecordEnd, EndNotRecorded,
         JoinStreams
  <2>2. QED
    BY <2>1, WriteIsTyped DEF TypeOK
<1>5. /\ monitor' \in [Process -> {"none", "running", "failing", "killing", "cancelling",
                                   "signalling", "exited"}]
      /\ target' = target /\ failure' = failure /\ cancelled' = cancelled
  BY DEF TypeOK, Thread, monitors,
         LaunchFails, Launch, RecordStarted, StartedNotRecorded, Abandon, KillUnobserved,
         Attach, AttachFails, KillUnmonitored, Close, RecordAttributed, AttributedNotRecorded,
         Drop, Poll, FailClosed, Timeout, Terminate, StopMonitor, RecordEnd, EndNotRecorded,
         JoinStreams
<1>6. QED
  BY <1>1, <1>2, <1>3, <1>4, <1>5 DEF TypeOK

LEMMA Appended ==
  /\ Append(<<>>, "started") = <<"started">>
  /\ Append(<<"started">>, "attributed") = <<"started", "attributed">>
  /\ Append(<<"started", "attributed">>, "terminated") = Complete
<1> DEFINE E == {"started", "attributed", "terminated"}
           One == <<"started">>
           Two == <<"started", "attributed">>
<1>1. \A s \in Seq(E), c \in E :
        /\ Append(s, c) \in Seq(E) /\ Len(Append(s, c)) = Len(s) + 1
        /\ Append(s, c)[Len(s) + 1] = c
        /\ \A i \in 1 .. Len(s) : Append(s, c)[i] = s[i]
  OBVIOUS
<1>2. One \in Seq(E) /\ Len(One) = 1 /\ One[1] = "started"
  OBVIOUS
<1>3. Two \in Seq(E) /\ Len(Two) = 2 /\ Two[1] = "started" /\ Two[2] = "attributed"
  OBVIOUS
<1>4. /\ Complete \in Seq(E) /\ Len(Complete) = 3 /\ Complete[1] = "started"
      /\ Complete[2] = "attributed" /\ Complete[3] = "terminated"
  BY DEF Complete
<1>5. "attributed" \in E /\ "terminated" \in E
  OBVIOUS
<1> HIDE DEF E, One, Two
<1>6. Append(One, "attributed") = Two
  <2>1. \A i \in 1 .. 2 : i = 1 \/ i = 2
    OBVIOUS
  <2>2. /\ Append(One, "attributed") \in Seq(E) /\ Len(Append(One, "attributed")) = 2
        /\ \A i \in 1 .. 2 : Append(One, "attributed")[i] = Two[i]
    BY <1>1, <1>2, <1>3, <1>5, <2>1
  <2>3. QED
    BY <1>3, <2>2, SeqEqual
<1>7. Append(Two, "terminated") = Complete
  <2>1. \A i \in 1 .. 3 : i = 1 \/ i = 2 \/ i = 3
    OBVIOUS
  <2>2. /\ Append(Two, "terminated") \in Seq(E) /\ Len(Append(Two, "terminated")) = 3
        /\ \A i \in 1 .. 3 : Append(Two, "terminated")[i] = Complete[i]
    BY <1>1, <1>3, <1>4, <1>5, <2>1
  <2>3. QED
    BY <1>4, <2>2, SeqEqual
<1>8. Append(<<>>, "started") = <<"started">>
  OBVIOUS
<1>9. QED
  BY <1>6, <1>7, <1>8 DEF One, Two

\* What the step does for its own process.
LEMMA ThreadAdvances ==
  ASSUME IInv, NEW p \in Process, Thread(p), UNCHANGED <<refused, losing>>
  PROVE  Stage(p)'
<1>1. Stage(p) /\ TypeOK
  BY DEF IInv
<1>2. CASE LaunchFails(p)
  <2>1. /\ pc[p] = "launching" /\ pc'[p] = "done" /\ result'[p] = "error"
        /\ root'[p] = root[p] /\ success'[p] = success[p] /\ events'[p] = events[p]
        /\ monitor'[p] = monitor[p] /\ failure'[p] = failure[p]
    BY <1>1, <1>2 DEF LaunchFails, Return, TypeOK, processes, monitors
  <2>2. bad'[p] = bad[p]
    BY <1>1, <1>2 DEF LaunchFails, TypeOK
  <2>3. QED
    BY <1>1, <2>1, <2>2 DEF Stage, Accounted, Complete
<1>3. CASE Launch(p)
  <2>1. /\ pc[p] = "launching" /\ pc'[p] = "recording_started" /\ result'[p] = result[p]
        /\ root'[p] = "running" /\ success'[p] = success[p] /\ events'[p] = events[p]
        /\ monitor'[p] = monitor[p] /\ failure'[p] = failure[p]
    BY <1>1, <1>3 DEF Launch, Go, TypeOK, processes, monitors
  <2>2. bad'[p] = bad[p]
    BY <1>1, <1>3 DEF Launch, TypeOK
  <2>3. QED
    BY <1>1, <2>1, <2>2 DEF Stage, Accounted, Complete
<1>4. CASE RecordStarted(p)
  <2>1. /\ pc[p] = "recording_started" /\ pc'[p] = "attaching" /\ result'[p] = result[p]
        /\ root'[p] = root[p] /\ success'[p] = success[p]
        /\ monitor'[p] = monitor[p] /\ failure'[p] = failure[p]
    BY <1>1, <1>4 DEF RecordStarted, Go, TypeOK, processes, monitors
  <2>2. bad'[p] = bad[p]
    BY <1>1, <1>4 DEF RecordStarted, TypeOK
  <2>3. events'[p] = Append(events[p], "started")
    BY <1>1, <1>4, WriteIsTyped DEF RecordStarted, TypeOK
  <2>4. events'[p] = <<"started">>
    BY <1>1, <2>1, <2>3, Appended DEF Stage
  <2>5. QED
    BY <1>1, <2>1, <2>2, <2>4 DEF Stage, Accounted, Complete
<1>5. CASE StartedNotRecorded(p)
  <2>1. /\ pc[p] = "recording_started" /\ pc'[p] = "abandoning" /\ result'[p] = result[p]
        /\ root'[p] = root[p] /\ success'[p] = success[p]
        /\ monitor'[p] = monitor[p] /\ failure'[p] = failure[p]
    BY <1>1, <1>5 DEF StartedNotRecorded, Go, TypeOK, processes, monitors
  <2>2. bad'[p] = bad[p]
    BY <1>1, <1>5 DEF StartedNotRecorded, TypeOK
  <2>3. QED
    BY <1>1, <2>1, <2>2 DEF Stage, Accounted, Complete
<1>6. CASE Abandon(p)
  <2>1. /\ pc[p] = "abandoning" /\ pc'[p] = "killing_unobserved" /\ result'[p] = result[p]
        /\ root'[p] = root[p] /\ success'[p] = success[p]
        /\ monitor'[p] = monitor[p] /\ failure'[p] = failure[p]
    BY <1>1, <1>6 DEF Abandon, Go, TypeOK, processes, monitors
  <2>2. bad'[p] = bad[p]
    BY <1>1, <1>6 DEF Abandon, TypeOK
  <2>3. QED
    BY <1>1, <2>1, <2>2 DEF Stage, Accounted, Complete
<1>7. CASE KillUnobserved(p)
  <2>1. /\ pc[p] = "killing_unobserved" /\ pc'[p] = "done" /\ result'[p] = "error"
        /\ root'[p] = "reaped" /\ success'[p] = success[p] /\ events'[p] = events[p]
        /\ monitor'[p] = monitor[p] /\ failure'[p] = failure[p]
    BY <1>1, <1>7 DEF KillUnobserved, Return, KillAndReap, TypeOK, processes, monitors
  <2>2. bad'[p] = bad[p]
    BY <1>1, <1>7 DEF KillUnobserved, TypeOK
  <2>3. QED
    BY <1>1, <2>1, <2>2 DEF Stage, Accounted, Complete
<1>8. CASE Attach(p)
  <2>1. /\ pc[p] = "attaching" /\ pc'[p] = "recording_attributed" /\ result'[p] = result[p]
        /\ root'[p] = root[p] /\ success'[p] = success[p] /\ events'[p] = events[p]
        /\ failure'[p] = failure[p]
    BY <1>1, <1>8 DEF Attach, Go, TypeOK, processes, monitors
  <2>2. bad'[p] = bad[p]
    BY <1>1, <1>8 DEF Attach, TypeOK
  <2>3. QED
    BY <1>1, <2>1, <2>2 DEF Stage, Accounted, Complete
<1>9. CASE AttachFails(p)
  <2>1. /\ pc[p] = "attaching" /\ pc'[p] = "killing_unmonitored" /\ result'[p] = result[p]
        /\ root'[p] = root[p] /\ success'[p] = success[p] /\ events'[p] = events[p]
        /\ monitor'[p] = monitor[p] /\ failure'[p] = failure[p]
    BY <1>1, <1>9 DEF AttachFails, Go, TypeOK, processes, monitors
  <2>2. bad'[p] = bad[p]
    BY <1>1, <1>9 DEF AttachFails, TypeOK
  <2>3. QED
    BY <1>1, <2>1, <2>2 DEF Stage, Accounted, Complete
<1>10. CASE KillUnmonitored(p)
  <2>1. /\ pc[p] = "killing_unmonitored" /\ pc'[p] = "closing" /\ result'[p] = result[p]
        /\ root'[p] = "reaped" /\ success'[p] = success[p] /\ events'[p] = events[p]
        /\ monitor'[p] = monitor[p] /\ failure'[p] = failure[p]
    BY <1>1, <1>10 DEF KillUnmonitored, Go, KillAndReap, TypeOK, processes, monitors
  <2>2. bad'[p] = bad[p]
    BY <1>1, <1>10 DEF KillUnmonitored, TypeOK
  <2>3. QED
    BY <1>1, <2>1, <2>2 DEF Stage, Accounted, Complete
<1>11. CASE Close(p)
  <2>1. /\ pc[p] = "closing" /\ pc'[p] = "done" /\ result'[p] = "error"
        /\ root'[p] = root[p] /\ success'[p] = success[p]
        /\ monitor'[p] = monitor[p] /\ failure'[p] = failure[p]
    BY <1>1, <1>11 DEF Close, Return, TypeOK, processes, monitors
  <2>2. bad'[p] = bad[p]
    BY <1>1, <1>11 DEF Close, TypeOK
  <2>3. QED
    BY <1>1, <2>1, <2>2 DEF Stage, Accounted, Complete
<1>12. CASE RecordAttributed(p)
  <2>1. /\ pc[p] = "recording_attributed" /\ pc'[p] = "waiting" /\ result'[p] = result[p]
        /\ root'[p] = root[p] /\ success'[p] = success[p]
        /\ monitor'[p] = monitor[p] /\ failure'[p] = failure[p]
    BY <1>1, <1>12 DEF RecordAttributed, Go, TypeOK, processes, monitors
  <2>2. bad'[p] = bad[p]
    BY <1>1, <1>12 DEF RecordAttributed, TypeOK
  <2>3. events'[p] = Append(events[p], "attributed")
    BY <1>1, <1>12, WriteIsTyped DEF RecordAttributed, TypeOK
  <2>4. events'[p] = <<"started", "attributed">>
    BY <1>1, <2>1, <2>3, Appended DEF Stage
  <2>5. QED
    BY <1>1, <2>1, <2>2, <2>4 DEF Stage, Accounted, Complete
<1>13. CASE AttributedNotRecorded(p)
  <2>1. /\ pc[p] = "recording_attributed" /\ pc'[p] = "dropping" /\ result'[p] = result[p]
        /\ root'[p] = root[p] /\ success'[p] = success[p]
        /\ monitor'[p] = monitor[p] /\ failure'[p] = failure[p]
    BY <1>1, <1>13 DEF AttributedNotRecorded, Go, TypeOK, processes, monitors
  <2>2. bad'[p] = bad[p]
    BY <1>1, <1>13 DEF AttributedNotRecorded, TypeOK
  <2>3. QED
    BY <1>1, <2>1, <2>2 DEF Stage, Accounted, Complete
<1>14. CASE Drop(p)
  <2>1. /\ pc[p] = "dropping" /\ pc'[p] = "done" /\ result'[p] = "error"
        /\ root'[p] = root[p] /\ success'[p] = success[p]
        /\ monitor'[p] = monitor[p] /\ failure'[p] = failure[p]
    BY <1>1, <1>14 DEF Drop, Return, TypeOK, processes, monitors
  <2>2. bad'[p] = bad[p]
    BY <1>1, <1>14 DEF Drop, TypeOK
  <2>3. QED
    BY <1>1, <2>1, <2>2 DEF Stage, Accounted, Complete
<1>15. CASE Poll(p)
  <2>1. /\ pc[p] = "waiting" /\ pc'[p] = AfterWait(p) /\ result'[p] = result[p]
        /\ root'[p] = "reaped" /\ success'[p] = success[p] /\ events'[p] = events[p]
        /\ monitor'[p] = monitor[p] /\ failure'[p] = failure[p]
    BY <1>1, <1>15 DEF Poll, Go, TypeOK, processes, monitors
  <2>2. bad'[p] = bad[p]
    BY <1>1, <1>15 DEF Poll, TypeOK
  <2>3. QED
    BY <1>1, <2>1, <2>2 DEF Stage, Accounted, Complete, AfterWait
<1>16. CASE FailClosed(p)
  <2>1. /\ pc[p] = "waiting" /\ pc'[p] = "terminating" /\ result'[p] = result[p]
        /\ root'[p] = root[p] /\ success'[p] = success[p] /\ events'[p] = events[p]
        /\ monitor'[p] = monitor[p] /\ failure'[p] = failure[p]
    BY <1>1, <1>16 DEF FailClosed, Go, TypeOK, processes, monitors
  <2>2. bad'[p] = bad[p]
    BY <1>1, <1>16 DEF FailClosed, TypeOK
  <2>3. QED
    BY <1>1, <2>1, <2>2 DEF Stage, Accounted, Complete
<1>17. CASE Timeout(p)
  <2>1. /\ pc[p] = "waiting" /\ pc'[p] = "terminating" /\ result'[p] = result[p]
        /\ root'[p] = root[p] /\ success'[p] = success[p] /\ events'[p] = events[p]
        /\ monitor'[p] = monitor[p] /\ failure'[p] = failure[p]
    BY <1>1, <1>17 DEF Timeout, Go, TypeOK, processes, monitors
  <2>2. bad'[p] = bad[p]
    BY <1>1, <1>17 DEF Timeout, TypeOK
  <2>3. QED
    BY <1>1, <2>1, <2>2 DEF Stage, Accounted, Complete
<1>18. CASE Terminate(p)
  <2>1. /\ pc[p] = "terminating" /\ pc'[p] = AfterWait(p) /\ result'[p] = result[p]
        /\ root'[p] = "reaped" /\ success'[p] = success[p] /\ events'[p] = events[p]
        /\ monitor'[p] = monitor[p] /\ failure'[p] = failure[p]
    BY <1>1, <1>18 DEF Terminate, Go, KillAndReap, TypeOK, processes, monitors
  <2>2. bad'[p] = TRUE
    BY <1>1, <1>18 DEF Terminate, TypeOK
  <2>3. QED
    BY <1>1, <2>1, <2>2 DEF Stage, Accounted, Complete, AfterWait
<1>19. CASE StopMonitor(p)
  <2>1. /\ pc[p] = "joining_monitor" /\ pc'[p] = "recording_end" /\ result'[p] = result[p]
        /\ root'[p] = root[p] /\ success'[p] = success[p] /\ events'[p] = events[p]
        /\ monitor'[p] = "none" /\ failure'[p] = failure[p]
    BY <1>1, <1>19 DEF StopMonitor, Go, TypeOK, processes, monitors
  <2>2. bad'[p] <=> (bad[p] \/ failure[p])
    BY <1>1, <1>19, Zenon DEF StopMonitor, TypeOK
  <2>3. QED
    BY <1>1, <2>1, <2>2 DEF Stage, Accounted, Complete
<1>20. CASE RecordEnd(p)
  <2>1. /\ pc[p] = "recording_end" /\ pc'[p] = "joining_streams" /\ result'[p] = result[p]
        /\ root'[p] = root[p] /\ success'[p] = success[p]
        /\ monitor'[p] = monitor[p] /\ failure'[p] = failure[p]
    BY <1>1, <1>20 DEF RecordEnd, Go, TypeOK, processes, monitors
  <2>2. bad'[p] = bad[p]
    BY <1>1, <1>20 DEF RecordEnd, TypeOK
  <2>3. ~ bad[p] => events'[p] = Append(events[p], "terminated")
    BY <1>1, <1>20, WriteIsTyped DEF RecordEnd, TypeOK
  <2>4. ~ bad[p] => events'[p] = Complete
    BY <1>1, <2>1, <2>3, Appended DEF Stage
  <2>5. QED
    BY <1>1, <2>1, <2>2, <2>4 DEF Stage, Accounted
<1>21. CASE EndNotRecorded(p)
  <2>1. /\ pc[p] = "recording_end" /\ pc'[p] = "done" /\ result'[p] = "error"
        /\ root'[p] = root[p] /\ success'[p] = success[p]
        /\ monitor'[p] = monitor[p] /\ failure'[p] = failure[p]
    BY <1>1, <1>21 DEF EndNotRecorded, Return, TypeOK, processes, monitors
  <2>2. bad'[p] = bad[p]
    BY <1>1, <1>21 DEF EndNotRecorded, TypeOK
  <2>3. QED
    BY <1>1, <2>1, <2>2 DEF Stage, Accounted, Complete
<1>22. CASE JoinStreams(p)
  <2>1. /\ pc[p] = "joining_streams" /\ pc'[p] = "done" /\ bad'[p] = bad[p]
        /\ root'[p] = root[p] /\ success'[p] = success[p] /\ events'[p] = events[p]
        /\ monitor'[p] = monitor[p] /\ failure'[p] = failure[p]
    BY <1>1, <1>22 DEF JoinStreams, Return, TypeOK, processes, monitors
  <2>2. \/ result'[p] = "error"
        \/ result'[p] = "ok" /\ ~ bad[p] /\ success[p]
    BY <1>1, <1>22 DEF JoinStreams, Return, TypeOK
  <2>3. QED
    BY <1>1, <2>1, <2>2 DEF Stage, Accounted, Complete
<1>23. QED
  BY <1>2, <1>3, <1>4, <1>5, <1>6, <1>7, <1>8, <1>9, <1>10, <1>11, <1>12, <1>13, <1>14,
     <1>15, <1>16, <1>17, <1>18, <1>19, <1>20, <1>21, <1>22 DEF Thread

\* The steps of the run's own thread.
LEMMA MainAdvances ==
  ASSUME IInv, Main, UNCHANGED <<refused, losing>>
  PROVE  IInv'
<1>1. TypeOK /\ Order /\ \A p \in Process : Stage(p)
  BY DEF IInv
<1>2. CASE SpawnHelper
  <2>1. /\ spawned \in Nat /\ spawned + 1 \in DOMAIN Helpers /\ spawned + 1 > spawned
        /\ spawned' \in 0 .. Len(Helpers)
    BY <1>1, <1>2, Participants DEF SpawnHelper, TypeOK
  <2>2. PICK node \in Process : /\ node = Helpers[spawned + 1]
                               /\ node # Writer /\ pc[node] = "idle"
    BY <1>1, <2>1, Participants DEF Order
  <2>3. /\ pc' = [pc EXCEPT ![node] = "launching"] /\ main' = main /\ main = "spawning"
        /\ spawned' = spawned + 1 /\ result' = result
    BY <1>2, <2>2 DEF SpawnHelper
  <2>4. /\ bad' = bad /\ root' = root /\ success' = success /\ rest' = rest
        /\ events' = events /\ monitor' = monitor /\ target' = target
        /\ failure' = failure /\ cancelled' = cancelled
    BY <1>2 DEF SpawnHelper, processes, monitors
  <2>5. pc' \in [Process -> Locations]
    BY <1>1, <2>2, <2>3 DEF TypeOK, Locations
  <2>6. TypeOK'
    BY <1>1, <2>1, <2>3, <2>4, <2>5 DEF TypeOK
  <2>7. Stage(node)'
    <3>1. pc'[node] = "launching"
      BY <1>1, <2>2, <2>3 DEF TypeOK
    <3>2. /\ result[node] = "none" /\ root[node] = "none" /\ events[node] = <<>>
          /\ monitor[node] = "none"
      BY <1>1, <2>2 DEF Stage
    <3>3. ~ failure[node]
      BY <1>1, <2>2, <3>2 DEF Stage
    <3>4. QED
      BY <2>3, <2>4, <3>1, <3>2, <3>3 DEF Stage
  <2>8. ASSUME NEW q \in Process, q # node PROVE Stage(q)'
    <3>1. pc'[q] = pc[q]
      BY <1>1, <2>3, <2>8 DEF TypeOK
    <3>2. QED
      BY <1>1, <2>3, <2>4, <3>1, StageStays
  <2>9. Order'
    <3>1. pc'[Writer] = pc[Writer]
      BY <1>1, <2>2, <2>3, Participants DEF TypeOK
    <3>2. ASSUME NEW i \in DOMAIN Helpers, i > spawned' PROVE pc'[Helpers[i]] = "idle"
      <4>1. i \in Nat /\ i > spawned /\ i # spawned + 1 /\ Helpers[i] \in Process
        BY <2>1, <2>3, <3>2, Participants
      <4>2. Helpers[i] # node
        BY <2>1, <2>2, <4>1, Participants
      <4>3. QED
        BY <1>1, <2>3, <4>1, <4>2 DEF TypeOK, Order
    <3>3. QED
      BY <1>1, <2>3, <3>1, <3>2 DEF Order
  <2>10. \A q \in Process : Stage(q)'
    BY <2>7, <2>8
  <2>11. QED
    BY <2>6, <2>9, <2>10 DEF IInv
<1>3. CASE RefuseHelper \/ AllSpawned \/ HelpersFailed
  <2>1. /\ main' \in {"joining", "error"}
        /\ main' = "joining" => main = "spawning"
        /\ spawned' = spawned /\ pc' = pc /\ result' = result /\ bad' = bad
        /\ root' = root /\ success' = success /\ rest' = rest /\ events' = events
        /\ monitor' = monitor /\ target' = target /\ failure' = failure
        /\ cancelled' = cancelled
    BY <1>3 DEF RefuseHelper, AllSpawned, HelpersFailed, processes, monitors
  <2>2. TypeOK'
    BY <1>1, <2>1 DEF TypeOK
  <2>3. \A q \in Process : Stage(q)'
    BY <1>1, <2>1, StageStays
  <2>4. Order'
    BY <1>1, <2>1 DEF Order
  <2>5. QED
    BY <2>2, <2>3, <2>4 DEF IInv
<1>4. CASE StartWriter
  <2>1. /\ main = "joining" /\ main' = "writing" /\ spawned' = spawned /\ result' = result
        /\ pc' = [pc EXCEPT ![Writer] = "launching"] /\ bad' = bad
        /\ root' = root /\ success' = success /\ rest' = rest /\ events' = events
        /\ monitor' = monitor /\ target' = target /\ failure' = failure
        /\ cancelled' = cancelled
        /\ \A h \in Helper : result[h] = "ok"
    BY <1>4 DEF StartWriter, processes, monitors
  <2>2. pc' \in [Process -> Locations] /\ pc[Writer] = "idle" /\ pc'[Writer] = "launching"
    BY <1>1, <2>1, Participants DEF TypeOK, Locations, Order
  <2>3. TypeOK'
    BY <1>1, <2>1, <2>2 DEF TypeOK
  <2>4. Stage(Writer)'
    BY <1>1, <2>1, <2>2, Participants DEF Stage, Accounted
  <2>5. ASSUME NEW q \in Process, q # Writer PROVE Stage(q)'
    <3>1. pc'[q] = pc[q]
      BY <1>1, <2>1, <2>5 DEF TypeOK
    <3>2. QED
      BY <1>1, <2>1, <3>1, StageStays
  <2>6. Order'
    <3>1. \A i \in DOMAIN Helpers : pc'[Helpers[i]] = pc[Helpers[i]]
      BY <1>1, <2>1, Participants DEF TypeOK
    <3>2. QED
      BY <1>1, <2>1, <3>1 DEF Order
  <2>7. QED
    BY <2>3, <2>4, <2>5, <2>6 DEF IInv
<1>5. CASE WriterReturned
  <2>1. /\ main = "writing" /\ main' = result[Writer] /\ pc[Writer] = "done"
        /\ spawned' = spawned /\ pc' = pc /\ result' = result /\ bad' = bad
        /\ root' = root /\ success' = success /\ rest' = rest /\ events' = events
        /\ monitor' = monitor /\ target' = target /\ failure' = failure
        /\ cancelled' = cancelled
    BY <1>5 DEF WriterReturned, processes, monitors
  <2>2. result[Writer] \in {"ok", "error"}
    BY <1>1, <2>1, Participants DEF Stage, TypeOK
  <2>3. TypeOK'
    BY <1>1, <2>1, <2>2 DEF TypeOK
  <2>4. \A q \in Process : Stage(q)'
    BY <1>1, <2>1, StageStays
  <2>5. Order'
    BY <1>1, <2>1, <2>2 DEF Order
  <2>6. QED
    BY <2>3, <2>4, <2>5 DEF IInv
<1>6. QED
  BY <1>2, <1>3, <1>4, <1>5 DEF Main

\* What monitors and processes may do to a stage: end a process that runs, and
\* fail one that is still monitored.
LEMMA StageBears ==
  ASSUME NEW q \in Process, Stage(q),
         pc'[q] = pc[q], result'[q] = result[q], bad'[q] = bad[q], events'[q] = events[q],
         monitor'[q] = "none" <=> monitor[q] = "none",
         root'[q] = root[q] \/ (root[q] = "running" /\ root'[q] = "exited"),
         (success'[q] <=> success[q]) \/ root[q] = "running",
         (failure'[q] <=> failure[q]) \/ monitor[q] # "none"
  PROVE  Stage(q)'
  BY DEF Stage, Accounted

LEMMA SignalIsTyped ==
  ASSUME TypeOK, NEW p \in Process, Signal(p)
  PROVE  /\ root' \in [Process -> {"none", "running", "exited", "reaped"}]
         /\ success' \in [Process -> BOOLEAN]
         /\ rest' \in [Process -> Leftovers \cup {"none"}]
         /\ \A q \in Process :
              /\ root'[q] = root[q] \/ (root[q] = "running" /\ root'[q] = "exited")
              /\ (success'[q] <=> success[q]) \/ root[q] = "running"
<1>1. /\ root' = [root EXCEPT ![p] = IF @ = "running" THEN "exited" ELSE @]
      /\ rest' = [rest EXCEPT ![p] = "none"]
      /\ \/ success' = success
         \/ root[p] = "running" /\ success' = [success EXCEPT ![p] = TRUE]
  BY DEF Signal
<1>2. root' \in [Process -> {"none", "running", "exited", "reaped"}]
  BY <1>1 DEF TypeOK
<1>3. rest' \in [Process -> Leftovers \cup {"none"}]
  BY <1>1 DEF TypeOK
<1>4. success' \in [Process -> BOOLEAN]
  BY <1>1 DEF TypeOK
<1>5. ASSUME NEW q \in Process
      PROVE  /\ root'[q] = root[q] \/ (root[q] = "running" /\ root'[q] = "exited")
             /\ (success'[q] <=> success[q]) \/ root[q] = "running"
  <2>1. root'[q] = root[q] \/ (root[q] = "running" /\ root'[q] = "exited")
    <3>1. root \in [Process -> {"none", "running", "exited", "reaped"}]
      BY DEF TypeOK
    <3>2. root' = [root EXCEPT ![p] = IF root[p] = "running" THEN "exited" ELSE root[p]]
      BY <1>1
    <3>3. QED
      BY <3>1, <3>2
  <2>2. (success'[q] <=> success[q]) \/ root[q] = "running"
    <3>1. CASE q = p
      BY <1>1, <3>1
    <3>2. CASE q # p
      BY <1>1, <3>2 DEF TypeOK
    <3>3. QED
      BY <3>1, <3>2
  <2>3. QED
    BY <2>1, <2>2
<1>6. QED
  BY <1>2, <1>3, <1>4, <1>5

\* The steps of a monitor.
LEMMA MonitorAdvances ==
  ASSUME IInv, NEW p \in Process, Sample(p) \/ Monitor(p), UNCHANGED <<refused, losing>>
  PROVE  IInv'
<1>1. TypeOK /\ Order /\ \A q \in Process : Stage(q)
  BY DEF IInv
<1>2. /\ main' = main /\ spawned' = spawned /\ pc' = pc /\ result' = result /\ bad' = bad
      /\ events' = events
  BY DEF Sample, Monitor, Fail, KillGroup, MarkCancelled, CancelTooLate, CancelHelper,
         StopSampling, Become, threads
<1>3. /\ monitor[p] # "none"
      /\ \E m \in {"running", "failing", "killing", "cancelling", "signalling", "exited"} :
           monitor' = [monitor EXCEPT ![p] = m]
  BY DEF Sample, Monitor, Fail, KillGroup, MarkCancelled, CancelTooLate, CancelHelper,
         StopSampling, Become
<1>4. /\ monitor' \in [Process -> {"none", "running", "failing", "killing", "cancelling",
                                   "signalling", "exited"}]
      /\ \A q \in Process : monitor'[q] = "none" <=> monitor[q] = "none"
  BY <1>1, <1>3 DEF TypeOK
<1>5. \/ failure' = failure
      \/ failure' = [failure EXCEPT ![p] = TRUE]
  BY DEF Sample, Monitor, Fail, KillGroup, MarkCancelled, CancelTooLate, CancelHelper,
         StopSampling
<1>6. /\ failure' \in [Process -> BOOLEAN]
      /\ \A q \in Process : (failure'[q] <=> failure[q]) \/ monitor[q] # "none"
  <2>1. failure' \in [Process -> BOOLEAN]
    BY <1>1, <1>5 DEF TypeOK
  <2>2. ASSUME NEW q \in Process PROVE (failure'[q] <=> failure[q]) \/ monitor[q] # "none"
    <3>1. CASE q = p
      BY <1>3, <3>1
    <3>2. CASE q # p
      BY <1>1, <1>5, <3>2 DEF TypeOK
    <3>3. QED
      BY <3>1, <3>2
  <2>3. QED
    BY <2>1, <2>2
<1>7. target' \in [Process -> SUBSET Helper] /\ cancelled' \subseteq Helper
  <2>1. /\ \/ target' = target
           \/ \E t \in SUBSET Helper : target' = [target EXCEPT ![p] = t]
        /\ cancelled' = cancelled \/ cancelled' = cancelled \cup target[p]
    BY DEF Sample, Monitor, Fail, KillGroup, MarkCancelled, CancelTooLate, CancelHelper,
           StopSampling
  <2>2. target[p] \subseteq Helper
    BY <1>1 DEF TypeOK
  <2>3. QED
    BY <1>1, <2>1, <2>2 DEF TypeOK
<1>8. \/ root' = root /\ success' = success /\ rest' = rest
      \/ \E q \in Process : Signal(q)
  <2>1. target[p] \subseteq Process
    BY <1>1, Participants DEF TypeOK
  <2>2. QED
    BY <2>1 DEF Sample, Monitor, Fail, KillGroup, MarkCancelled, CancelTooLate, CancelHelper,
         StopSampling, processes
<1>9. /\ root' \in [Process -> {"none", "running", "exited", "reaped"}]
      /\ success' \in [Process -> BOOLEAN]
      /\ rest' \in [Process -> Leftovers \cup {"none"}]
      /\ \A q \in Process :
           /\ root'[q] = root[q] \/ (root[q] = "running" /\ root'[q] = "exited")
           /\ (success'[q] <=> success[q]) \/ root[q] = "running"
  <2>1. CASE root' = root /\ success' = success /\ rest' = rest
    <3>1. /\ root \in [Process -> {"none", "running", "exited", "reaped"}]
          /\ success \in [Process -> BOOLEAN]
          /\ rest \in [Process -> Leftovers \cup {"none"}]
      BY <1>1 DEF TypeOK
    <3>2. \A q \in Process : root'[q] = root[q] /\ (success'[q] <=> success[q])
      BY <2>1
    <3>3. QED
      BY <2>1, <3>1, <3>2
  <2>2. CASE \E q \in Process : Signal(q)
    BY <1>1, <2>2, SignalIsTyped
  <2>3. QED
    BY <1>8, <2>1, <2>2
<1>10. TypeOK'
  BY <1>1, <1>2, <1>4, <1>6, <1>7, <1>9 DEF TypeOK
<1>11. ASSUME NEW q \in Process PROVE Stage(q)'
  BY <1>1, <1>2, <1>4, <1>6, <1>9, StageBears
<1>12. Order'
  BY <1>1, <1>2 DEF Order
<1>13. QED
  BY <1>10, <1>11, <1>12 DEF IInv

\* The processes' own steps.
LEMMA ProcessAdvances ==
  ASSUME IInv, NEW p \in Process, Exit(p) \/ LeftoverExits(p), UNCHANGED <<refused, losing>>
  PROVE  IInv'
<1>1. TypeOK /\ Order /\ \A q \in Process : Stage(q)
  BY DEF IInv
<1>2. /\ main' = main /\ spawned' = spawned /\ pc' = pc /\ result' = result /\ bad' = bad
      /\ events' = events /\ monitor' = monitor /\ target' = target /\ failure' = failure
      /\ cancelled' = cancelled
  BY DEF Exit, LeftoverExits, threads, monitors
<1>3. /\ \/ root' = root
         \/ root[p] = "running" /\ root' = [root EXCEPT ![p] = "exited"]
      /\ \/ success' = success
         \/ root[p] = "running" /\ \E ok \in BOOLEAN : success' = [success EXCEPT ![p] = ok]
      /\ \E left \in Leftovers \cup {"none"} : rest' = [rest EXCEPT ![p] = left]
  BY DEF Exit, LeftoverExits
<1>4. root' \in [Process -> {"none", "running", "exited", "reaped"}]
  BY <1>1, <1>3 DEF TypeOK
<1>5. success' \in [Process -> BOOLEAN]
  BY <1>1, <1>3 DEF TypeOK
<1>6. rest' \in [Process -> Leftovers \cup {"none"}]
  BY <1>1, <1>3 DEF TypeOK
<1>7. TypeOK'
  BY <1>1, <1>2, <1>4, <1>5, <1>6 DEF TypeOK
<1>8. ASSUME NEW q \in Process PROVE Stage(q)'
  <2>1. root'[q] = root[q] \/ (root[q] = "running" /\ root'[q] = "exited")
    <3>1. root \in [Process -> {"none", "running", "exited", "reaped"}]
      BY <1>1 DEF TypeOK
    <3>2. root' = root \/ (root[p] = "running" /\ root' = [root EXCEPT ![p] = "exited"])
      BY <1>3
    <3>3. QED
      BY <3>1, <3>2
  <2>2. (success'[q] <=> success[q]) \/ root[q] = "running"
    <3>1. CASE q = p
      BY <1>3, <3>1
    <3>2. CASE q # p
      BY <1>1, <1>3, <3>2 DEF TypeOK
    <3>3. QED
      BY <3>1, <3>2
  <2>3. QED
    BY <1>1, <1>2, <2>1, <2>2, StageBears
<1>9. Order'
  BY <1>1, <1>2 DEF Order
<1>10. QED
  BY <1>7, <1>8, <1>9 DEF IInv

LEMMA Step == IInv /\ [Next]_vars => IInv'
<1> SUFFICES ASSUME IInv, [Next]_vars PROVE IInv'
  OBVIOUS
<1>1. ASSUME UNCHANGED <<refused, losing>>, Main PROVE IInv'
  BY <1>1, MainAdvances
<1>2. ASSUME UNCHANGED <<refused, losing>>, NEW p \in Process, Thread(p) PROVE IInv'
  <2>1. TypeOK'
    BY <1>2, ThreadIsTyped DEF IInv
  <2>2. \A q \in Process : Stage(q)'
    BY <1>2, ThreadIsLocal, ThreadAdvances
  <2>3. QED
    BY <1>2, <2>1, <2>2, ThreadKeepsOrder DEF IInv
<1>3. ASSUME UNCHANGED <<refused, losing>>, NEW p \in Process, Sample(p) \/ Monitor(p) PROVE IInv'
  BY <1>3, MonitorAdvances
<1>4. ASSUME UNCHANGED <<refused, losing>>, NEW p \in Process, Exit(p) \/ LeftoverExits(p) PROVE IInv'
  BY <1>4, ProcessAdvances
<1>5. CASE UNCHANGED vars
  <2>1. /\ UNCHANGED <<refused, losing, main, spawned, pc, result, bad, root, success, rest, events>>
        /\ UNCHANGED <<monitor, target, failure, cancelled>>
    BY <1>5 DEF vars, given, threads, processes, monitors
  <2>2. TypeOK'
    BY <2>1 DEF IInv, TypeOK
  <2>3. \A q \in Process : Stage(q)'
    BY <2>1, StageStays DEF IInv
  <2>4. Order'
    BY <2>1 DEF IInv, Order
  <2>5. QED
    BY <2>2, <2>3, <2>4 DEF IInv
<1>6. QED
  BY <1>1, <1>2, <1>3, <1>4, <1>5 DEF Next, given

LEMMA Invariance == Spec => []IInv
<1>1. QED
  BY InitialState, Step, PTL DEF Spec

\* The type invariant of the runtime.
THEOREM TypeCorrect == Spec => []TypeOK
<1>1. IInv => TypeOK
  BY DEF IInv
<1>2. QED
  BY <1>1, Invariance, PTL

\* The writer's process runs only when every helper has succeeded and its
\* process and its monitor are gone: run_child_agents joins all before
\* run_issue_request goes on.
THEOREM WriterAlone == Spec => []WriterRunsAlone
<1>1. IInv => WriterRunsAlone
  <2> SUFFICES ASSUME IInv, root[Writer] \in {"running", "exited"}, NEW h \in Helper
               PROVE  result[h] = "ok" /\ root[h] = "reaped" /\ monitor[h] = "none"
    BY DEF WriterRunsAlone
  <2>1. pc[Writer] # "idle"
    BY Participants DEF IInv, Stage
  <2>2. result[h] = "ok"
    BY <2>1 DEF IInv, Order
  <2>3. QED
    BY <2>2, Participants DEF IInv, Stage, Accounted
<1>2. QED
  BY <1>1, Invariance, PTL

\* A run that succeeds has had no failure of a monitor and none of a process,
\* and the life of each process is recorded whole.
THEOREM Accounts == Spec => []SuccessIsAccounted
<1>1. IInv => SuccessIsAccounted
  <2> SUFFICES ASSUME IInv, main = "ok", NEW p \in Process
               PROVE  Accounted(p)
    BY DEF SuccessIsAccounted, Accounted, Complete
  <2>1. result[Writer] = "ok"
    BY DEF IInv, Order
  <2>2. pc[Writer] # "idle"
    BY <2>1, Participants DEF IInv, Stage
  <2>3. result[p] = "ok"
    BY <2>1, <2>2 DEF IInv, Order, Process
  <2>4. QED
    BY <2>3 DEF IInv, Stage
<1>2. QED
  BY <1>1, Invariance, PTL

-----------------------------------------------------------------------------
\* When every event can be recorded, no child is refused and nothing silent is
\* left behind.

Gone(p) == root[p] \in {"none", "reaped"} /\ rest[p] = "none" /\ monitor[p] = "none"

Tidy(p) ==
  /\ pc[p] \notin {"abandoning", "killing_unobserved", "dropping"}
  /\ pc[p] \in {"idle", "launching", "closing", "done"} => Gone(p)
  /\ pc[p] \in {"attaching", "killing_unmonitored", "recording_end", "joining_streams"} =>
       monitor[p] = "none"
  /\ pc[p] \in {"joining_monitor", "recording_end", "joining_streams"} => root[p] = "reaped"

AllTidy ==
  /\ \A p \in Process : Tidy(p)
  /\ Returned => \A p \in Process : pc[p] \in {"idle", "done"}

\* A step that changes nothing of what Tidy looks at.
LEMMA TidyStays ==
  ASSUME NEW q \in Process, Tidy(q), pc'[q] = pc[q], root'[q] = root[q], rest'[q] = rest[q],
         monitor'[q] = monitor[q]
  PROVE  Tidy(q)'
  BY DEF Tidy, Gone

LEMMA ThreadTidies ==
  ASSUME IInv, Orderly, NEW p \in Process, Thread(p), NEW q \in Process, Tidy(q)
  PROVE  Tidy(q)'
<1>1. /\ pc \in [Process -> Locations]
      /\ root \in [Process -> {"none", "running", "exited", "reaped"}]
      /\ rest \in [Process -> Leftovers \cup {"none"}]
      /\ monitor \in [Process -> {"none", "running", "failing", "killing", "cancelling",
                                  "signalling", "exited"}]
  BY DEF IInv, TypeOK
<1>2. losing = {} /\ Leftovers \subseteq {"holds_output"}
  BY ConstantsAssumption DEF Orderly
<1>3. ASSUME q # p PROVE Tidy(q)'
  <2>1. /\ pc'[q] = pc[q] /\ root'[q] = root[q] /\ rest'[q] = rest[q]
        /\ monitor'[q] = monitor[q]
    BY <1>1, <1>3 DEF Thread, Go, Return, KillAndReap, processes, monitors,
         LaunchFails, Launch, RecordStarted, StartedNotRecorded, Abandon, KillUnobserved,
         Attach, AttachFails, KillUnmonitored, Close, RecordAttributed, AttributedNotRecorded,
         Drop, Poll, FailClosed, Timeout, Terminate, StopMonitor, RecordEnd, EndNotRecorded,
         JoinStreams
  <2>2. QED
    BY <2>1, TidyStays
<1>4. ASSUME q = p PROVE Tidy(q)'
  <2>1. Stage(p)
    BY DEF IInv
  <2>2. CASE LaunchFails(p)
    BY <1>1, <1>2, <1>4, <2>1, <2>2 DEF LaunchFails, Return, processes, monitors, Tidy, Gone, Stage
  <2>3. CASE Launch(p)
    BY <1>1, <1>2, <1>4, <2>1, <2>3 DEF Launch, Go, monitors, Tidy, Gone, Stage
  <2>4. CASE RecordStarted(p)
    BY <1>1, <1>2, <1>4, <2>1, <2>4 DEF RecordStarted, Go, processes, monitors, Tidy, Gone, Stage
  <2>5. CASE Attach(p)
    BY <1>1, <1>2, <1>4, <2>1, <2>5 DEF Attach, Go, processes, Tidy, Gone, Stage
  <2>6. CASE AttachFails(p)
    BY <1>1, <1>2, <1>4, <2>1, <2>6 DEF AttachFails, Go, processes, monitors, Tidy, Gone, Stage
  <2>7. CASE KillUnmonitored(p)
    BY <1>1, <1>2, <1>4, <2>1, <2>7 DEF KillUnmonitored, Go, KillAndReap, monitors, Tidy, Gone, Stage
  <2>8. CASE Close(p)
    BY <1>1, <1>2, <1>4, <2>1, <2>8 DEF Close, Return, processes, monitors, Tidy, Gone, Stage
  <2>9. CASE RecordAttributed(p)
    BY <1>1, <1>2, <1>4, <2>1, <2>9 DEF RecordAttributed, Go, processes, monitors, Tidy, Gone, Stage
  <2>10. CASE Poll(p)
    BY <1>1, <1>2, <1>4, <2>1, <2>10 DEF Poll, Go, AfterWait, monitors, Tidy, Gone, Stage
  <2>11. CASE FailClosed(p)
    BY <1>1, <1>2, <1>4, <2>1, <2>11 DEF FailClosed, Go, processes, monitors, Tidy, Gone, Stage
  <2>12. CASE Timeout(p)
    BY <1>1, <1>2, <1>4, <2>1, <2>12 DEF Timeout, Go, processes, monitors, Tidy, Gone, Stage
  <2>13. CASE Terminate(p)
    BY <1>1, <1>2, <1>4, <2>1, <2>13 DEF Terminate, Go, AfterWait, KillAndReap, monitors, Tidy, Gone, Stage
  <2>14. CASE StopMonitor(p)
    BY <1>1, <1>2, <1>4, <2>1, <2>14 DEF StopMonitor, Go, processes, Tidy, Gone, Stage
  <2>15. CASE RecordEnd(p)
    BY <1>1, <1>2, <1>4, <2>1, <2>15 DEF RecordEnd, Go, processes, monitors, Tidy, Gone, Stage
  <2>16. CASE JoinStreams(p)
    BY <1>1, <1>2, <1>4, <2>1, <2>16 DEF JoinStreams, Return, processes, monitors, Tidy, Gone, Stage
  <2>17. CASE StartedNotRecorded(p) \/ AttributedNotRecorded(p) \/ EndNotRecorded(p)
    BY <1>2, <2>17 DEF StartedNotRecorded, AttributedNotRecorded, EndNotRecorded
  <2>18. CASE Abandon(p) \/ KillUnobserved(p) \/ Drop(p)
    BY <1>4, <2>18 DEF Abandon, KillUnobserved, Drop, Go, Return, Tidy
  <2>19. QED
    BY <2>2, <2>3, <2>4, <2>5, <2>6, <2>7, <2>8, <2>9, <2>10, <2>11, <2>12, <2>13,
       <2>14, <2>15, <2>16, <2>17, <2>18 DEF Thread
<1>5. QED
  BY <1>3, <1>4

\* Monitors and processes end what runs, and start nothing.
LEMMA TidyBears ==
  ASSUME NEW q \in Process, Tidy(q), pc'[q] = pc[q],
         monitor'[q] = "none" <=> monitor[q] = "none",
         root'[q] = root[q] \/ (root[q] = "running" /\ root'[q] = "exited"),
         rest'[q] \in {rest[q], "none"} \/ root[q] = "running"
  PROVE  Tidy(q)'
  BY DEF Tidy, Gone

LEMMA SupervisionTidies ==
  ASSUME IInv, NEW p \in Process, Sample(p) \/ Monitor(p) \/ Exit(p) \/ LeftoverExits(p),
         NEW q \in Process, Tidy(q)
  PROVE  Tidy(q)'
<1>1. /\ root \in [Process -> {"none", "running", "exited", "reaped"}]
      /\ rest \in [Process -> Leftovers \cup {"none"}]
      /\ monitor \in [Process -> {"none", "running", "failing", "killing", "cancelling",
                                  "signalling", "exited"}]
      /\ target[p] \subseteq Process
  BY Participants DEF IInv, TypeOK
<1>2. pc' = pc
  BY DEF Sample, Monitor, Fail, KillGroup, MarkCancelled, CancelTooLate, CancelHelper,
         StopSampling, Become, Exit, LeftoverExits, threads
<1>3. \/ monitor' = monitor
      \/ /\ monitor[p] # "none"
         /\ \E m \in {"running", "failing", "killing", "cancelling", "signalling", "exited"} :
              monitor' = [monitor EXCEPT ![p] = m]
  BY DEF Sample, Monitor, Fail, KillGroup, MarkCancelled, CancelTooLate, CancelHelper,
         StopSampling, Become, Exit, LeftoverExits, monitors
<1>4. monitor'[q] = "none" <=> monitor[q] = "none"
  BY <1>1, <1>3
<1>5. \/ root' = root /\ rest' = rest
      \/ \E r \in Process : Signal(r)
      \/ Exit(p) \/ LeftoverExits(p)
  BY <1>1 DEF Sample, Monitor, Fail, KillGroup, MarkCancelled, CancelTooLate, CancelHelper,
         StopSampling, processes
<1>6. /\ root'[q] = root[q] \/ (root[q] = "running" /\ root'[q] = "exited")
      /\ rest'[q] \in {rest[q], "none"} \/ root[q] = "running"
  <2>1. CASE root' = root /\ rest' = rest
    BY <2>1
  <2>2. ASSUME NEW r \in Process, Signal(r)
        PROVE  /\ root'[q] = root[q] \/ (root[q] = "running" /\ root'[q] = "exited")
               /\ rest'[q] \in {rest[q], "none"} \/ root[q] = "running"
    BY <1>1, <2>2 DEF Signal
  <2>3. CASE Exit(p)
    BY <1>1, <2>3 DEF Exit
  <2>4. CASE LeftoverExits(p)
    BY <1>1, <2>4 DEF LeftoverExits
  <2>5. QED
    BY <1>5, <2>1, <2>2, <2>3, <2>4
<1>7. QED
  BY <1>2, <1>4, <1>6, TidyBears

LEMMA MainTidies ==
  ASSUME IInv, Orderly, AllTidy, Main
  PROVE  AllTidy'
<1>1. TypeOK /\ Order /\ \A p \in Process : Stage(p) /\ Tidy(p)
  BY DEF IInv, AllTidy
<1>2. CASE SpawnHelper \/ StartWriter
  <2>1. PICK node \in Process : pc[node] = "idle" /\ pc' = [pc EXCEPT ![node] = "launching"]
    <3>1. CASE SpawnHelper
      <4>1. spawned + 1 \in DOMAIN Helpers /\ spawned + 1 > spawned
        BY <1>1, <3>1, Participants DEF SpawnHelper, TypeOK
      <4>2. QED
        BY <1>1, <3>1, <4>1, Participants DEF SpawnHelper, Order
    <3>2. CASE StartWriter
      BY <1>1, <3>2, Participants DEF StartWriter, Order
    <3>3. QED
      BY <1>2, <3>1, <3>2
  <2>2. /\ root' = root /\ rest' = rest /\ monitor' = monitor
        /\ main' \in {"spawning", "writing"}
    BY <1>2 DEF SpawnHelper, StartWriter, processes, monitors
  <2>3. pc \in [Process -> Locations]
    BY <1>1 DEF TypeOK
  <2>4. ASSUME NEW q \in Process PROVE Tidy(q)'
    <3>1. CASE q = node
      BY <1>1, <2>1, <2>2, <2>3, <3>1 DEF Tidy, Gone
    <3>2. CASE q # node
      BY <1>1, <2>1, <2>2, <2>3, <3>2, TidyStays
    <3>3. QED
      BY <3>1, <3>2
  <2>5. QED
    BY <2>2, <2>4 DEF AllTidy, Returned
<1>3. CASE AllSpawned \/ HelpersFailed \/ WriterReturned
  <2>1. pc' = pc /\ root' = root /\ rest' = rest /\ monitor' = monitor
    BY <1>3 DEF AllSpawned, HelpersFailed, WriterReturned, processes, monitors
  <2>2. \A q \in Process : Tidy(q)'
    BY <1>1, <2>1, TidyStays
  <2>3. CASE AllSpawned
    BY <2>2, <2>3 DEF AllSpawned, AllTidy, Returned
  <2>4. CASE HelpersFailed
    <3>1. \A q \in Process : pc[q] \in {"idle", "done"}
      BY <1>1, <2>4 DEF HelpersFailed, Order, Process
    <3>2. QED
      BY <2>1, <2>2, <3>1 DEF AllTidy
  <2>5. CASE WriterReturned
    <3>1. \A h \in Helper : result[h] = "ok"
      BY <1>1, <2>5 DEF WriterReturned, Order
    <3>2. \A h \in Helper : pc[h] = "done"
      BY <1>1, <3>1, Participants DEF Stage
    <3>3. \A q \in Process : pc[q] \in {"idle", "done"}
      BY <2>5, <3>2 DEF WriterReturned, Process
    <3>4. QED
      BY <2>1, <2>2, <3>3 DEF AllTidy
  <2>6. QED
    BY <1>3, <2>3, <2>4, <2>5
<1>4. CASE RefuseHelper
  BY <1>1, <1>4 DEF RefuseHelper, TypeOK, Orderly
<1>5. QED
  BY <1>2, <1>3, <1>4 DEF Main

LEMMA TidyStep == Orderly /\ IInv /\ AllTidy /\ [Next]_vars => AllTidy'
<1> SUFFICES ASSUME Orderly, IInv, AllTidy, [Next]_vars PROVE AllTidy'
  OBVIOUS
<1>1. ASSUME NEW p \in Process, Thread(p) PROVE AllTidy'
  <2>1. \A q \in Process : Tidy(q)'
    BY <1>1, ThreadTidies DEF AllTidy
  <2>2. main' = main /\ pc[p] \notin {"idle", "done"}
    BY <1>1 DEF Thread, Go, Return,
         LaunchFails, Launch, RecordStarted, StartedNotRecorded, Abandon, KillUnobserved,
         Attach, AttachFails, KillUnmonitored, Close, RecordAttributed, AttributedNotRecorded,
         Drop, Poll, FailClosed, Timeout, Terminate, StopMonitor, RecordEnd, EndNotRecorded,
         JoinStreams
  <2>3. QED
    BY <2>1, <2>2 DEF AllTidy, Returned
<1>2. ASSUME NEW p \in Process, Sample(p) \/ Monitor(p) \/ Exit(p) \/ LeftoverExits(p)
      PROVE  AllTidy'
  <2>1. \A q \in Process : Tidy(q)'
    BY <1>2, SupervisionTidies DEF AllTidy
  <2>2. main' = main /\ pc' = pc
    BY <1>2 DEF Sample, Monitor, Fail, KillGroup, MarkCancelled, CancelTooLate, CancelHelper,
         StopSampling, Become, Exit, LeftoverExits, threads
  <2>3. QED
    BY <2>1, <2>2 DEF AllTidy, Returned
<1>3. CASE UNCHANGED vars
  <2>1. UNCHANGED <<main, pc, root, rest, monitor>>
    BY <1>3 DEF vars, threads, processes, monitors
  <2>2. \A q \in Process : Tidy(q)'
    BY <2>1, TidyStays DEF AllTidy
  <2>3. QED
    BY <2>1, <2>2 DEF AllTidy, Returned
<1>4. QED
  BY <1>1, <1>2, <1>3, MainTidies DEF Next

\* Whether a run is orderly is settled when it begins.
LEMMA OrderlyIsGiven == [Next]_vars => (Orderly' <=> Orderly)
  BY DEF Next, vars, given, Orderly

\* When every event can be recorded, no child is refused and nothing silent is
\* left behind, the runtime returns only when all its processes and monitors are
\* gone, whether with success or with an error: join_child_agent_threads joins
\* them all, terminate_child reaps what it kills, and stop() joins the monitor.
THEOREM OrderlyReturn == Spec => []NothingLeftRunning
<1> DEFINE TidyInv == Orderly => AllTidy
<1>1. Init => TidyInv
  BY DEF Init, AllTidy, Tidy, Gone, Returned
<1>2. IInv /\ TidyInv => NothingLeftRunning
  BY DEF AllTidy, Tidy, Gone, NothingLeftRunning
<1>3. IInv /\ TidyInv /\ [Next]_vars => TidyInv'
  BY TidyStep, OrderlyIsGiven
<1>4. QED
  BY <1>1, <1>2, <1>3, Invariance, InitialState, PTL DEF Spec

-----------------------------------------------------------------------------
\* What is recorded of a process whose events can all be written.

Closed == <<"started", "terminated">>

\* What the artifact says of a process at each place of its thread, and that
\* its end is written only after it was reaped.
Life(p) ==
  /\ pc[p] \notin {"abandoning", "killing_unobserved", "dropping"}
  /\ pc[p] \in {"idle", "launching"} => root[p] = "none"
  /\ pc[p] \in {"idle", "launching", "recording_started"} => events[p] = <<>>
  /\ pc[p] \in {"attaching", "killing_unmonitored", "recording_attributed", "closing"} =>
       events[p] = <<"started">>
  /\ pc[p] \in {"waiting", "terminating", "joining_monitor", "recording_end"} =>
       events[p] = <<"started", "attributed">>
  /\ pc[p] = "joining_streams" => events[p] = Complete
  /\ pc[p] \in {"closing", "joining_monitor", "recording_end", "joining_streams"} =>
       root[p] = "reaped"
  /\ pc[p] = "done" =>
       \/ root[p] = "none" /\ events[p] = <<>>
       \/ root[p] = "reaped" /\ events[p] \in {Closed, Complete}

AllLives == \A p \in Process \ losing : Life(p)

LEMMA ClosedIsAppended == Append(<<"started">>, "terminated") = Closed
<1> DEFINE E == {"started", "attributed", "terminated"}
           One == <<"started">>
<1>1. \A s \in Seq(E), c \in E :
        /\ Append(s, c) \in Seq(E) /\ Len(Append(s, c)) = Len(s) + 1
        /\ Append(s, c)[Len(s) + 1] = c
        /\ \A i \in 1 .. Len(s) : Append(s, c)[i] = s[i]
  OBVIOUS
<1>2. One \in Seq(E) /\ Len(One) = 1 /\ One[1] = "started" /\ "terminated" \in E
  OBVIOUS
<1>3. Closed \in Seq(E) /\ Len(Closed) = 2 /\ Closed[1] = "started" /\ Closed[2] = "terminated"
  BY DEF Closed
<1> HIDE DEF E, One
<1>4. \A i \in 1 .. 2 : i = 1 \/ i = 2
  OBVIOUS
<1>5. /\ Append(One, "terminated") \in Seq(E) /\ Len(Append(One, "terminated")) = 2
      /\ \A i \in 1 .. 2 : Append(One, "terminated")[i] = Closed[i]
  <2>1. /\ Append(One, "terminated") \in Seq(E) /\ Len(Append(One, "terminated")) = Len(One) + 1
        /\ Append(One, "terminated")[Len(One) + 1] = "terminated"
        /\ \A i \in 1 .. Len(One) : Append(One, "terminated")[i] = One[i]
    BY <1>1, <1>2
  <2>2. Append(One, "terminated")[2] = "terminated" /\ Append(One, "terminated")[1] = "started"
    BY <1>2, <2>1
  <2>3. QED
    BY <1>2, <1>3, <1>4, <2>1, <2>2
<1>6. QED
  BY <1>3, <1>5, SeqEqual DEF One

\* An artifact that says that a process ended says so once.
LEMMA EndsOnce ==
  /\ \A s \in {<<>>, <<"started">>, <<"started", "attributed">>} :
       \A i \in DOMAIN s : s[i] # "terminated"
  /\ \A s \in {Closed, Complete} :
       \E i \in DOMAIN s : \A j \in DOMAIN s : s[j] = "terminated" <=> j = i
<1>1. \A i \in DOMAIN <<>> : <<>>[i] # "terminated"
  OBVIOUS
<1>2. \A i \in DOMAIN <<"started">> : <<"started">>[i] # "terminated"
  OBVIOUS
<1>3. \A i \in DOMAIN <<"started", "attributed">> : <<"started", "attributed">>[i] # "terminated"
  OBVIOUS
<1>4. \E i \in DOMAIN Closed : \A j \in DOMAIN Closed : Closed[j] = "terminated" <=> j = i
  <2>1. DOMAIN Closed = {1, 2} /\ Closed[1] = "started" /\ Closed[2] = "terminated"
    BY DEF Closed
  <2>2. QED
    BY <2>1
<1>5. \E i \in DOMAIN Complete : \A j \in DOMAIN Complete : Complete[j] = "terminated" <=> j = i
  <2>1. /\ DOMAIN Complete = {1, 2, 3}
        /\ Complete[1] = "started" /\ Complete[2] = "attributed" /\ Complete[3] = "terminated"
    BY DEF Complete
  <2>2. QED
    BY <2>1
<1>6. QED
  BY <1>1, <1>2, <1>3, <1>4, <1>5

\* A step that changes nothing of a process's thread, and at most lets the
\* process exit.
LEMMA LifeStays ==
  ASSUME NEW q \in Process, Life(q), pc'[q] = pc[q], events'[q] = events[q],
         root'[q] = root[q] \/ (root[q] = "running" /\ root'[q] = "exited")
  PROVE  Life(q)'
  BY DEF Life

\* A thread carries on the life of its own process.
LEMMA ThreadLives ==
  ASSUME IInv, NEW p \in Process \ losing, Thread(p), Life(p)
  PROVE  Life(p)'
<1>1. /\ pc \in [Process -> Locations]
      /\ root \in [Process -> {"none", "running", "exited", "reaped"}]
      /\ events \in [Process -> Seq({"started", "attributed", "terminated"})]
  BY DEF IInv, TypeOK
<1>2. p \in Process /\ p \notin losing
  OBVIOUS
<1>3. CASE LaunchFails(p)
  BY <1>1, <1>3 DEF LaunchFails, Return, processes, Life
<1>4. CASE Launch(p)
  BY <1>1, <1>4 DEF Launch, Go, Life
<1>5. CASE RecordStarted(p)
  <2>1. pc[p] = "recording_started" /\ pc'[p] = "attaching" /\ root' = root
    BY <1>1, <1>5 DEF RecordStarted, Go, processes
  <2>2. events'[p] = Append(events[p], "started")
    BY <1>1, <1>5, WriteIsTyped DEF RecordStarted
  <2>3. QED
    BY <2>1, <2>2, Appended DEF Life
<1>6. CASE Attach(p)
  BY <1>1, <1>6 DEF Attach, Go, processes, Life
<1>7. CASE AttachFails(p)
  BY <1>1, <1>7 DEF AttachFails, Go, processes, Life
<1>8. CASE KillUnmonitored(p)
  BY <1>1, <1>8 DEF KillUnmonitored, Go, KillAndReap, Life
<1>9. CASE Close(p)
  <2>1. pc[p] = "closing" /\ pc'[p] = "done" /\ root' = root
    BY <1>1, <1>9 DEF Close, Return, processes
  <2>2. events'[p] = Append(events[p], "terminated")
    BY <1>1, <1>2, <1>9, WriteIsTyped DEF Close, Attempts
  <2>3. QED
    BY <2>1, <2>2, ClosedIsAppended DEF Life
<1>10. CASE RecordAttributed(p)
  <2>1. pc[p] = "recording_attributed" /\ pc'[p] = "waiting" /\ root' = root
    BY <1>1, <1>10 DEF RecordAttributed, Go, processes
  <2>2. events'[p] = Append(events[p], "attributed")
    BY <1>1, <1>10, WriteIsTyped DEF RecordAttributed
  <2>3. QED
    BY <2>1, <2>2, Appended DEF Life
<1>11. CASE Poll(p)
  BY <1>1, <1>11 DEF Poll, Go, AfterWait, Life
<1>12. CASE FailClosed(p)
  BY <1>1, <1>12 DEF FailClosed, Go, processes, Life
<1>13. CASE Timeout(p)
  BY <1>1, <1>13 DEF Timeout, Go, processes, Life
<1>14. CASE Terminate(p)
  BY <1>1, <1>14 DEF Terminate, Go, AfterWait, KillAndReap, Life
<1>15. CASE StopMonitor(p)
  BY <1>1, <1>15 DEF StopMonitor, Go, processes, Life
<1>16. CASE RecordEnd(p)
  <2>1. pc[p] = "recording_end" /\ pc'[p] = "joining_streams" /\ root' = root
    BY <1>1, <1>16 DEF RecordEnd, Go, processes
  <2>2. events'[p] = Append(events[p], "terminated")
    BY <1>1, <1>2, <1>16, WriteIsTyped DEF RecordEnd, Attempts
  <2>3. QED
    BY <2>1, <2>2, Appended DEF Life
<1>17. CASE JoinStreams(p)
  BY <1>1, <1>17 DEF JoinStreams, Return, processes, Life
<1>18. CASE StartedNotRecorded(p) \/ AttributedNotRecorded(p) \/ EndNotRecorded(p)
  BY <1>2, <1>18 DEF StartedNotRecorded, AttributedNotRecorded, EndNotRecorded
<1>19. CASE Abandon(p) \/ KillUnobserved(p) \/ Drop(p)
  BY <1>19 DEF Abandon, KillUnobserved, Drop, Go, Return, Life
<1>20. QED
  BY <1>3, <1>4, <1>5, <1>6, <1>7, <1>8, <1>9, <1>10, <1>11, <1>12, <1>13, <1>14, <1>15,
     <1>16, <1>17, <1>18, <1>19 DEF Thread

\* Another process's thread has no part in it.
LEMMA OthersLive ==
  ASSUME IInv, NEW p \in Process, Thread(p), NEW q \in Process, q # p, Life(q)
  PROVE  Life(q)'
<1>1. pc'[q] = pc[q] /\ root'[q] = root[q]
  BY DEF IInv, TypeOK, Thread, Go, Return, KillAndReap, processes,
         LaunchFails, Launch, RecordStarted, StartedNotRecorded, Abandon, KillUnobserved,
         Attach, AttachFails, KillUnmonitored, Close, RecordAttributed, AttributedNotRecorded,
         Drop, Poll, FailClosed, Timeout, Terminate, StopMonitor, RecordEnd, EndNotRecorded,
         JoinStreams
<1>2. events'[q] = events[q]
  BY DEF IInv, TypeOK, Thread, Write,
         LaunchFails, Launch, RecordStarted, StartedNotRecorded, Abandon, KillUnobserved,
         Attach, AttachFails, KillUnmonitored, Close, RecordAttributed, AttributedNotRecorded,
         Drop, Poll, FailClosed, Timeout, Terminate, StopMonitor, RecordEnd, EndNotRecorded,
         JoinStreams
<1>3. QED
  BY <1>1, <1>2, LifeStays

\* Nor have the monitors, and what a process does by itself.
LEMMA SupervisionLives ==
  ASSUME IInv, NEW p \in Process, Sample(p) \/ Monitor(p) \/ Exit(p) \/ LeftoverExits(p),
         NEW q \in Process, Life(q)
  PROVE  Life(q)'
<1>1. /\ root \in [Process -> {"none", "running", "exited", "reaped"}]
      /\ target[p] \subseteq Process
  BY Participants DEF IInv, TypeOK
<1>2. pc' = pc /\ events' = events
  BY DEF Sample, Monitor, Fail, KillGroup, MarkCancelled, CancelTooLate, CancelHelper,
         StopSampling, Become, Exit, LeftoverExits, threads
<1>3. \/ root' = root
      \/ \E r \in Process : Signal(r)
      \/ Exit(p)
  BY <1>1 DEF Sample, Monitor, Fail, KillGroup, MarkCancelled, CancelTooLate, CancelHelper,
         StopSampling, LeftoverExits, processes
<1>4. root'[q] = root[q] \/ (root[q] = "running" /\ root'[q] = "exited")
  BY <1>1, <1>3 DEF Signal, Exit
<1>5. QED
  BY <1>2, <1>4, LifeStays

LEMMA MainLives ==
  ASSUME IInv, Main, NEW q \in Process, Life(q)
  PROVE  Life(q)'
<1>1. events' = events /\ root' = root
  BY DEF Main, SpawnHelper, RefuseHelper, AllSpawned, HelpersFailed, StartWriter,
         WriterReturned, processes
<1>2. \/ pc' = pc
      \/ \E node \in Process : pc[node] = "idle" /\ pc' = [pc EXCEPT ![node] = "launching"]
  <2>1. CASE SpawnHelper
    <3>1. spawned + 1 \in DOMAIN Helpers /\ spawned + 1 > spawned
      BY <2>1, Participants DEF SpawnHelper, IInv, TypeOK
    <3>2. QED
      BY <2>1, <3>1, Participants DEF SpawnHelper, IInv, Order
  <2>2. CASE StartWriter
    BY <2>2, Participants DEF StartWriter, IInv, Order
  <2>3. CASE RefuseHelper \/ AllSpawned \/ HelpersFailed \/ WriterReturned
    BY <2>3 DEF RefuseHelper, AllSpawned, HelpersFailed, WriterReturned
  <2>4. QED
    BY <2>1, <2>2, <2>3 DEF Main
<1>3. pc'[q] = pc[q] \/ (pc[q] = "idle" /\ pc'[q] = "launching")
  BY <1>2 DEF IInv, TypeOK
<1>4. QED
  BY <1>1, <1>3 DEF Life

LEMMA LifeStep == IInv /\ AllLives /\ [Next]_vars => AllLives'
<1> SUFFICES ASSUME IInv, AllLives, [Next]_vars PROVE AllLives'
  OBVIOUS
<1>1. ASSUME NEW p \in Process, Thread(p), NEW q \in Process \ losing PROVE Life(q)'
  <2>1. CASE q = p
    BY <1>1, <2>1, ThreadLives DEF AllLives
  <2>2. CASE q # p
    BY <1>1, <2>2, OthersLive DEF AllLives
  <2>3. QED
    BY <2>1, <2>2
<1>2. ASSUME NEW p \in Process, Sample(p) \/ Monitor(p) \/ Exit(p) \/ LeftoverExits(p),
             NEW q \in Process \ losing
      PROVE  Life(q)'
  BY <1>2, SupervisionLives DEF AllLives
<1>3. ASSUME Main, NEW q \in Process \ losing PROVE Life(q)'
  BY <1>3, MainLives DEF AllLives
<1>4. ASSUME UNCHANGED vars, NEW q \in Process \ losing PROVE Life(q)'
  BY <1>4, LifeStays DEF vars, threads, processes, AllLives
<1>5. losing' = losing
  BY DEF Next, vars, given
<1>6. QED
  BY <1>1, <1>2, <1>3, <1>4, <1>5 DEF Next, AllLives

\* A process whose events can be written is recorded to have ended once, and
\* only after it was reaped, whoever killed it and whatever failed besides.
THEOREM EndsAreRecorded == Spec => []EndIsRecorded
<1>1. Init => AllLives
  BY DEF Init, AllLives, Life
<1>2. IInv /\ AllLives => EndIsRecorded
  <2> SUFFICES ASSUME IInv, AllLives, NEW p \in Process \ losing
               PROVE  /\ "terminated" \in {events[p][i] : i \in DOMAIN events[p]} =>
                           root[p] = "reaped"
                      /\ pc[p] = "done" /\ root[p] # "none" =>
                           \E i \in DOMAIN events[p] :
                             \A j \in DOMAIN events[p] : events[p][j] = "terminated" <=> j = i
    BY DEF EndIsRecorded
  <2>1. Life(p) /\ pc[p] \in Locations
    BY DEF AllLives, IInv, TypeOK
  <2>2. \/ events[p] \in {<<>>, <<"started">>, <<"started", "attributed">>} /\
             (pc[p] = "done" => root[p] = "none")
        \/ events[p] \in {Closed, Complete} /\ root[p] = "reaped"
    BY <2>1 DEF Life, Locations
  <2>3. QED
    BY <2>2, EndsOnce
<1>3. QED
  BY <1>1, <1>2, LifeStep, Invariance, InitialState, PTL DEF Spec
=============================================================================
