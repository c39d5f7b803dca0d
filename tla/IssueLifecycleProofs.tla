------------------------ MODULE IssueLifecycleProofs ------------------------
(***************************************************************************)
(* Theorems about IssueLifecycle, for any runs, commands, policy, expiry   *)
(* and bounds.                                                             *)
(***************************************************************************)
EXTENDS IssueLifecycle, TLAPS

USE DEF GoTo, Record

LEMMA ModeTypes ==
  ASSUME NEW mode
  PROVE  Removes(mode) \in Seq(Labels) /\ Adds(mode) \subseteq Labels
<1>1. /\ <<"claimed", "failed", "running">> \in Seq(Labels)
      /\ <<"running">> \in Seq(Labels)
  BY DEF Labels
<1>2. Removes(mode) \in Seq(Labels)
  BY <1>1 DEF Removes
<1>3. CASE mode = "finalized"
  BY <1>2, <1>3 DEF Adds, Labels
<1>4. CASE mode = "failed"
  BY <1>2, <1>4 DEF Adds, Labels
<1>5. CASE mode # "finalized" /\ mode # "failed"
  BY <1>2, <1>5 DEF Adds, Labels
<1>6. QED
  BY <1>3, <1>4, <1>5

LEMMA CountUp ==
  ASSUME NEW S, NEW f \in [S -> Nat], NEW m
  PROVE  [f EXCEPT ![m] = @ + 1] \in [S -> Nat]
<1>1. \A k \in S : f[k] \in Nat /\ f[k] + 1 \in Nat
  OBVIOUS
<1>2. QED
  BY <1>1, Zenon

LEMMA ShortenOne ==
  ASSUME NEW S, NEW T, NEW f \in [S -> Seq(T)], NEW a \in S, Tail(f[a]) \in Seq(T)
  PROVE  [f EXCEPT ![a] = Tail(@)] \in [S -> Seq(T)]
  BY Zenon

\* A label that was just a 404 is still the next one to remove.
GoneIsNext == \A a \in Actor : pc[a] = "gone" => todo[a] # <<>>

LEMMA TypeInvariant == Spec => [](TypeOK /\ GoneIsNext)
<1>1. Init => TypeOK /\ GoneIsNext
  BY ConstantsAssumption DEF Init, TypeOK, Modes, Actor, GoneIsNext
<1>2. TypeOK /\ GoneIsNext /\ [Next]_vars => TypeOK'
  <2> SUFFICES ASSUME TypeOK, GoneIsNext, [Next]_vars PROVE TypeOK'
    OBVIOUS
  <2> USE ConstantsAssumption DEF TypeOK, Actor, ClaimSteps, ReleaseSteps,
                                  remote, files, locals
  <2>1. ASSUME NEW r \in Run, FetchForClaim(r) PROVE TypeOK'
    BY <2>1 DEF FetchForClaim
  <2>2. ASSUME NEW r \in Run, ScanMarkers(r) PROVE TypeOK'
    <3>1. CASE LiveForeign(r) = {}
      <4>1. Marked \ {r} \subseteq Run
        BY DEF Marked
      <4>2. seen' \in [Run -> SUBSET Run]
        BY <2>2, <3>1, <4>1 DEF ScanMarkers
      <4>3. QED
        BY <2>2, <3>1, <4>2 DEF ScanMarkers
    <3>2. CASE LiveForeign(r) # {}
      BY <2>2, <3>2 DEF ScanMarkers
    <3>3. QED
      BY <3>1, <3>2
  <2>3. ASSUME NEW r \in Run, PostMarker(r) PROVE TypeOK'
    BY <2>3 DEF PostMarker
  <2>4. ASSUME NEW r \in Run, AddClaimLabels(r) PROVE TypeOK'
    BY <2>4 DEF AddClaimLabels, Labels
  <2>5. ASSUME NEW r \in Run, RereadIssue(r) PROVE TypeOK'
    BY <2>5 DEF RereadIssue
  <2>6. ASSUME NEW r \in Run, RecheckMarker(r) PROVE TypeOK'
    BY <2>6 DEF RecheckMarker
  <2>7. ASSUME NEW r \in Run, Work(r) PROVE TypeOK'
    <3>1. CASE RuntimeFails(r)
      BY <3>1 DEF RuntimeFails, StartRelease, Modes
    <3>2. ASSUME NEW verdict \in {"failed", "passed"}, GatesRun(r, verdict) PROVE TypeOK'
      <4>1. (IF verdict = "passed" THEN SuccessMode ELSE "failed") \in Modes
        BY DEF SuccessMode, Modes
      <4>2. req' \in [Actor -> [run : Actor, mode : Modes \cup {"none"}]]
        BY <3>2, <4>1 DEF GatesRun, StartRelease
      <4>3. QED
        BY <3>2, <4>2 DEF GatesRun, StartRelease
    <3>3. QED
      BY <2>7, <3>1, <3>2 DEF Work
  <2>8. ASSUME NEW c \in Command, Finalize(c) PROVE TypeOK'
    BY <2>8 DEF Finalize, StartFinalize, StartRelease, Modes
  <2>9. ASSUME NEW a \in Actor, Release(a) PROVE TypeOK'
    <3>1. CASE ListSummaries(a)
      BY <3>1 DEF ListSummaries
    <3>2. CASE PostSummary(a)
      <4>1. summaries' \in [Run -> [Modes -> Nat]]
        <5> DEFINE r == req[a].run
        <5>1. CASE r \in Run
          <6>1. [summaries[r] EXCEPT ![req[a].mode] = @ + 1] \in [Modes -> Nat]
            <7>1. summaries[r] \in [Modes -> Nat]
              BY <5>1
            <7>2. QED
              BY <7>1, CountUp
          <6>2. QED
            BY <3>2, <5>1, <6>1 DEF PostSummary
        <5>2. CASE r \notin Run
          BY <3>2, <5>2 DEF PostSummary
        <5>3. QED
          BY <5>1, <5>2
      <4>2. QED
        BY <3>2, <4>1 DEF PostSummary
    <3>3. CASE AddLabels(a)
      BY <3>3, ModeTypes DEF AddLabels
    <3>4. CASE RemoveLabel(a)
      <4>1. CASE Head(todo[a]) \in labels
        <5>1. labels' \subseteq Labels /\ Tail(todo[a]) \in Seq(Labels)
          BY <3>4, <4>1 DEF RemoveLabel
        <5>2. todo' \in [Actor -> Seq(Labels)]
          <6>1. todo' = [todo EXCEPT ![a] = Tail(@)] /\ todo \in [Actor -> Seq(Labels)]
            BY <3>4, <4>1 DEF RemoveLabel
          <6>2. QED
            BY <5>1, <6>1, ShortenOne
        <5>3. QED
          BY <3>4, <4>1, <5>1, <5>2 DEF RemoveLabel
      <4>2. CASE Head(todo[a]) \notin labels
        BY <3>4, <4>2 DEF RemoveLabel
      <4>3. QED
        BY <4>1, <4>2
    <3>5. CASE CheckGone(a)
      <4>1. Tail(todo[a]) \in Seq(Labels)
        BY <3>5 DEF CheckGone, GoneIsNext
      <4>2. QED
        <5>1. CASE Head(todo[a]) \in labels
          BY <3>5, <5>1 DEF CheckGone
        <5>2. CASE Head(todo[a]) \notin labels
          <6>1. todo' \in [Actor -> Seq(Labels)]
            <7>1. todo' = [todo EXCEPT ![a] = Tail(@)] /\ todo \in [Actor -> Seq(Labels)]
              BY <3>5, <5>2 DEF CheckGone
            <7>2. QED
              BY <4>1, <7>1, ShortenOne
          <6>2. QED
            BY <3>5, <5>2, <6>1 DEF CheckGone
        <5>3. QED
          BY <5>1, <5>2
    <3>6. CASE Settle(a)
      BY <3>6 DEF Settle
    <3>7. CASE Confirm(a)
      BY <3>7 DEF Confirm
    <3>8. CASE RecordStatus(a)
      BY <3>8 DEF RecordStatus
    <3>9. QED
      BY <2>9, <3>1, <3>2, <3>3, <3>4, <3>5, <3>6, <3>7, <3>8 DEF Release
  <2>10. ASSUME NEW a \in Actor, Abort(a) PROVE TypeOK'
    BY <2>10 DEF Abort
  <2>11. CASE Edit
    <3>1. labels' \subseteq Labels
      BY <2>11 DEF Edit, Labels
    <3>2. QED
      BY <2>11, <3>1 DEF Edit
  <2>12. CASE Tick
    BY <2>12 DEF Tick
  <2>13. CASE UNCHANGED vars
    BY <2>13 DEF vars
  <2>14. QED
    BY <2>1, <2>2, <2>3, <2>4, <2>5, <2>6, <2>7, <2>8, <2>9, <2>10, <2>11, <2>12, <2>13
       DEF Next, Claim
<1>3. TypeOK /\ GoneIsNext /\ [Next]_vars => GoneIsNext'
  <2> SUFFICES ASSUME TypeOK, GoneIsNext, [Next]_vars PROVE GoneIsNext'
    OBVIOUS
  <2> USE DEF TypeOK, Actor, GoneIsNext
  <2>1. CASE \E r \in Run : Claim(r)
    BY <2>1 DEF Claim, FetchForClaim, ScanMarkers, PostMarker, AddClaimLabels, RereadIssue,
                RecheckMarker, locals
  <2>2. CASE \E r \in Run : Work(r)
    BY <2>2 DEF Work, RuntimeFails, GatesRun, StartRelease
  <2>3. CASE \E c \in Command : Finalize(c)
    BY <2>3 DEF Finalize, StartFinalize, StartRelease
  <2>4. ASSUME NEW a \in Actor, Release(a) PROVE GoneIsNext'
    <3>1. CASE RemoveLabel(a)
      BY <3>1 DEF RemoveLabel
    <3>2. CASE CheckGone(a)
      BY <3>2 DEF CheckGone
    <3>3. CASE ~RemoveLabel(a) /\ ~CheckGone(a)
      BY <2>4, <3>3 DEF Release, ListSummaries, PostSummary, AddLabels, Settle, Confirm,
                        RecordStatus, locals
    <3>4. QED
      BY <3>1, <3>2, <3>3
  <2>5. CASE (\E a \in Actor : Abort(a)) \/ Edit \/ Tick \/ UNCHANGED vars
    BY <2>5 DEF Abort, Edit, Tick, vars, locals
  <2>6. QED
    BY <2>1, <2>2, <2>3, <2>4, <2>5 DEF Next
<1>4. QED
  BY <1>1, <1>2, <1>3, PTL DEF Spec

\* Every variable of the issue, the files and the actors keeps its type.
THEOREM TypeCorrect == Spec => []TypeOK
  BY TypeInvariant, PTL

(***************************************************************************)
(* The claim.  A run's marker is posted once, after its scan, so a marker  *)
(* that another run's scan has returned keeps the expiry the scan saw, and *)
(* the scan went on only if that had passed.                               *)
(***************************************************************************)
UnpostedBeforeScan ==
  \A r \in Run : pc[r] \in {"idle", "scan", "mark"} => marker[r] = 0

SeenHasExpired ==
  \A r, q \in Run : q \in seen[r] => marker[q] # 0 /\ marker[q] <= clock

ClaimInv == UnpostedBeforeScan /\ SeenHasExpired

LEMMA ClaimStep == TypeOK /\ ClaimInv /\ [Next]_vars => ClaimInv'
<1> SUFFICES ASSUME TypeOK, ClaimInv, [Next]_vars PROVE ClaimInv'
  OBVIOUS
<1> USE ConstantsAssumption DEF ClaimInv, UnpostedBeforeScan, SeenHasExpired, Actor
<1>t. /\ marker \in [Run -> Nat] /\ clock \in Nat
      /\ pc \in [Actor -> {"idle", "working", "ended"} \cup ClaimSteps \cup ReleaseSteps]
      /\ seen \in [Run -> SUBSET Run] /\ expiry \in [Run -> Nat]
  BY DEF TypeOK
<1>1. ASSUME NEW r \in Run, ScanMarkers(r) PROVE ClaimInv'
  <2>1. CASE LiveForeign(r) = {}
    <3>1. \A q \in Marked \ {r} : marker[q] # 0 /\ marker[q] <= clock
      BY <1>t, <2>1 DEF LiveForeign, Marked
    <3>2. QED
      BY <1>1, <1>t, <2>1, <3>1 DEF ScanMarkers, remote
  <2>2. CASE LiveForeign(r) # {}
    BY <1>1, <1>t, <2>2 DEF ScanMarkers, remote
  <2>3. QED
    BY <2>1, <2>2
<1>2. ASSUME NEW r \in Run, PostMarker(r) PROVE ClaimInv'
  BY <1>2, <1>t DEF PostMarker, locals
<1>3. CASE Tick
  BY <1>3, <1>t DEF Tick, locals, remote
<1>4. ASSUME UNCHANGED <<clock, marker, seen>>,
             \A r \in Run : pc'[r] \in {"idle", "scan", "mark"} =>
                              pc[r] \in {"idle", "scan", "mark"}
      PROVE  ClaimInv'
  BY <1>4
<1>5. ASSUME NEW r \in Run,
             FetchForClaim(r) \/ AddClaimLabels(r) \/ RereadIssue(r) \/ RecheckMarker(r)
      PROVE  ClaimInv'
  BY <1>5, <1>t, <1>4
     DEF FetchForClaim, AddClaimLabels, RereadIssue, RecheckMarker, remote, locals
<1>6. ASSUME NEW r \in Run, Work(r) PROVE ClaimInv'
  BY <1>6, <1>t, <1>4 DEF Work, RuntimeFails, GatesRun, StartRelease, remote
<1>7. ASSUME NEW c \in Command, Finalize(c) PROVE ClaimInv'
  BY <1>7, <1>t, <1>4 DEF Finalize, StartFinalize, StartRelease, remote
<1>8. ASSUME NEW a \in Actor, Release(a) \/ Abort(a) PROVE ClaimInv'
  BY <1>8, <1>t, <1>4 DEF Release, ListSummaries, PostSummary, AddLabels, RemoveLabel,
     CheckGone, Settle, Confirm, RecordStatus, Abort, remote, locals
<1>9. CASE Edit \/ UNCHANGED vars
  BY <1>9, <1>4 DEF Edit, vars, remote, locals
<1>10. QED
  BY <1>1, <1>2, <1>3, <1>5, <1>6, <1>7, <1>8, <1>9 DEF Next, Claim

\* Two live claims are held at once only if each run's scan preceded the
\* other's marker.
THEOREM RaceOnly == Spec => []OverlapOnlyByRace
<1>1. Init => ClaimInv
  BY DEF Init, ClaimInv, UnpostedBeforeScan, SeenHasExpired
<1>2. ClaimInv => OverlapOnlyByRace
  BY DEF ClaimInv, SeenHasExpired, OverlapOnlyByRace
<1>3. QED
  BY <1>1, <1>2, ClaimStep, TypeCorrect, PTL DEF Spec

(***************************************************************************)
(* The approval.  Only a release in mode "finalized" adds the done label   *)
(* or closes the issue; under require_human_review no run starts one; and  *)
(* the verdict an approved command has read is never written again,        *)
(* because the gates of a run are over once they have one.                 *)
(***************************************************************************)
RunsNeverFinalize ==
  \A r \in Run : req[r].mode # "finalized"

ApprovedPassed ==
  \A c \in Command :
    req[c].mode = "finalized" => req[c].run \in Run /\ quality[req[c].run] = "passed"

VerdictIsFinal ==
  \A r \in Run : quality[r] # "none" => pc[r] \in ReleaseSteps \cup {"ended"}

TerminalIsApproved ==
  state = "closed" \/ "done" \in labels => \E c \in Command : req[c].mode = "finalized"

\* A command starts once.
StartsOnce == \A c \in Command : req[c].mode # "none" => pc[c] # "idle"

ApprovalInv ==
  /\ RunsNeverFinalize
  /\ ApprovedPassed
  /\ VerdictIsFinal
  /\ StartsOnce
  /\ TerminalIsApproved

LEMMA ApprovalStep ==
  Policy = "require_human_review" /\ TypeOK /\ ApprovalInv /\ [Next]_vars => ApprovalInv'
<1> SUFFICES ASSUME Policy = "require_human_review", TypeOK, ApprovalInv, [Next]_vars
             PROVE  ApprovalInv'
  OBVIOUS
<1> USE ConstantsAssumption DEF Actor
<1>t. /\ pc \in [Actor -> {"idle", "working", "ended"} \cup ClaimSteps \cup ReleaseSteps]
      /\ quality \in [Run -> {"none", "failed", "passed"}]
      /\ req \in [Actor -> [run : Actor, mode : Modes \cup {"none"}]]
      /\ Run \cap Command = {}
  BY DEF TypeOK
<1>1. ASSUME NEW r \in Run, Claim(r) PROVE ApprovalInv'
  <2>1. UNCHANGED <<state, req, quality>> /\ ("done" \in labels' => "done" \in labels)
    BY <1>1 DEF Claim, FetchForClaim, ScanMarkers, PostMarker, AddClaimLabels, RereadIssue,
                RecheckMarker, remote, files, locals
  <2>2. /\ \A c \in Command : pc'[c] = pc[c]
        /\ \A q \in Run \ {r} : pc'[q] = pc[q]
        /\ pc[r] \notin ReleaseSteps \cup {"ended"}
    BY <1>1, <1>t DEF Claim, FetchForClaim, ScanMarkers, PostMarker, AddClaimLabels,
                RereadIssue, RecheckMarker, ReleaseSteps
  <2>3. QED
    BY <2>1, <2>2 DEF ApprovalInv, RunsNeverFinalize, ApprovedPassed, VerdictIsFinal,
                      StartsOnce, TerminalIsApproved
<1>2. ASSUME NEW r \in Run, Work(r) PROVE ApprovalInv'
  <2>1. /\ pc[r] = "working" /\ pc' = [pc EXCEPT ![r] = "summary"]
        /\ UNCHANGED <<state, labels>>
        /\ \E mode \in Modes \ {"finalized"} :
             req' = [req EXCEPT ![r] = [run |-> r, mode |-> mode]]
        /\ \A q \in Run \ {r} : quality'[q] = quality[q]
    BY <1>2, <1>t DEF Work, RuntimeFails, GatesRun, StartRelease, SuccessMode, Modes, remote
  <2>2. quality[r] = "none"
    BY <2>1 DEF ApprovalInv, VerdictIsFinal, ReleaseSteps
  <2>3. \A c \in Command : req'[c] = req[c] /\ pc'[c] = pc[c]
    BY <2>1, <1>t
  <2>4. QED
    BY <1>t, <2>1, <2>2, <2>3
       DEF ApprovalInv, RunsNeverFinalize, ApprovedPassed, VerdictIsFinal, StartsOnce,
           TerminalIsApproved, ReleaseSteps
<1>3. ASSUME NEW c \in Command, NEW r \in Run, NEW decision \in {"approve", "reject"},
             NEW resume \in BOOLEAN, StartFinalize(c, r, decision, resume)
      PROVE  ApprovalInv'
  <2>1. /\ pc[c] = "idle" /\ pc' = [pc EXCEPT ![c] = "summary"]
        /\ UNCHANGED <<state, labels, quality>>
        /\ req' = [req EXCEPT ![c] = [run |-> r, mode |-> IF decision = "approve"
                                        THEN "finalized" ELSE "review_rejected"]]
        /\ decision = "approve" => quality[r] = "passed"
    BY <1>3 DEF StartFinalize, StartRelease, QualityPermits, remote, files
  <2>2. \A a \in Actor \ {c} : req'[a] = req[a] /\ pc'[a] = pc[a]
    BY <2>1, <1>t
  <2>3. req[c].mode # "finalized"
    BY <2>1 DEF ApprovalInv, StartsOnce
  <2>4. QED
    BY <1>t, <2>1, <2>2, <2>3
       DEF ApprovalInv, RunsNeverFinalize, ApprovedPassed, VerdictIsFinal, StartsOnce,
           TerminalIsApproved
<1>4. ASSUME NEW a \in Actor, Release(a) \/ Abort(a) PROVE ApprovalInv'
  <2>1. UNCHANGED <<req, quality>>
    BY <1>4 DEF Release, ListSummaries, PostSummary, AddLabels, RemoveLabel, CheckGone,
                Settle, Confirm, RecordStatus, Abort, files, locals
  <2>2. (state' = "closed" \/ "done" \in labels') =>
          state = "closed" \/ "done" \in labels \/ req[a].mode = "finalized"
    BY <1>4 DEF Release, ListSummaries, PostSummary, AddLabels, RemoveLabel, CheckGone,
                Settle, Confirm, RecordStatus, Abort, remote, Adds, Closes
  <2>3. /\ pc[a] # "idle" /\ pc'[a] # "idle"
        /\ \A b \in Actor \ {a} : pc'[b] = pc[b]
        /\ pc[a] \in ReleaseSteps \cup {"ended"} => pc'[a] \in ReleaseSteps \cup {"ended"}
    BY <1>4, <1>t DEF Release, ListSummaries, PostSummary, AddLabels, RemoveLabel,
                CheckGone, Settle, Confirm, RecordStatus, Abort, ReleaseSteps
  <2>4. QED
    BY <2>1, <2>2, <2>3
       DEF ApprovalInv, RunsNeverFinalize, ApprovedPassed, VerdictIsFinal, StartsOnce,
           TerminalIsApproved
<1>5. CASE Edit \/ Tick \/ UNCHANGED vars
  BY <1>5 DEF Edit, Tick, vars, remote, files, locals, ApprovalInv, RunsNeverFinalize,
              ApprovedPassed, VerdictIsFinal, StartsOnce, TerminalIsApproved
<1>6. QED
  BY <1>1, <1>2, <1>3, <1>4, <1>5 DEF Next, Finalize

\* Under require_human_review the issue is closed or labelled done only by an
\* approved command of a run whose gates passed.
THEOREM Approval == Spec => []TerminalMutationNeedsApproval
<1>1. CASE Policy = "require_human_review"
  <2>1. Init => ApprovalInv
    BY DEF Init, Actor, ApprovalInv, RunsNeverFinalize, ApprovedPassed, VerdictIsFinal,
           StartsOnce, TerminalIsApproved
  <2>2. ApprovalInv => TerminalMutationNeedsApproval
    BY DEF ApprovalInv, ApprovedPassed, TerminalIsApproved, TerminalMutationNeedsApproval
  <2>3. TypeOK /\ ApprovalInv /\ [Next]_vars => ApprovalInv'
    BY <1>1, ApprovalStep
  <2>4. QED
    BY <2>1, <2>2, <2>3, TypeCorrect, PTL DEF Spec
<1>2. CASE Policy # "require_human_review"
  <2>1. TerminalMutationNeedsApproval
    BY <1>2 DEF TerminalMutationNeedsApproval
  <2>2. QED
    BY <2>1, PTL
<1>3. QED
  BY <1>1, <1>2

(***************************************************************************)
(* Commands follow their run.  A status is recorded for a run when it      *)
(* ends, and a command is let through by a recorded status: only commands  *)
(* can be under way for one run at the same time, and once a failed run is *)
(* recorded they all reject it.                                            *)
(***************************************************************************)
Busy(a) == pc[a] \in ReleaseSteps

RunsReleaseThemselves == \A r \in Run : req[r].run = r
RecordedLate == \A r \in Run : pc[r] # "ended" => recorded[r] = "none"
CommandsOnlyRelease == \A c \in Command : pc[c] \in {"idle", "ended"} \cup ReleaseSteps
CommandsFollow ==
  \A c \in Command : Busy(c) => req[c].run \in Run /\ pc[req[c].run] = "ended"
CommandModes ==
  \A c \in Command : Busy(c) =>
    /\ req[c].mode \in {"finalized", "review_rejected"}
    /\ req[c].mode = "finalized" => recorded[req[c].run] # "failed"

FollowInv ==
  /\ RunsReleaseThemselves
  /\ RecordedLate
  /\ CommandsOnlyRelease
  /\ CommandsFollow
  /\ CommandModes

LEMMA FollowStep == TypeOK /\ FollowInv /\ [Next]_vars => FollowInv'
<1> SUFFICES ASSUME TypeOK, FollowInv, [Next]_vars PROVE FollowInv'
  OBVIOUS
<1> USE ConstantsAssumption
    DEF Actor, Busy, FollowInv, RunsReleaseThemselves, RecordedLate, CommandsOnlyRelease,
        CommandsFollow, CommandModes
<1>t. /\ pc \in [Actor -> {"idle", "working", "ended"} \cup ClaimSteps \cup ReleaseSteps]
      /\ req \in [Actor -> [run : Actor, mode : Modes \cup {"none"}]]
      /\ recorded \in [Run -> Modes \cup {"none", "claim_not_acquired"}]
  BY DEF TypeOK
<1>1. ASSUME NEW r \in Run, Claim(r) PROVE FollowInv'
  <2>1. /\ UNCHANGED req
        /\ recorded' \in {recorded, [recorded EXCEPT ![r] = "claim_not_acquired"]}
        /\ recorded' # recorded => pc'[r] = "ended"
    BY <1>1, <1>t DEF Claim, FetchForClaim, ScanMarkers, PostMarker, AddClaimLabels,
       RereadIssue, RecheckMarker, Record, GoTo, files, locals
  <2>2. /\ pc[r] \notin ReleaseSteps \cup {"ended"} /\ pc'[r] \notin ReleaseSteps
        /\ \A a \in Actor \ {r} : pc'[a] = pc[a]
    BY <1>1, <1>t DEF Claim, FetchForClaim, ScanMarkers, PostMarker, AddClaimLabels,
                RereadIssue, RecheckMarker, GoTo, ReleaseSteps
  <2>3. \A q \in Run \ {r} : recorded'[q] = recorded[q]
    BY <2>1, <1>t
  <2>4. recorded'[r] # recorded[r] => pc'[r] = "ended"
    BY <2>1
  <2>5. QED
    BY <2>1, <2>2, <2>3, <2>4
<1>2. ASSUME NEW r \in Run, Work(r) PROVE FollowInv'
  <2>1. /\ pc[r] = "working" /\ pc' = [pc EXCEPT ![r] = "summary"]
        /\ \E mode \in Modes : req' = [req EXCEPT ![r] = [run |-> r, mode |-> mode]]
        /\ UNCHANGED recorded
    BY <1>2, <1>t DEF Work, RuntimeFails, GatesRun, StartRelease, SuccessMode, Modes, GoTo
  <2>2. /\ pc'[r] \in ReleaseSteps /\ pc[r] \notin ReleaseSteps \cup {"ended"}
        /\ \A a \in Actor \ {r} : pc'[a] = pc[a] /\ req'[a] = req[a]
        /\ req'[r].run = r
    BY <2>1, <1>t DEF ReleaseSteps
  <2>3. pc'[r] # "ended"
    BY <2>1, <1>t
  <2>4. QED
    BY <2>1, <2>2, <2>3
<1>3. ASSUME NEW c \in Command, NEW r \in Run, NEW decision \in {"approve", "reject"},
             NEW resume \in BOOLEAN, StartFinalize(c, r, decision, resume)
      PROVE  FollowInv'
  <2>1. /\ UNCHANGED recorded
        /\ pc[c] = "idle" /\ pc' = [pc EXCEPT ![c] = "summary"]
        /\ req' = [req EXCEPT ![c] = [run |-> r, mode |-> IF decision = "approve"
                                        THEN "finalized" ELSE "review_rejected"]]
        /\ StatusPermits(decision, resume, recorded[r])
    BY <1>3 DEF StartFinalize, StartRelease, GoTo, files
  <2>2. /\ recorded[r] # "none"
        /\ decision = "approve" => recorded[r] # "failed"
    BY <2>1 DEF StatusPermits
  <2>3. pc[r] = "ended" /\ r # c
    BY <2>2
  <2>4. /\ pc'[c] \in ReleaseSteps /\ req'[c].run = r
        /\ req'[c].mode = IF decision = "approve" THEN "finalized" ELSE "review_rejected"
        /\ \A a \in Actor \ {c} : pc'[a] = pc[a] /\ req'[a] = req[a]
    BY <2>1, <1>t DEF ReleaseSteps
  <2>5. QED
    BY <2>1, <2>2, <2>3, <2>4
<1>4. ASSUME NEW a \in Actor, Release(a) \/ Abort(a) PROVE FollowInv'
  <2>1. /\ UNCHANGED req
        /\ pc[a] \notin {"idle", "ended"}
        /\ pc'[a] = "ended" \/ (Busy(a) /\ pc'[a] \in ReleaseSteps)
        /\ \A b \in Actor \ {a} : pc'[b] = pc[b]
    BY <1>4, <1>t DEF Release, ListSummaries, PostSummary, AddLabels, RemoveLabel,
                CheckGone, Settle, Confirm, RecordStatus, Abort, GoTo, ReleaseSteps, locals
  <2>2. CASE UNCHANGED recorded
    BY <2>1, <2>2
  <2>3. CASE RecordStatus(a)
    <3>1. /\ Busy(a) /\ pc'[a] = "ended"
          /\ recorded' = [recorded EXCEPT ![req[a].run] = req[a].mode]
      BY <2>3, <1>t DEF RecordStatus, Record, GoTo, ReleaseSteps
    <3>2. /\ req[a].run \in Run /\ pc'[req[a].run] = "ended"
          /\ \A q \in Run : q # req[a].run => recorded'[q] = recorded[q]
      BY <2>1, <3>1, <1>t
    <3>3. ASSUME NEW c \in Command, Busy(c)', req[c].run = req[a].run
          PROVE  recorded'[req[c].run] # "failed"
      <4>1. Busy(c) /\ c # a
        BY <2>1, <3>1, <3>3 DEF ReleaseSteps
      <4>2. pc[req[a].run] = "ended" /\ pc[a] # "ended"
        BY <3>1, <3>3, <4>1 DEF ReleaseSteps
      <4>3. a \in Command
        BY <4>2
      <4>4. recorded'[req[a].run] = req[a].mode /\ req[a].mode # "failed"
        BY <3>1, <3>2, <4>3, <1>t
      <4>5. QED
        BY <3>3, <4>4
    <3>4. RunsReleaseThemselves' /\ RecordedLate' /\ CommandsOnlyRelease' /\ CommandsFollow'
      BY <2>1, <3>1, <3>2
    <3>5. ASSUME NEW c \in Command, Busy(c)'
          PROVE  /\ req[c].mode \in {"finalized", "review_rejected"}
                 /\ req[c].mode = "finalized" => recorded'[req[c].run] # "failed"
      <4>1. Busy(c)
        BY <2>1, <3>1, <3>5 DEF ReleaseSteps
      <4>2. QED
        BY <3>2, <3>3, <3>5, <4>1
    <3>6. QED
      BY <2>1, <3>4, <3>5
  <2>4. QED
    BY <1>4, <2>2, <2>3 DEF Release, ListSummaries, PostSummary, AddLabels, RemoveLabel,
       CheckGone, Settle, Confirm, Abort, files
<1>5. CASE Edit \/ Tick \/ UNCHANGED vars
  BY <1>5 DEF Edit, Tick, vars, files, locals
<1>6. QED
  BY <1>1, <1>2, <1>3, <1>4, <1>5 DEF Next, Finalize

LEMMA FollowHolds == Spec => []FollowInv
<1>1. Init => FollowInv
  BY DEF Init, FollowInv, RunsReleaseThemselves, RecordedLate, CommandsOnlyRelease,
         CommandsFollow, CommandModes, Busy, ReleaseSteps, Actor
<1>2. QED
  BY <1>1, FollowStep, TypeCorrect, PTL DEF Spec

\* Two that are under way for the same run are commands.
LEMMA BothCommands ==
  ASSUME FollowInv, NEW a \in Actor, NEW b \in Actor, Busy(a), Busy(b),
         req[a].run = req[b].run, a # b
  PROVE  a \in Command /\ b \in Command
<1>1. /\ pc[a] # "ended" /\ pc[b] # "ended"
  BY DEF Busy, ReleaseSteps
<1>2. QED
  BY <1>1 DEF FollowInv, RunsReleaseThemselves, CommandsFollow, Actor

(***************************************************************************)
(* Commands that do not overlap.  A command starts when nobody is under    *)
(* way: at any time one actor at most mutates the issue for a given run.   *)
(***************************************************************************)
OneCommand == \A c, d \in Command : Busy(c) /\ Busy(d) => c = d

LEMMA TurnStep == ~ Overlap /\ TypeOK /\ OneCommand /\ [Next]_vars => OneCommand'
<1> SUFFICES ASSUME ~ Overlap, TypeOK, OneCommand, [Next]_vars PROVE OneCommand'
  OBVIOUS
<1> USE ConstantsAssumption DEF Actor, Busy, OneCommand
<1>t. pc \in [Actor -> {"idle", "working", "ended"} \cup ClaimSteps \cup ReleaseSteps]
  BY DEF TypeOK
<1>1. ASSUME NEW r \in Run, Claim(r) \/ Work(r) PROVE OneCommand'
  <2>1. \A a \in Actor \ {r} : pc'[a] = pc[a]
    BY <1>1, <1>t DEF Claim, FetchForClaim, ScanMarkers, PostMarker, AddClaimLabels,
       RereadIssue, RecheckMarker, Work, RuntimeFails, GatesRun, StartRelease, GoTo
  <2>2. QED
    BY <2>1
<1>2. ASSUME NEW c \in Command, Finalize(c) PROVE OneCommand'
  <2>1. /\ \A a \in Actor : ~ Busy(a)
        /\ \A a \in Actor \ {c} : pc'[a] = pc[a]
    BY <1>2, <1>t DEF Finalize, StartFinalize, StartRelease, Undisturbed, GoTo, ReleaseSteps
  <2>2. QED
    BY <2>1
<1>3. ASSUME NEW a \in Actor, Release(a) \/ Abort(a) PROVE OneCommand'
  <2>1. /\ pc'[a] \in ReleaseSteps => Busy(a)
        /\ \A b \in Actor \ {a} : pc'[b] = pc[b]
    BY <1>3, <1>t DEF Release, ListSummaries, PostSummary, AddLabels, RemoveLabel,
                CheckGone, Settle, Confirm, RecordStatus, Abort, GoTo, ReleaseSteps
  <2>2. QED
    BY <2>1
<1>4. CASE Edit \/ Tick \/ UNCHANGED vars
  BY <1>4 DEF Edit, Tick, vars
<1>5. QED
  BY <1>1, <1>2, <1>3, <1>4 DEF Next

\* Then two that are under way for the same run are the same.
LEMMA Alternate ==
  ASSUME FollowInv, OneCommand, NEW a \in Actor, NEW b \in Actor, Busy(a), Busy(b),
         req[a].run = req[b].run
  PROVE  a = b
  BY BothCommands DEF OneCommand

LEMMA TurnsHold == ~ Overlap /\ Spec => []OneCommand
<1>1. Init => OneCommand
  BY DEF Init, OneCommand, Busy, ReleaseSteps, Actor
<1>2. CASE ~ Overlap
  BY <1>1, <1>2, TurnStep, TypeCorrect, PTL DEF Spec
<1>3. CASE Overlap
  BY <1>3, PTL
<1>4. QED
  BY <1>2, <1>3

(***************************************************************************)
(* The summaries.  Who is to post one has found none, and nobody else can  *)
(* be about to.                                                            *)
(***************************************************************************)
Posting == \A a \in Actor : pc[a] = "post" => summaries[req[a].run][req[a].mode] = 0

LEMMA SummaryStep ==
  TypeOK /\ FollowInv /\ OneCommand /\ Posting /\ OneSummaryPerKind /\ [Next]_vars
    => (Posting /\ OneSummaryPerKind)'
<1> SUFFICES ASSUME TypeOK, FollowInv, OneCommand, Posting, OneSummaryPerKind, [Next]_vars
             PROVE  (Posting /\ OneSummaryPerKind)'
  OBVIOUS
<1> USE ConstantsAssumption DEF Actor
<1>t. /\ pc \in [Actor -> {"idle", "working", "ended"} \cup ClaimSteps \cup ReleaseSteps]
      /\ req \in [Actor -> [run : Actor, mode : Modes \cup {"none"}]]
      /\ summaries \in [Run -> [Modes -> Nat]]
  BY DEF TypeOK
<1>1. ASSUME UNCHANGED summaries,
             \A a \in Actor : pc'[a] = "post" => pc[a] = "post" /\ req'[a] = req[a]
      PROVE  (Posting /\ OneSummaryPerKind)'
  BY <1>1 DEF Posting, OneSummaryPerKind
<1>2. ASSUME NEW r \in Run, Claim(r) PROVE (Posting /\ OneSummaryPerKind)'
  BY <1>2, <1>t, <1>1 DEF Claim, FetchForClaim, ScanMarkers, PostMarker, AddClaimLabels,
     RereadIssue, RecheckMarker, remote, locals
<1>3. ASSUME NEW r \in Run, Work(r) PROVE (Posting /\ OneSummaryPerKind)'
  BY <1>3, <1>t, <1>1 DEF Work, RuntimeFails, GatesRun, StartRelease, remote
<1>4. ASSUME NEW c \in Command, Finalize(c) PROVE (Posting /\ OneSummaryPerKind)'
  BY <1>4, <1>t, <1>1 DEF Finalize, StartFinalize, StartRelease, remote
<1>5. ASSUME NEW a \in Actor, ListSummaries(a) PROVE (Posting /\ OneSummaryPerKind)'
  BY <1>5, <1>t DEF ListSummaries, remote, locals, Posting, OneSummaryPerKind
<1>6. ASSUME NEW a \in Actor, PostSummary(a) PROVE (Posting /\ OneSummaryPerKind)'
  <2> DEFINE r == req[a].run
             m == req[a].mode
  <2>1. /\ summaries[r][m] = 0
        /\ summaries' = [summaries EXCEPT ![r][m] = @ + 1]
        /\ pc[a] = "post" /\ pc' = [pc EXCEPT ![a] = "add"]
        /\ UNCHANGED req
    BY <1>6 DEF PostSummary, Posting, locals
  <2>2. \A q \in Run, k \in Modes :
          summaries'[q][k] = IF q = r /\ k = m THEN 1 ELSE summaries[q][k]
    BY <2>1, <1>t
  <2>3. OneSummaryPerKind'
    BY <2>2 DEF OneSummaryPerKind
  <2>4. ASSUME NEW b \in Actor, pc'[b] = "post"
        PROVE  summaries'[req'[b].run][req'[b].mode] = 0
    <3>1. b # a /\ pc[b] = "post" /\ summaries[req[b].run][req[b].mode] = 0
      BY <2>1, <2>4, <1>t DEF Posting
    <3>2. Busy(a) /\ Busy(b)
      BY <2>1, <3>1 DEF Busy, ReleaseSteps
    <3>3. req[b].run # r
      BY <3>1, <3>2, Alternate
    <3>4. summaries'[req[b].run] = summaries[req[b].run]
      BY <2>1, <3>3, <1>t
    <3>5. QED
      BY <2>1, <3>1, <3>4
  <2>5. QED
    BY <2>3, <2>4 DEF Posting
<1>7. ASSUME NEW a \in Actor, Release(a) \/ Abort(a), ~ ListSummaries(a), ~ PostSummary(a)
      PROVE  (Posting /\ OneSummaryPerKind)'
  BY <1>7, <1>t, <1>1 DEF Release, AddLabels, RemoveLabel, CheckGone, Settle, Confirm,
     RecordStatus, Abort, remote, locals
<1>8. CASE Edit \/ Tick \/ UNCHANGED vars
  BY <1>8, <1>1 DEF Edit, Tick, vars, remote, locals
<1>9. QED
  BY <1>2, <1>3, <1>4, <1>5, <1>6, <1>7, <1>8 DEF Next

\* Unless commands overlap, a run has one summary of each kind, whatever is
\* retried.
THEOREM OneSummary == ~ Overlap /\ Spec => []OneSummaryPerKind
<1>1. Init => Posting /\ OneSummaryPerKind
  BY DEF Init, Posting, OneSummaryPerKind
<1>2. QED
  BY <1>1, SummaryStep, FollowHolds, TurnsHold, TypeCorrect, PTL DEF Spec

(***************************************************************************)
(* The recorded status.  As long as nobody else claims or edits the issue, *)
(* what an actor that is about to record has verified stays true: beside   *)
(* it there are at most commands for the same run, which agree on what to  *)
(* remove and only add what it wants there.  What was recorded bears the   *)
(* releases that may follow it.                                            *)
(***************************************************************************)
\* What a release has yet to remove is what its mode removes.
Removable(mode) == IF mode = "finalized" THEN {"claimed", "failed", "running"} ELSE {"running"}
TodoIsRemovable ==
  \A a \in Actor : pc[a] \in {"remove", "gone"} => todo[a] \in Seq(Removable(req[a].mode))

\* Nobody has closed the issue for a run that has not come to finalize.
Untouched(r) ==
  \/ ~ Busy(r) /\ pc[r] # "ended"
  \/ Busy(r) /\ req[r].mode # "finalized"
  \/ recorded[r] = "failed"
OpenUntouched == \A r \in Run : Alone(r) /\ Untouched(r) => state = "open"

\* What Verified has compared.  Since the labels were reported, those that the
\* release added have stayed, and nothing but "done" has come.
Shows(mode) ==
  /\ Adds(mode) \subseteq labels
  /\ Removable(mode) \cap labels = {}
  /\ Closes(mode) => state = "closed"
StillReported(a) ==
  /\ got[a] \cap Adds(req[a].mode) \subseteq labels
  /\ labels \subseteq got[a] \cup {"done"}
VerifiedIsShown ==
  \A r \in Run, a \in Actor : Alone(r) /\ req[a].run = r =>
    /\ pc[a] = "confirm" => StillReported(a)
    /\ pc[a] = "record" => Shows(req[a].mode)

StatusInv ==
  /\ OpenUntouched
  /\ VerifiedIsShown
  /\ RecordedStatusMatchesIssue

LEMMA RemovesRemovable ==
  ASSUME NEW mode
  PROVE  /\ Removes(mode) \in Seq(Removable(mode))
         /\ \A l : l \in Removable(mode) <=> \E i \in 1 .. Len(Removes(mode)) : Removes(mode)[i] = l
<1>1. CASE mode = "finalized"
  <2>1. /\ Removes(mode) = <<"claimed", "failed", "running">>
        /\ Removable(mode) = {"claimed", "failed", "running"}
    BY <1>1 DEF Removes, Removable
  <2>2. QED
    BY <2>1
<1>2. CASE mode # "finalized"
  <2>1. /\ Removes(mode) = <<"running">>
        /\ Removable(mode) = {"running"}
    BY <1>2 DEF Removes, Removable
  <2>2. QED
    BY <2>1
<1>3. QED
  BY <1>1, <1>2

LEMMA RestOfSeq ==
  ASSUME NEW S, NEW s \in Seq(S), s # <<>>
  PROVE  Head(s) \in S /\ Tail(s) \in Seq(S)
  OBVIOUS

LEMMA TodoStep ==
  TypeOK /\ GoneIsNext /\ TodoIsRemovable /\ [Next]_vars => TodoIsRemovable'
<1> SUFFICES ASSUME TypeOK, GoneIsNext, TodoIsRemovable, [Next]_vars PROVE TodoIsRemovable'
  OBVIOUS
<1> USE ConstantsAssumption DEF Actor
<1>t. /\ pc \in [Actor -> {"idle", "working", "ended"} \cup ClaimSteps \cup ReleaseSteps]
      /\ req \in [Actor -> [run : Actor, mode : Modes \cup {"none"}]]
      /\ todo \in [Actor -> Seq(Labels)]
  BY DEF TypeOK
<1>1. ASSUME \A a \in Actor : pc'[a] \in {"remove", "gone"} =>
               pc[a] \in {"remove", "gone"} /\ req'[a] = req[a] /\ todo'[a] = todo[a]
      PROVE  TodoIsRemovable'
  BY <1>1 DEF TodoIsRemovable
<1>2. ASSUME NEW r \in Run, Claim(r) \/ Work(r) PROVE TodoIsRemovable'
  BY <1>2, <1>t, <1>1 DEF Claim, FetchForClaim, ScanMarkers, PostMarker, AddClaimLabels,
     RereadIssue, RecheckMarker, Work, RuntimeFails, GatesRun, StartRelease, locals
<1>3. ASSUME NEW c \in Command, Finalize(c) PROVE TodoIsRemovable'
  BY <1>3, <1>t, <1>1 DEF Finalize, StartFinalize, StartRelease
<1>4. ASSUME NEW a \in Actor, AddLabels(a) PROVE TodoIsRemovable'
  <2>1. /\ todo' = [todo EXCEPT ![a] = Removes(req[a].mode)]
        /\ pc' = [pc EXCEPT ![a] = "remove"] /\ UNCHANGED req
    BY <1>4 DEF AddLabels
  <2>2. Removes(req[a].mode) \in Seq(Removable(req[a].mode))
    BY RemovesRemovable
  <2>3. QED
    BY <2>1, <2>2, <1>t DEF TodoIsRemovable
<1>5. ASSUME NEW a \in Actor, RemoveLabel(a) \/ CheckGone(a) PROVE TodoIsRemovable'
  <2>1. /\ todo' \in {todo, [todo EXCEPT ![a] = Tail(todo[a])]} /\ todo[a] # <<>>
        /\ UNCHANGED req /\ pc[a] \in {"remove", "gone"}
        /\ \A b \in Actor \ {a} : pc'[b] = pc[b]
    BY <1>5, <1>t DEF RemoveLabel, CheckGone, GoneIsNext, remote, files
  <2>2. todo[a] \in Seq(Removable(req[a].mode)) /\ Tail(todo[a]) \in Seq(Removable(req[a].mode))
    BY <2>1, RestOfSeq DEF TodoIsRemovable
  <2>3. todo'[a] \in {todo[a], Tail(todo[a])} /\ \A b \in Actor \ {a} : todo'[b] = todo[b]
    BY <2>1, <1>t
  <2>4. QED
    BY <2>1, <2>2, <2>3, <1>t DEF TodoIsRemovable
<1>6. ASSUME NEW a \in Actor, Release(a) \/ Abort(a),
             ~ AddLabels(a), ~ RemoveLabel(a), ~ CheckGone(a)
      PROVE  TodoIsRemovable'
  BY <1>6, <1>t, <1>1 DEF Release, ListSummaries, PostSummary, Settle, Confirm,
     RecordStatus, Abort, locals
<1>7. CASE Edit \/ Tick \/ UNCHANGED vars
  BY <1>7, <1>1 DEF Edit, Tick, vars, locals
<1>8. QED
  BY <1>2, <1>3, <1>4, <1>5, <1>6, <1>7 DEF Next

\* Who is under way for an issue that no other run has touched works for that
\* run, and a step of somebody who is there means that nobody else came.
LEMMA AloneBusy ==
  ASSUME FollowInv, NEW r \in Run, Alone(r), NEW a \in Actor, Busy(a)
  PROVE  req[a].run = r
<1>1. pc[a] # "idle"
  BY DEF Busy, ReleaseSteps
<1>2. CASE a \in Run
  BY <1>1, <1>2 DEF Alone, FollowInv, RunsReleaseThemselves
<1>3. CASE a \in Command
  BY <1>1, <1>3 DEF Alone, FollowInv, CommandsFollow
<1>4. QED
  BY <1>2, <1>3 DEF Actor

LEMMA StillAlone ==
  ASSUME NEW a, NEW r \in Run, Alone(r)', UNCHANGED edits,
         pc[a] # "idle" \/ a = r, \A b \in Actor \ {a} : pc'[b] = pc[b], pc'[a] # "idle"
  PROVE  Alone(r)
<1>1. edits = 0 /\ \A q \in Run \ {r} : pc'[q] = "idle"
  BY DEF Alone
<1>2. \A q \in Run \ {r} : q # a
  BY <1>1
<1>3. QED
  BY <1>1, <1>2 DEF Alone, Actor

\* The releases of commands and what they may change.
LEMMA CommandEffect ==
  ASSUME FollowInv, NEW c \in Command, Busy(c)
  PROVE  /\ Adds(req[c].mode) \subseteq {"done"}
         /\ recorded[req[c].run] = "failed" =>
              /\ Adds(req[c].mode) = {} /\ Removable(req[c].mode) = {"running"}
              /\ ~ Closes(req[c].mode)
  BY DEF FollowInv, CommandModes, Adds, Removable, Closes

\* Who is under way for a run that has recorded a status is a command.
LEMMA LateIsCommand ==
  ASSUME FollowInv, NEW a \in Actor, Busy(a), NEW r \in Run, req[a].run = r, recorded[r] # "none"
  PROVE  a \in Command
<1>1. pc[a] # "ended"
  BY DEF Busy, ReleaseSteps
<1>2. QED
  BY <1>1 DEF FollowInv, RecordedLate, RunsReleaseThemselves, Actor

\* An actor goes on, or ends, without changing what the issue shows.
LEMMA StatusFrame ==
  ASSUME TypeOK, FollowInv, StatusInv, NEW a \in Actor,
         UNCHANGED <<state, labels, recorded, req, edits, got>>,
         \A b \in Actor \ {a} : pc'[b] = pc[b],
         pc[a] \notin {"idle", "ended"},
         pc'[a] = "ended" \/ (Busy(a) /\ pc'[a] \in ReleaseSteps \ {"confirm", "record"})
  PROVE  StatusInv'
<1> USE DEF StatusInv, Actor
<1>1. pc'[a] \notin {"idle", "confirm", "record"} /\ "ended" \notin ReleaseSteps
  BY DEF ReleaseSteps
<1>2. \A r \in Run : Untouched(r)' => Untouched(r)
  BY <1>1 DEF Untouched, Busy
<1>3. \A r \in Run : Alone(r)' => Alone(r)
  BY <1>1, StillAlone
<1>4. QED
  BY <1>1, <1>2, <1>3 DEF OpenUntouched, VerifiedIsShown, RecordedStatusMatchesIssue, Shows,
                          StillReported

\* A release changes the labels: it adds what its mode adds, or removes what its
\* mode removes.
LEMMA StatusUnderLabels ==
  ASSUME TypeOK, FollowInv, StatusInv, NEW a \in Actor, Busy(a),
         UNCHANGED <<state, recorded, req, edits, got>>,
         \A b \in Actor \ {a} : pc'[b] = pc[b],
         pc[a] \notin {"confirm", "record"}, pc'[a] \in ReleaseSteps \ {"confirm", "record"},
         \/ labels' = labels \cup Adds(req[a].mode)
         \/ \E l \in Removable(req[a].mode) : labels' = labels \ {l}
  PROVE  StatusInv'
<1> USE DEF StatusInv, Actor
<1>1. /\ pc[a] \notin {"idle", "ended"} /\ pc'[a] \notin {"idle", "ended"}
      /\ "confirm" \in ReleaseSteps /\ "record" \in ReleaseSteps
  BY DEF ReleaseSteps, Busy
<1>2. \A r \in Run : Alone(r)' => Alone(r) /\ req[a].run = r
  BY <1>1, StillAlone, AloneBusy
<1>3. OpenUntouched'
  BY <1>1, <1>2 DEF OpenUntouched, Untouched, Busy
<1>4. VerifiedIsShown'
  <2> SUFFICES ASSUME NEW r \in Run, NEW b \in Actor, Alone(r)', req[b].run = r
               PROVE  /\ pc'[b] = "confirm" => StillReported(b)'
                      /\ pc'[b] = "record" => Shows(req[b].mode)'
    BY DEF VerifiedIsShown
  <2>1. CASE pc'[b] \notin {"confirm", "record"}
    BY <2>1
  <2>2. CASE pc'[b] \in {"confirm", "record"}
    <3>1. /\ b # a /\ pc'[b] = pc[b] /\ Busy(b) /\ Alone(r) /\ req[a].run = r
      BY <1>1, <1>2, <2>2 DEF Busy
    <3>2. a \in Command /\ b \in Command
      BY <3>1, BothCommands
    <3>3. /\ labels' \subseteq labels \cup {"done"}
          /\ "done" \in labels => "done" \in labels'
      BY <3>2, CommandEffect DEF Removable
    <3>4. Adds(req[b].mode) \subseteq {"done"} /\ "done" \notin Removable(req[b].mode)
      BY <3>1, <3>2, CommandEffect DEF Removable
    <3>5. CASE pc[b] = "confirm"
      <4>1. StillReported(b)
        BY <3>1, <3>5 DEF VerifiedIsShown
      <4>2. StillReported(b)'
        BY <4>1, <3>3, <3>4 DEF StillReported
      <4>3. QED
        BY <3>1, <3>5, <4>2
    <3>6. CASE pc[b] = "record"
      <4>1. Shows(req[b].mode)
        BY <3>1, <3>6 DEF VerifiedIsShown
      <4>2. Shows(req[b].mode)'
        BY <4>1, <3>3, <3>4 DEF Shows
      <4>3. QED
        BY <3>1, <3>6, <4>2
    <3>7. QED
      BY <2>2, <3>1, <3>5, <3>6
  <2>3. QED
    BY <2>1, <2>2
<1>5. RecordedStatusMatchesIssue'
  <2> SUFFICES ASSUME NEW r \in Run, Alone(r)', recorded[r] \in {"finalized", "failed"}
               PROVE  /\ recorded[r] = "finalized" =>
                           state = "closed" /\ labels' \cap {"claimed", "running", "failed", "done"} = {"done"}
                      /\ recorded[r] = "failed" =>
                           state = "open" /\ "failed" \in labels' /\ "running" \notin labels'
    BY DEF RecordedStatusMatchesIssue
  <2>1. Alone(r) /\ req[a].run = r
    BY <1>2
  <2>2. a \in Command
    BY <2>1, LateIsCommand
  <2>3. CASE recorded[r] = "finalized"
    BY <2>1, <2>2, <2>3, CommandEffect DEF Removable, RecordedStatusMatchesIssue
  <2>4. CASE recorded[r] = "failed"
    BY <2>1, <2>2, <2>4, CommandEffect DEF RecordedStatusMatchesIssue
  <2>5. QED
    BY <2>3, <2>4
<1>6. QED
  BY <1>3, <1>4, <1>5

LEMMA StatusStep ==
  TypeOK /\ GoneIsNext /\ FollowInv /\ TodoIsRemovable /\ StatusInv /\ [Next]_vars => StatusInv'
<1> SUFFICES ASSUME TypeOK, GoneIsNext, FollowInv, TodoIsRemovable, StatusInv, [Next]_vars
             PROVE  StatusInv'
  OBVIOUS
<1> USE ConstantsAssumption DEF Actor
<1>t. /\ pc \in [Actor -> {"idle", "working", "ended"} \cup ClaimSteps \cup ReleaseSteps]
      /\ req \in [Actor -> [run : Actor, mode : Modes \cup {"none"}]]
      /\ recorded \in [Run -> Modes \cup {"none", "claim_not_acquired"}]
      /\ got \in [Actor -> SUBSET Labels]
  BY DEF TypeOK
<1>1. ASSUME NEW r \in Run, Claim(r) \/ Work(r) PROVE StatusInv'
  <2>1. /\ UNCHANGED <<state, edits>>
        /\ \A a \in Actor \ {r} : pc'[a] = pc[a] /\ req'[a] = req[a] /\ got'[a] = got[a]
        /\ pc[r] \notin ReleaseSteps \cup {"ended"} /\ pc'[r] \notin {"idle", "confirm", "record"}
        /\ recorded' \in {recorded, [recorded EXCEPT ![r] = "claim_not_acquired"]}
    BY <1>1, <1>t DEF Claim, FetchForClaim, ScanMarkers, PostMarker, AddClaimLabels,
       RereadIssue, RecheckMarker, Work, RuntimeFails, GatesRun, StartRelease, Record, GoTo,
       remote, files, locals, ReleaseSteps
  <2>2. /\ recorded[r] = "none"
        /\ \A c \in Command : Busy(c) => req[c].run # r
    BY <2>1 DEF FollowInv, RecordedLate, CommandsFollow
  <2>3. ASSUME NEW q \in Run, Alone(q)' PROVE q = r /\ Alone(r) /\ Untouched(r)
    <3>1. q = r
      BY <2>1, <2>3 DEF Alone
    <3>2. QED
      BY <2>1, <2>3, <3>1, StillAlone DEF Untouched, Busy
  <2>4. OpenUntouched'
    BY <2>1, <2>3 DEF StatusInv, OpenUntouched
  <2>5. VerifiedIsShown'
    <3> SUFFICES ASSUME NEW q \in Run, NEW a \in Actor, Alone(q)', req'[a].run = q,
                        pc'[a] \in {"confirm", "record"}
                 PROVE  FALSE
      BY DEF VerifiedIsShown
    <3>1. q = r /\ a # r /\ Busy(a) /\ req[a].run = r
      BY <2>1, <2>3 DEF Busy, ReleaseSteps
    <3>2. QED
      BY <3>1, <2>2 DEF FollowInv, RunsReleaseThemselves
  <2>6. RecordedStatusMatchesIssue'
    BY <2>1, <2>2, <2>3, <1>t DEF RecordedStatusMatchesIssue
  <2>7. QED
    BY <2>4, <2>5, <2>6 DEF StatusInv
<1>2. ASSUME NEW c \in Command, NEW r \in Run, NEW decision \in {"approve", "reject"},
             NEW resume \in BOOLEAN, StartFinalize(c, r, decision, resume)
      PROVE  StatusInv'
  <2>1. /\ UNCHANGED <<state, labels, recorded, got, edits>>
        /\ pc[c] = "idle" /\ pc' = [pc EXCEPT ![c] = "summary"]
        /\ req' = [req EXCEPT ![c] = [run |-> r, mode |-> IF decision = "approve"
                                        THEN "finalized" ELSE "review_rejected"]]
    BY <1>2 DEF StartFinalize, StartRelease, GoTo, remote, files, locals
  <2>2. /\ \A a \in Actor \ {c} : pc'[a] = pc[a] /\ req'[a] = req[a]
        /\ pc'[c] = "summary"
        /\ \A q \in Run : q # c
    BY <2>1, <1>t
  <2>3. \A q \in Run : (Alone(q)' <=> Alone(q)) /\ (Untouched(q)' <=> Untouched(q))
    BY <2>1, <2>2 DEF Alone, Untouched, Busy
  <2>4. QED
    BY <2>1, <2>2, <2>3 DEF StatusInv, OpenUntouched, VerifiedIsShown, Shows, StillReported,
                            RecordedStatusMatchesIssue
<1>3. ASSUME NEW a \in Actor,
             ListSummaries(a) \/ PostSummary(a) \/ CheckGone(a) \/ Abort(a)
      PROVE  StatusInv'
  <2>1. /\ UNCHANGED <<state, labels, recorded, req, edits, got>>
        /\ \A b \in Actor \ {a} : pc'[b] = pc[b]
        /\ pc[a] \notin {"idle", "ended"}
        /\ pc'[a] = "ended" \/ (Busy(a) /\ pc'[a] \in ReleaseSteps \ {"confirm", "record"})
    BY <1>3, <1>t DEF ListSummaries, PostSummary, CheckGone, Abort, remote, files, locals,
                      Busy, ReleaseSteps
  <2>2. QED
    BY <2>1, StatusFrame
<1>4. ASSUME NEW a \in Actor, AddLabels(a) \/ RemoveLabel(a) PROVE StatusInv'
  <2>1. /\ UNCHANGED <<state, recorded, req, edits, got>> /\ Busy(a)
        /\ \A b \in Actor \ {a} : pc'[b] = pc[b]
        /\ pc[a] \notin {"confirm", "record", "idle", "ended"}
        /\ pc'[a] \in ReleaseSteps \ {"confirm", "record"}
    BY <1>4, <1>t DEF AddLabels, RemoveLabel, remote, files, locals, Busy, ReleaseSteps
  <2>2. \/ labels' = labels
        \/ labels' = labels \cup Adds(req[a].mode)
        \/ /\ labels' = labels \ {Head(todo[a])}
           /\ pc[a] = "remove" /\ todo[a] # <<>>
    BY <1>4 DEF AddLabels, RemoveLabel
  <2>3. pc[a] = "remove" /\ todo[a] # <<>> => Head(todo[a]) \in Removable(req[a].mode)
    BY RestOfSeq DEF TodoIsRemovable
  <2>4. CASE labels' = labels
    BY <2>1, <2>4, StatusFrame
  <2>5. CASE labels' # labels
    BY <2>1, <2>2, <2>3, <2>5, StatusUnderLabels
  <2>6. QED
    BY <2>4, <2>5
<1>5. ASSUME NEW a \in Actor, Settle(a) PROVE StatusInv'
  <2>1. /\ UNCHANGED <<labels, recorded, req, edits>> /\ Busy(a)
        /\ \A b \in Actor \ {a} : pc'[b] = pc[b] /\ got'[b] = got[b]
        /\ pc[a] = "remove" /\ pc'[a] = "confirm" /\ got'[a] = labels
        /\ state' = IF Closes(req[a].mode) THEN "closed" ELSE state
        /\ Busy(a)'
    BY <1>5, <1>t DEF Settle, files, Busy, ReleaseSteps
  <2>2. \A r \in Run : Alone(r)' => Alone(r) /\ req[a].run = r
    BY <2>1, StillAlone, AloneBusy
  <2>3. ASSUME NEW r \in Run, Alone(r)', recorded[r] = "failed" \/ Untouched(r)'
        PROVE  state' = state /\ state = "open"
    <3>1. Untouched(r)
      BY <2>1, <2>3 DEF Untouched, Busy
    <3>2. ~ Closes(req[a].mode)
      <4>1. CASE a \in Command
        <5>1. pc[r] = "ended" /\ "ended" \notin ReleaseSteps
          BY <2>1, <2>2, <2>3, <4>1 DEF FollowInv, CommandsFollow, ReleaseSteps
        <5>2. recorded[r] = "failed"
          BY <3>1, <5>1 DEF Untouched, Busy
        <5>3. QED
          BY <2>1, <2>2, <2>3, <4>1, <5>2, CommandEffect
      <4>2. CASE a \in Run
        <5>1. a = r /\ recorded[r] = "none"
          BY <2>1, <2>2, <2>3, <4>2 DEF FollowInv, RunsReleaseThemselves, RecordedLate
        <5>2. QED
          BY <2>1, <5>1, <3>1 DEF Untouched, Closes
      <4>3. QED
        BY <4>1, <4>2
    <3>3. QED
      BY <2>1, <2>2, <2>3, <3>1, <3>2 DEF StatusInv, OpenUntouched
  <2>4. OpenUntouched'
    BY <2>3 DEF OpenUntouched
  <2>5. StillReported(a)'
    BY <2>1 DEF StillReported
  <2>6. VerifiedIsShown'
    BY <2>1, <2>2, <2>5 DEF StatusInv, VerifiedIsShown, StillReported, Shows
  <2>7. RecordedStatusMatchesIssue'
    BY <2>1, <2>2, <2>3 DEF StatusInv, RecordedStatusMatchesIssue
  <2>8. QED
    BY <2>4, <2>6, <2>7 DEF StatusInv
<1>6. ASSUME NEW a \in Actor, Confirm(a) PROVE StatusInv'
  <2>1. /\ UNCHANGED <<state, labels, recorded, req, edits>> /\ Busy(a)
        /\ \A b \in Actor \ {a} : pc'[b] = pc[b] /\ got'[b] = got[b]
        /\ pc[a] = "confirm" /\ pc'[a] = IF Verified(a) THEN "record" ELSE "ended"
        /\ pc'[a] \notin {"idle", "confirm"}
    BY <1>6, <1>t DEF Confirm, remote, files, Busy, ReleaseSteps
  <2>2. \A r \in Run : Alone(r)' => Alone(r)
    BY <2>1, StillAlone
  <2>3. \A r \in Run : Untouched(r)' => Untouched(r)
    BY <2>1 DEF Untouched, Busy, ReleaseSteps
  <2>4. ASSUME NEW r \in Run, Alone(r)', req[a].run = r, Verified(a)
        PROVE  Shows(req[a].mode)
    <3>1. StillReported(a)
      BY <2>1, <2>2, <2>4 DEF StatusInv, VerifiedIsShown
    <3>2. "done" \notin Removable(req[a].mode)
      BY DEF Removable
    <3>3. Removable(req[a].mode) \cap got[a] = {}
      BY <2>4, RemovesRemovable DEF Verified
    <3>4. QED
      BY <2>4, <3>1, <3>2, <3>3 DEF Verified, Shows, StillReported
  <2>5. VerifiedIsShown'
    BY <2>1, <2>2, <2>4 DEF StatusInv, VerifiedIsShown, StillReported, Shows
  <2>6. OpenUntouched' /\ RecordedStatusMatchesIssue'
    BY <2>1, <2>2, <2>3 DEF StatusInv, OpenUntouched, RecordedStatusMatchesIssue
  <2>7. QED
    BY <2>5, <2>6 DEF StatusInv
<1>7. ASSUME NEW a \in Actor, RecordStatus(a) PROVE StatusInv'
  <2>1. /\ UNCHANGED <<state, labels, got, req, edits>> /\ Busy(a)
        /\ \A b \in Actor \ {a} : pc'[b] = pc[b]
        /\ pc[a] = "record" /\ pc'[a] = "ended"
        /\ recorded' = [recorded EXCEPT ![req[a].run] = req[a].mode]
    BY <1>7, <1>t DEF RecordStatus, Record, remote, locals, Busy, ReleaseSteps
  <2>2. /\ req[a].run \in Run
        /\ a \in Run => req[a].run = a
        /\ a \in Command => pc[req[a].run] = "ended" /\ req[a].mode # "failed"
    BY <2>1 DEF FollowInv, RunsReleaseThemselves, CommandsFollow, CommandModes
  <2>3. /\ recorded'[req[a].run] = req[a].mode
        /\ \A q \in Run : q # req[a].run => recorded'[q] = recorded[q]
    BY <2>1, <2>2, <1>t
  <2>4. \A r \in Run : Alone(r)' => Alone(r) /\ req[a].run = r
    BY <2>1, StillAlone, AloneBusy
  <2>5. ASSUME NEW r \in Run, Alone(r)' PROVE Shows(req[a].mode) /\ recorded'[r] = req[a].mode
    BY <2>1, <2>3, <2>4, <2>5 DEF StatusInv, VerifiedIsShown
  <2>6. ASSUME NEW r \in Run, Alone(r)', Untouched(r)' PROVE state' = "open"
    <3>1. CASE req[a].mode = "failed"
      <4>1. a = r
        BY <2>2, <2>4, <2>6, <3>1
      <4>2. QED
        BY <2>1, <2>4, <2>6, <3>1, <4>1 DEF StatusInv, OpenUntouched, Untouched
    <3>2. CASE req[a].mode # "failed"
      <4>1. /\ pc'[r] = "ended" /\ recorded'[r] # "failed"
        BY <2>1, <2>2, <2>4, <2>5, <2>6, <3>2
      <4>2. QED
        BY <2>6, <4>1 DEF Untouched, Busy, ReleaseSteps
    <3>3. QED
      BY <3>1, <3>2
  <2>7. VerifiedIsShown'
    BY <2>1, <2>4 DEF StatusInv, VerifiedIsShown, StillReported, Shows
  <2>8. ASSUME NEW r \in Run, Alone(r)'
        PROVE  /\ recorded'[r] = "finalized" =>
                    state' = "closed" /\ labels' \cap {"claimed", "running", "failed", "done"} = {"done"}
               /\ recorded'[r] = "failed" =>
                    state' = "open" /\ "failed" \in labels' /\ "running" \notin labels'
    BY <2>1, <2>5, <2>6, <2>8 DEF Shows, Adds, Removable, Closes, Untouched
  <2>9. QED
    BY <2>6, <2>7, <2>8 DEF StatusInv, OpenUntouched, RecordedStatusMatchesIssue
<1>8. CASE Edit
  <2>1. edits' # 0
    BY <1>8 DEF Edit, TypeOK
  <2>2. QED
    BY <2>1 DEF StatusInv, Alone, OpenUntouched, VerifiedIsShown, RecordedStatusMatchesIssue
<1>9. CASE Tick \/ UNCHANGED vars
  BY <1>9 DEF Tick, vars, remote, files, locals, StatusInv, Alone, OpenUntouched, Untouched,
     VerifiedIsShown, StillReported, Shows, RecordedStatusMatchesIssue, Busy
<1>10. QED
  BY <1>1, <1>2, <1>3, <1>4, <1>5, <1>6, <1>7, <1>8, <1>9 DEF Next, Finalize, Release

\* The recorded status of a run whose issue nobody else claims or edits is what
\* the issue shows, however commands for it overlap.
THEOREM StatusIsShown == Spec => []RecordedStatusMatchesIssue
<1>1. ASSUME Init PROVE TodoIsRemovable /\ StatusInv
  <2>1. /\ state = "open"
        /\ \A a \in Actor : pc[a] = "idle"
        /\ \A r \in Run : recorded[r] = "none"
    BY <1>1 DEF Init
  <2>2. QED
    BY <2>1 DEF TodoIsRemovable, StatusInv, OpenUntouched, VerifiedIsShown,
                RecordedStatusMatchesIssue
<1>2. StatusInv => RecordedStatusMatchesIssue
  BY DEF StatusInv
<1>3. QED
  BY <1>1, <1>2, TodoStep, StatusStep, FollowHolds, TypeInvariant, PTL DEF Spec
=============================================================================
