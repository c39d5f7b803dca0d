--------------------------- MODULE IssueLifecycle ---------------------------
(***************************************************************************)
(* One GitHub issue, the claim protocol of GithubRestAdapter::claim, the   *)
(* mutations of GithubRestAdapter::release, and their callers: cmd_run of  *)
(* `agentactr run issue` and cmd_finalize of `agentactr finalize`.         *)
(*                                                                         *)
(* Every HTTP request of the adapter is a step, so that requests of        *)
(* several machines interleave.  A Run is one execution of `run issue` for *)
(* this issue, each on a machine of its own (LocalLease is about runs of   *)
(* one machine); a Command is one execution of `finalize`.  A request that *)
(* fails, or whose answer is lost, ends its actor (Abort), as `?` does.    *)
(***************************************************************************)
EXTENDS Integers, Sequences

CONSTANTS
  Run,       \* executions of `run issue`
  Command,   \* executions of `finalize`
  Policy,    \* "require_human_review" or "automatic_after_quality_gates"
  Overlap,   \* may `finalize` start, or a person edit the issue, while another
             \* actor is under way?
  Ttl,       \* scheduling.lease_ttl_ms
  MaxTime,   \* bound: the last instant of a behaviour
  MaxEdits   \* bound: how often a person edits the issue

ASSUME ConstantsAssumption ==
  /\ Run \cap Command = {}
  /\ Policy \in {"require_human_review", "automatic_after_quality_gates"}
  /\ Overlap \in BOOLEAN
  /\ Ttl \in Nat \ {0}
  /\ MaxTime \in Nat
  /\ MaxEdits \in Nat

Actor == Run \cup Command

Labels == {"blocked", "claimed", "running", "failed", "done"}

\* The ReleaseRequest of each IssueLifecycleMode, named by the status that
\* the mode reports.  Labels are removed in sorted order.
Modes == {"review_required", "finalized", "failed", "review_rejected"}
Adds(mode) ==
  CASE mode = "finalized" -> {"done"}
    [] mode = "failed"    -> {"failed"}
    [] OTHER              -> {}
\* Mutant: finalization leaves the claim label.
RemovesTooFew(mode) ==
  IF mode = "finalized" THEN <<"failed", "running">> ELSE <<"running">>
Removes(mode) ==
  IF mode = "finalized" THEN <<"claimed", "failed", "running">> ELSE <<"running">>
Closes(mode) == mode = "finalized"

\* lifecycle_mode_for_run_policy after gates that passed.
\* Mutant: the policy is not consulted.
SuccessModeUnreviewed == "finalized"
SuccessMode ==
  IF Policy = "require_human_review" THEN "review_required" ELSE "finalized"

VARIABLES
  clock,     \* wall clock of all machines
  state,     \* the issue: "open" or "closed",
  labels,    \*   its labels,
  marker,    \*   expires_at of each run's claim comment, 0 if there is none,
  summaries, \*   how many summary comments of each kind each run has there
  recorded,  \* finalization_status.json of each run
  quality,   \* quality_report.status.json of each run
  manifest,  \* whether a run has written context_manifest.json
  pc,        \* the next request of each actor
  expiry,    \* a run's lease_expires_at
  seen,      \* the runs whose claim comment a run's scan returned
  req,       \* the run and mode of an actor's release
  todo,      \* the labels it has yet to remove
  got,       \* the labels its mutation has reported
  edits      \* how often a person has edited the issue

remote == <<state, labels, marker, summaries>>
files  == <<recorded, quality, manifest>>
locals == <<expiry, seen, req, todo, got>>
vars   == <<clock, remote, files, pc, locals, edits>>

ClaimSteps   == {"scan", "mark", "label", "reread", "recheck"}
ReleaseSteps == {"summary", "post", "add", "remove", "gone", "settle", "confirm", "record"}

TypeOK ==
  /\ clock \in 0 .. MaxTime
  /\ state \in {"open", "closed"}
  /\ labels \subseteq Labels
  /\ marker \in [Run -> Nat]
  /\ summaries \in [Run -> [Modes -> Nat]]
  /\ recorded \in [Run -> Modes \cup {"none", "claim_not_acquired"}]
  /\ quality \in [Run -> {"none", "failed", "passed"}]
  /\ manifest \in [Run -> BOOLEAN]
  /\ pc \in [Actor -> {"idle", "working", "ended"} \cup ClaimSteps \cup ReleaseSteps]
  /\ expiry \in [Run -> Nat]
  /\ seen \in [Run -> SUBSET Run]
  /\ req \in [Actor -> [run : Actor, mode : Modes \cup {"none"}]]
  /\ todo \in [Actor -> Seq(Labels)]
  /\ got \in [Actor -> SUBSET Labels]
  /\ edits \in 0 .. MaxEdits

Init ==
  /\ clock = 0
  /\ state = "open"
  /\ labels = {}
  /\ marker = [r \in Run |-> 0]
  /\ summaries = [r \in Run |-> [m \in Modes |-> 0]]
  /\ recorded = [r \in Run |-> "none"]
  /\ quality = [r \in Run |-> "none"]
  /\ manifest = [r \in Run |-> FALSE]
  /\ pc = [a \in Actor |-> "idle"]
  /\ expiry = [r \in Run |-> 0]
  /\ seen = [r \in Run |-> {}]
  /\ req = [a \in Actor |-> [run |-> a, mode |-> "none"]]
  /\ todo = [a \in Actor |-> <<>>]
  /\ got = [a \in Actor |-> {}]
  /\ edits = 0

GoTo(a, step) == pc' = [pc EXCEPT ![a] = step]
Undisturbed == Overlap \/ \A a \in Actor : pc[a] \in {"idle", "ended"}
Record(r, status) == recorded' = [recorded EXCEPT ![r] = status]

-----------------------------------------------------------------------------
\* claim, for run r

\* The request is built, with its expiry, and fetch_issue reads the issue.
FetchForClaim(r) ==
  /\ pc[r] = "idle"
  /\ expiry' = [expiry EXCEPT ![r] = clock + Ttl]
  /\ GoTo(r, IF state = "open" /\ "blocked" \notin labels THEN "scan" ELSE "ended")
  /\ UNCHANGED <<clock, remote, files, seen, req, todo, got, edits>>

Marked == {q \in Run : marker[q] # 0}

\* Mutant: an expired marker is told from a live one with the run's own
\* expiry.
LiveForeignAtExpiry(r) == {q \in Marked \ {r} : marker[q] > expiry[r]}
LiveForeign(r) == {q \in Marked \ {r} : marker[q] > clock}

\* list_issue_comments reads the claim comments.  An unexpired one of another
\* run ends the claim: cmd_run records claim_not_acquired and returns Err.
ScanMarkers(r) ==
  /\ pc[r] = "scan"
  /\ IF LiveForeign(r) = {}
       THEN /\ GoTo(r, "mark")
            /\ seen' = [seen EXCEPT ![r] = Marked \ {r}]
            /\ UNCHANGED recorded
       ELSE /\ GoTo(r, "ended")
            /\ Record(r, "claim_not_acquired")
            /\ UNCHANGED seen
  /\ UNCHANGED <<clock, remote, quality, manifest, expiry, req, todo, got, edits>>

\* upsert_lifecycle_comment creates the run's claim comment.
PostMarker(r) ==
  /\ pc[r] = "mark"
  /\ marker' = [marker EXCEPT ![r] = expiry[r]]
  /\ GoTo(r, "label")
  /\ UNCHANGED <<clock, state, labels, summaries, files, locals, edits>>

\* apply_issue_labels adds both labels.
AddClaimLabels(r) ==
  /\ pc[r] = "label"
  /\ labels' = labels \cup {"claimed", "running"}
  /\ GoTo(r, "reread")
  /\ UNCHANGED <<clock, state, marker, summaries, files, locals, edits>>

\* fetch_issue: the labels must be there.
RereadIssue(r) ==
  /\ pc[r] = "reread"
  /\ got' = [got EXCEPT ![r] = labels]
  /\ GoTo(r, "recheck")
  /\ UNCHANGED <<clock, remote, files, expiry, seen, req, todo, edits>>

\* list_issue_comments: so must the run's own marker.  Other markers are not
\* looked at, nor is the state of the issue.
RecheckMarker(r) ==
  /\ pc[r] = "recheck"
  /\ IF {"claimed", "running"} \subseteq got[r] /\ marker[r] = expiry[r]
       THEN GoTo(r, "working") /\ UNCHANGED recorded
       ELSE GoTo(r, "ended") /\ Record(r, "claim_not_acquired")
  /\ got' = [got EXCEPT ![r] = {}]
  /\ UNCHANGED <<clock, remote, quality, manifest, expiry, seen, req, todo, edits>>

-----------------------------------------------------------------------------
\* cmd_run from the claim to the release

StartRelease(a, r, mode) ==
  /\ req' = [req EXCEPT ![a] = [run |-> r, mode |-> mode]]
  /\ GoTo(a, "summary")

\* run_issue fails, before or after the context manifest is written.
RuntimeFails(r) ==
  /\ pc[r] = "working"
  /\ \E written \in BOOLEAN : manifest' = [manifest EXCEPT ![r] = written]
  /\ StartRelease(r, r, "failed")
  /\ UNCHANGED <<clock, remote, recorded, quality, expiry, seen, todo, got, edits>>

\* run_issue succeeds and the quality gates are run and recorded.
GatesRun(r, verdict) ==
  /\ pc[r] = "working"
  /\ manifest' = [manifest EXCEPT ![r] = TRUE]
  /\ quality' = [quality EXCEPT ![r] = verdict]
  /\ StartRelease(r, r, IF verdict = "passed" THEN SuccessMode ELSE "failed")
  /\ UNCHANGED <<clock, remote, recorded, expiry, seen, todo, got, edits>>

-----------------------------------------------------------------------------
\* cmd_finalize

\* validate_recorded_finalization_status
StatusPermits(decision, resume, prior) ==
  IF decision = "approve"
    THEN prior = "review_required" \/ (resume /\ prior = "finalized")
    ELSE prior \in {"review_required", "failed"} \/ (resume /\ prior = "review_rejected")

\* load_recorded_quality_summary
QualityPermits(decision, verdict) == decision = "approve" => verdict = "passed"

\* The artifacts of r are read and the tracker is called; a command that is
\* refused here has done nothing.
StartFinalize(c, r, decision, resume) ==
  /\ pc[c] = "idle"
  /\ Undisturbed
  /\ manifest[r]
  /\ StatusPermits(decision, resume, recorded[r])
  /\ QualityPermits(decision, quality[r])
  /\ StartRelease(c, r, IF decision = "approve" THEN "finalized" ELSE "review_rejected")
  /\ UNCHANGED <<clock, remote, files, expiry, seen, todo, got, edits>>

-----------------------------------------------------------------------------
\* release, for actor a

\* upsert_lifecycle_comment lists the comments.  A summary of this kind by
\* this run is updated; otherwise the next request creates it.
\* Mutant: the marker identity never matches.
ListSummariesNoMatch(a) ==
  /\ pc[a] = "summary"
  /\ GoTo(a, "post")
  /\ UNCHANGED <<clock, remote, files, locals, edits>>
ListSummaries(a) ==
  /\ pc[a] = "summary"
  /\ GoTo(a, IF summaries[req[a].run][req[a].mode] = 0 THEN "post" ELSE "add")
  /\ UNCHANGED <<clock, remote, files, locals, edits>>

PostSummary(a) ==
  /\ pc[a] = "post"
  /\ summaries' = [summaries EXCEPT ![req[a].run][req[a].mode] = @ + 1]
  /\ GoTo(a, "add")
  /\ UNCHANGED <<clock, state, labels, marker, files, locals, edits>>

\* apply_issue_labels: POST the added labels, if any ...
AddLabels(a) ==
  /\ pc[a] = "add"
  /\ labels' = labels \cup Adds(req[a].mode)
  /\ todo' = [todo EXCEPT ![a] = Removes(req[a].mode)]
  /\ GoTo(a, "remove")
  /\ UNCHANGED <<clock, state, marker, summaries, files, expiry, seen, req, got, edits>>

\* ... DELETE the removed ones one by one.  A label that is absent is a 404,
\* after which the issue is fetched: a label that has come back is an error.
RemoveLabel(a) ==
  /\ pc[a] = "remove"
  /\ todo[a] # <<>>
  /\ IF Head(todo[a]) \in labels
       THEN /\ labels' = labels \ {Head(todo[a])}
            /\ todo' = [todo EXCEPT ![a] = Tail(@)]
            /\ UNCHANGED pc
       ELSE /\ GoTo(a, "gone")
            /\ UNCHANGED <<labels, todo>>
  /\ UNCHANGED <<clock, state, marker, summaries, files, expiry, seen, req, got, edits>>

CheckGone(a) ==
  /\ pc[a] = "gone"
  /\ IF Head(todo[a]) \in labels
       THEN GoTo(a, "ended") /\ UNCHANGED todo
       ELSE GoTo(a, "remove") /\ todo' = [todo EXCEPT ![a] = Tail(@)]
  /\ UNCHANGED <<clock, remote, files, expiry, seen, req, got, edits>>

\* The PATCH that closes the issue, or a fetch: either reports the labels.
Settle(a) ==
  /\ pc[a] = "remove"
  /\ todo[a] = <<>>
  /\ state' = IF Closes(req[a].mode) THEN "closed" ELSE state
  /\ got' = [got EXCEPT ![a] = labels]
  /\ GoTo(a, "confirm")
  /\ UNCHANGED <<clock, labels, marker, summaries, files, expiry, seen, req, todo, edits>>

\* The final fetch, and the comparison with what was asked for.
Verified(a) ==
  /\ Adds(req[a].mode) \subseteq got[a]
  /\ \A i \in 1 .. Len(Removes(req[a].mode)) : Removes(req[a].mode)[i] \notin got[a]
  /\ Closes(req[a].mode) => state = "closed"

Confirm(a) ==
  /\ pc[a] = "confirm"
  /\ GoTo(a, IF Verified(a) THEN "record" ELSE "ended")
  /\ got' = [got EXCEPT ![a] = {}]
  /\ UNCHANGED <<clock, remote, files, expiry, seen, req, todo, edits>>

\* record_finalization_status
RecordStatus(a) ==
  /\ pc[a] = "record"
  /\ Record(req[a].run, req[a].mode)
  /\ GoTo(a, "ended")
  /\ UNCHANGED <<clock, remote, quality, manifest, locals, edits>>

-----------------------------------------------------------------------------
\* The environment

\* A request fails or its answer is lost, or the process dies.
Abort(a) ==
  /\ pc[a] \notin {"idle", "ended"}
  /\ GoTo(a, "ended")
  /\ UNCHANGED <<clock, remote, files, locals, edits>>

\* A person reopens the issue, or adds or removes a label.
Edit ==
  /\ edits < MaxEdits
  /\ Undisturbed
  /\ edits' = edits + 1
  /\ \/ state = "closed" /\ state' = "open" /\ UNCHANGED labels
     \/ \E label \in {"blocked", "running"} :
          /\ labels' = IF label \in labels THEN labels \ {label} ELSE labels \cup {label}
          /\ UNCHANGED state
  /\ UNCHANGED <<clock, marker, summaries, files, pc, locals>>

Tick ==
  /\ clock < MaxTime
  /\ clock' = clock + 1
  /\ UNCHANGED <<remote, files, pc, locals, edits>>

Claim(r) ==
  \/ FetchForClaim(r)
  \/ ScanMarkers(r)
  \/ PostMarker(r)
  \/ AddClaimLabels(r)
  \/ RereadIssue(r)
  \/ RecheckMarker(r)

Work(r) == RuntimeFails(r) \/ \E verdict \in {"failed", "passed"} : GatesRun(r, verdict)

Finalize(c) ==
  \E r \in Run, decision \in {"approve", "reject"}, resume \in BOOLEAN :
    StartFinalize(c, r, decision, resume)

Release(a) ==
  \/ ListSummaries(a)
  \/ PostSummary(a)
  \/ AddLabels(a)
  \/ RemoveLabel(a)
  \/ CheckGone(a)
  \/ Settle(a)
  \/ Confirm(a)
  \/ RecordStatus(a)

Next ==
  \/ \E r \in Run : Claim(r) \/ Work(r)
  \/ \E c \in Command : Finalize(c)
  \/ \E a \in Actor : Release(a) \/ Abort(a)
  \/ Edit
  \/ Tick

Spec == Init /\ [][Next]_vars

-----------------------------------------------------------------------------
\* Properties

\* A run whose claim was accepted and that has not ended.
Holding(r) == pc[r] = "working" \/ pc[r] \in ReleaseSteps

\* While a run holds the issue, no other run's marker that its scan returned
\* is alive: two live claims are only ever held at once if each run scanned
\* before the other's marker was there.
OverlapOnlyByRace ==
  \A r, q \in Run : Holding(r) /\ q \in seen[r] => marker[q] <= clock

\* Under require_human_review the issue is closed or labelled done only by an
\* approved `finalize` of a run whose quality gates passed, whatever runs and
\* commands fail, end or interleave.
TerminalMutationNeedsApproval ==
  Policy = "require_human_review" /\ (state = "closed" \/ "done" \in labels) =>
    \E c \in Command : req[c].mode = "finalized" /\ quality[req[c].run] = "passed"

\* The recorded status of a run is what the issue shows, although recording
\* and mutating are separate steps that can fail in between, as long as nobody
\* else claims or edits the issue: a finalized run's issue is closed, done and
\* has no other lifecycle label, a failed run's issue is open, labelled failed
\* and not running.
Alone(r) == edits = 0 /\ \A q \in Run \ {r} : pc[q] = "idle"

RecordedStatusMatchesIssue ==
  \A r \in Run : Alone(r) =>
    /\ recorded[r] = "finalized" =>
         state = "closed" /\ labels \cap {"claimed", "running", "failed", "done"} = {"done"}
    /\ recorded[r] = "failed" =>
         state = "open" /\ "failed" \in labels /\ "running" \notin labels

\* However often a release is retried, by the run, by `finalize` or by
\* `finalize --resume`, a run has one summary comment of each kind.
OneSummaryPerKind == \A r \in Run, m \in Modes : summaries[r][m] <= 1

\* Two runs never both hold the issue with an unexpired claim.
\* (Refuted: see the README.)
AcceptedClaimsAreExclusive ==
  \A r, q \in Run :
    Holding(r) /\ Holding(q) /\ marker[r] > clock /\ marker[q] > clock => r = q
=============================================================================
