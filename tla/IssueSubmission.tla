--------------------------- MODULE IssueSubmission ---------------------------
(***************************************************************************)
(* Turning one drafted proposal into one issue on GitHub: `issue draft`,   *)
(* which writes the proposal and a pending row of the submission ledger,   *)
(* `issue mark`, which edits the proposal, and any number of `issue        *)
(* submit`, with or without --resume, one after another or at once.        *)
(*                                                                         *)
(* The ledger is a table of the local store, keyed by the digest of what   *)
(* is submitted.  Only begin_issue_submission compares before it writes;   *)
(* every later write of a submit is a plain UPDATE.  A request to GitHub   *)
(* may fail before or after its effect, and a submit may end at any point: *)
(* by an error that a `?` returns, or because the process dies.            *)
(***************************************************************************)
EXTENDS Naturals

CONSTANTS
  Submitter,  \* executions of `issue submit` of the proposal
  Issue,      \* the issues that can be created of it
  None,       \* no issue
  Verdicts,   \* what dedupe may say on account of everybody else's issues
  MaxMarks    \* bound: marks that change the digest

Dedupe == {"unique", "possible_duplicate", "duplicate_blocked"}

ASSUME ConstantsAssumption ==
  /\ None \notin Issue
  /\ Verdicts \subseteq Dedupe
  /\ MaxMarks \in Nat

\* The digest of the proposal after so many marks: a mark adds to its
\* provenance, which is a part of the digest that a local set is submitted
\* under.  The digest of a tracker-backed proposal is computed once.
Digest == 0..MaxMarks

VARIABLES
  draft,     \* where `issue draft` is
  proposal,  \* the proposal in issue_proposals.json, and the mode of its set
  ledger,    \* issue_submission_ledger: a row per digest
  github,    \* the issues: the digest in the body's marker, whether GitHub
             \* applied all requested metadata, whether it is a sub-issue
  submit     \* each submit: where it is, its flags, and what it has read

vars == <<draft, proposal, ledger, github, submit>>

\* The code knows a state "failed" too, which nothing writes.
Named == {"created", "linked", "created_unlinked", "created_metadata_mismatch"}
RowStates == {"absent", "pending", "submitted"} \cup Named
Steps == {"fetch", "plan", "begin", "create", "search", "record", "top_level",
          "link", "record_linked", "record_unlinked"}

\* `duplicate` is a submit that ended in a refusal by the duplicate policy.
Ends == {"duplicate", "ended"}

\* What a submit knows: its place and flags, what it has read of the proposal,
\* the issue it works on, whether that is whole, and whether it created it.
SubmitRecord ==
  [at : {"idle"} \cup Steps \cup Ends, resume : BOOLEAN, override : BOOLEAN,
   digest : Digest, dedupe : Dedupe \cup {"deferred"},
   issue : Issue \cup {None}, whole : BOOLEAN, fresh : BOOLEAN]

TypeOK ==
  /\ draft \in {"drafting", "materializing", "done"}
  /\ proposal \in [local : BOOLEAN, parent : BOOLEAN, fields : BOOLEAN,
                   digest : Digest, dedupe : Dedupe \cup {"deferred"}]
  /\ ledger \in [Digest -> [state : RowStates, issue : Issue \cup {None}]]
  /\ github \in [Issue -> [exists : BOOLEAN, digest : Digest,
                           whole : BOOLEAN, linked : BOOLEAN]]
  /\ submit \in [Submitter -> SubmitRecord]

At(place) ==
  [at |-> place, resume |-> FALSE, override |-> FALSE, digest |-> 0,
   dedupe |-> "deferred", issue |-> None, whole |-> FALSE, fresh |-> FALSE]

Init ==
  /\ draft = "drafting"
  /\ proposal \in [local : BOOLEAN, parent : BOOLEAN, fields : BOOLEAN,
                   digest : {0}, dedupe : {"deferred"}]
  /\ ledger = [d \in Digest |-> [state |-> "absent", issue |-> None]]
  /\ github = [i \in Issue |->
                [exists |-> FALSE, digest |-> 0, whole |-> FALSE, linked |-> FALSE]]
  /\ submit = [s \in Submitter |-> At("idle")]

-----------------------------------------------------------------------------
\* issue draft: the artifacts first, then, for a tracker-backed set, the ledger

WriteProposals ==
  /\ draft = "drafting"
  /\ \E verdict \in Verdicts :
       proposal' = [proposal EXCEPT !.dedupe = IF proposal.local THEN "deferred" ELSE verdict]
  /\ draft' = IF proposal.local THEN "done" ELSE "materializing"
  /\ UNCHANGED <<ledger, github, submit>>

\* materialize_issue_submission_pending: INSERT OR IGNORE.
MaterializePending ==
  /\ draft = "materializing"
  /\ ledger' = [ledger EXCEPT ![0].state = IF @ = "absent" THEN "pending" ELSE @]
  /\ draft' = "done"
  /\ UNCHANGED <<proposal, github, submit>>

\* issue mark
Mark(verdict) ==
  /\ draft # "drafting"
  /\ proposal.local => proposal.digest < MaxMarks
  /\ proposal' = [proposal EXCEPT !.dedupe = verdict,
                                  !.digest = IF proposal.local THEN @ + 1 ELSE @]
  /\ UNCHANGED <<draft, ledger, github, submit>>

-----------------------------------------------------------------------------
\* issue submit

Become(s, x) == submit' = [submit EXCEPT ![s] = x]
GoTo(s, place) == submit' = [submit EXCEPT ![s].at = place]
End(s) == Become(s, At("ended"))

\* It reads the stored proposal.
Start(s) ==
  /\ submit[s].at = "idle"
  /\ draft # "drafting"
  /\ \E resume, override \in BOOLEAN :
       Become(s, [At(IF proposal.local THEN "fetch" ELSE "plan") EXCEPT
                    !.resume = resume, !.override = override,
                    !.digest = proposal.digest, !.dedupe = proposal.dedupe])
  /\ UNCHANGED <<draft, proposal, ledger, github>>

\* prepare_issue_submission_proposal: a local proposal is classified against the
\* candidates of the target, whatever its stored verdict.  An issue that was
\* created of the proposal has its title; the query may not list it.
Fetch(s) ==
  /\ submit[s].at = "fetch"
  /\ \E own \in BOOLEAN, others \in Verdicts :
       /\ own => \E i \in Issue : github[i].exists
       /\ Become(s, [submit[s] EXCEPT !.at = "plan",
                       !.dedupe = IF own THEN "duplicate_blocked" ELSE others])
  /\ UNCHANGED <<draft, proposal, ledger, github>>

\* validate_issue_submission_policy
Allowed(x) == x.dedupe = "unique" \/ (x.dedupe = "possible_duplicate" /\ x.override)

\* plan_issue_submission: what a submit does next.  AlreadyLinked and Blocked
\* both end it; a top-level issue needs no link.
Decision(row, resume) ==
  CASE row.state \in {"absent", "pending"}  -> "begin"
    [] row.state = "submitted" /\ resume    -> "search"
    [] /\ row.state \in {"created", "created_unlinked"}
       /\ resume /\ row.issue # None /\ proposal.parent -> "link"
    [] OTHER -> "ended"

Refuse(s) ==
  /\ submit[s].at = "plan"
  /\ ~Allowed(submit[s])
  /\ Become(s, [At("duplicate") EXCEPT !.resume = submit[s].resume,
                                       !.digest = submit[s].digest])
  /\ UNCHANGED <<draft, proposal, ledger, github>>

Plan(s) ==
  /\ submit[s].at = "plan"
  /\ Allowed(submit[s])
  /\ LET row  == ledger[submit[s].digest]
         next == Decision(row, submit[s].resume)
     IN  IF next = "ended"
           THEN End(s)
           ELSE Become(s, [At(next) EXCEPT !.digest = submit[s].digest,
                             !.issue = IF next = "link" THEN row.issue ELSE None])
  /\ UNCHANGED <<draft, proposal, ledger, github>>

\* begin_issue_submission, a transaction: of two submits one finds the row taken.
\* Mutant: a row that is submitted is no obstacle.
BeginBlindly(s) ==
  /\ submit[s].at = "begin"
  /\ IF ledger[submit[s].digest].state \in {"absent", "pending", "submitted"}
       THEN /\ ledger' = [ledger EXCEPT ![submit[s].digest].state = "submitted"]
            /\ GoTo(s, "create")
       ELSE End(s) /\ UNCHANGED ledger
  /\ UNCHANGED <<draft, proposal, github>>
Begin(s) ==
  /\ submit[s].at = "begin"
  /\ IF ledger[submit[s].digest].state \in {"absent", "pending"}
       THEN /\ ledger' = [ledger EXCEPT ![submit[s].digest].state = "submitted"]
            /\ GoTo(s, "create")
       ELSE End(s) /\ UNCHANGED ledger
  /\ UNCHANGED <<draft, proposal, github>>

\* create_issue.  The answer tells whether all metadata was applied; it may be
\* lost, or what follows the request fail (project fields, artifacts).
Create(s) ==
  /\ submit[s].at = "create"
  /\ \E i \in Issue, whole, answered \in BOOLEAN :
       /\ ~github[i].exists
       /\ github' = [github EXCEPT ![i] = [exists |-> TRUE, digest |-> submit[s].digest,
                                           whole |-> whole, linked |-> FALSE]]
       /\ IF answered
            THEN Become(s, [submit[s] EXCEPT !.at = "record", !.issue = i,
                              !.whole = whole, !.fresh = TRUE])
            ELSE End(s)
  /\ UNCHANGED <<draft, proposal, ledger>>

\* recover_created_issue_by_marker.  The index may lag; a recovered issue shows
\* no project fields, so a proposal that asks for some never matches.
Carriers(d) == {i \in Issue : github[i].exists /\ github[i].digest = d}

\* Mutant: the recovered issue is not compared.
SearchUncompared(s) ==
  /\ submit[s].at = "search"
  /\ \E found \in SUBSET Carriers(submit[s].digest) :
       \/ \E i \in Issue :
            /\ found = {i}
            /\ Become(s, [submit[s] EXCEPT !.at = "record", !.issue = i, !.whole = TRUE])
       \/ (\A i \in Issue : found # {i}) /\ End(s)
  /\ UNCHANGED <<draft, proposal, ledger, github>>
Search(s) ==
  /\ submit[s].at = "search"
  /\ \E found \in SUBSET Carriers(submit[s].digest) :
       \/ \E i \in Issue :
            /\ found = {i}
            /\ Become(s, [submit[s] EXCEPT !.at = "record", !.issue = i,
                            !.whole = github[i].whole /\ ~proposal.fields])
       \/ (\A i \in Issue : found # {i}) /\ End(s)
  /\ UNCHANGED <<draft, proposal, ledger, github>>

\* record_issue_submission_state: an UPDATE of the row, if there is one.
Recorded(x, state) ==
  [ledger EXCEPT ![x.digest] =
     IF @.state = "absent" THEN @ ELSE [state |-> state, issue |-> x.issue]]

RecordCreated(s) ==
  /\ submit[s].at = "record"
  /\ IF submit[s].whole
       THEN /\ ledger' = Recorded(submit[s], "created")
            /\ GoTo(s, IF proposal.parent THEN "link" ELSE "top_level")
       ELSE /\ ledger' = Recorded(submit[s], "created_metadata_mismatch")
            /\ End(s)
  /\ UNCHANGED <<draft, proposal, github>>

RecordTopLevel(s) ==
  /\ submit[s].at = "top_level"
  /\ ledger' = Recorded(submit[s], "linked")
  /\ End(s)
  /\ UNCHANGED <<draft, proposal, github>>

\* link_issue
Link(s) ==
  /\ submit[s].at = "link"
  /\ github' = [github EXCEPT ![submit[s].issue].linked = TRUE]
  /\ GoTo(s, "record_linked")
  /\ UNCHANGED <<draft, proposal, ledger>>

\* It fails, or its answer is lost.  Only the submit that created the issue
\* records that; another returns the error.
LinkFails(s) ==
  /\ submit[s].at = "link"
  /\ \E effect \in BOOLEAN :
       github' = [github EXCEPT ![submit[s].issue].linked = @ \/ effect]
  /\ IF submit[s].fresh THEN GoTo(s, "record_unlinked") ELSE End(s)
  /\ UNCHANGED <<draft, proposal, ledger>>

RecordLinked(s) ==
  /\ submit[s].at = "record_linked"
  /\ ledger' = Recorded(submit[s], "linked")
  /\ End(s)
  /\ UNCHANGED <<draft, proposal, github>>

\* Mutant: the failed link is recorded as one.
RecordFailedLink(s) ==
  /\ submit[s].at = "record_unlinked"
  /\ ledger' = Recorded(submit[s], "linked")
  /\ End(s)
  /\ UNCHANGED <<draft, proposal, github>>
RecordUnlinked(s) ==
  /\ submit[s].at = "record_unlinked"
  /\ ledger' = Recorded(submit[s], "created_unlinked")
  /\ End(s)
  /\ UNCHANGED <<draft, proposal, github>>

\* An error between the steps or before the effect of one, or a crash.
Stop(s) ==
  /\ submit[s].at \in Steps
  /\ End(s)
  /\ UNCHANGED <<draft, proposal, ledger, github>>

-----------------------------------------------------------------------------
Submit(s) ==
  \/ Start(s) \/ Fetch(s) \/ Refuse(s) \/ Plan(s) \/ Begin(s) \/ Create(s) \/ Search(s)
  \/ RecordCreated(s) \/ RecordTopLevel(s)
  \/ Link(s) \/ LinkFails(s) \/ RecordLinked(s) \/ RecordUnlinked(s)
  \/ Stop(s)

Next ==
  \/ WriteProposals \/ MaterializePending
  \/ \E verdict \in {"unique", "duplicate_blocked"} : Mark(verdict)
  \/ \E s \in Submitter : Submit(s)

Spec == Init /\ [][Next]_vars

-----------------------------------------------------------------------------
\* Properties

\* However often a proposal is submitted, resumed, or submitted by two at once,
\* and whatever is lost on the way, no two issues carry the marker of the same
\* digest, and a tracker-backed proposal becomes at most one issue.
OneIssuePerMarker ==
  \A i, j \in Issue :
    github[i].exists /\ github[j].exists /\ i # j =>
      proposal.local /\ github[i].digest # github[j].digest

\* A row that names an issue names the one that carries the row's digest, and
\* a row says linked only of an issue that is a sub-issue, or needs no parent:
\* late, repeated and overlapping records never make the ledger claim more than
\* GitHub shows.
LedgerIsTruthful ==
  \A d \in Digest :
    LET row == ledger[d] IN
      /\ row.state \in Named <=> row.issue # None
      /\ row.issue # None => row.issue \in Carriers(d)
      /\ row.state = "linked" /\ proposal.parent => github[row.issue].linked

\* An issue that GitHub created without some of the requested metadata is left to
\* people: no submit links it to the parent, not even after a recovery.
LinkedIsWhole == \A i \in Issue : github[i].linked => github[i].whole
=============================================================================
