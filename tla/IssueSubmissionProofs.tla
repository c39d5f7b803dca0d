------------------------ MODULE IssueSubmissionProofs ------------------------
(***************************************************************************)
(* Theorems about IssueSubmission, for any submits, issues and marks; about*)
(* GithubProvisioning, for any submitters, proposals, settings, projects   *)
(* and edits by people; about GithubListing, for any items, queries, pages *)
(* and changes; and about GithubTransport, which carries the requests of   *)
(* all, for any number of requests and any refusals.                       *)
(***************************************************************************)
EXTENDS MCIssueSubmission, Integers, Sequences, FiniteSetTheorems, TLAPS

-----------------------------------------------------------------------------
\* The inductive invariant

\* A submit that holds an issue, and one that has passed the ledger.
Holding(s) == submit[s].at \in {"record", "top_level", "link", "record_linked", "record_unlinked"}
Begun(s) == Holding(s) \/ submit[s].at \in {"create", "search"}

\* All submits and issues of a tracker-backed proposal use the one digest it has.
OneDigest ==
  ~proposal.local =>
    /\ proposal.digest = 0
    /\ \A s \in Submitter : submit[s].digest = 0
    /\ \A i \in Issue : github[i].exists => github[i].digest = 0

\* A row that is not taken: nothing has been done under its digest.
FreeRowsAreUnused ==
  \A d \in Digest : ledger[d].state \in {"absent", "pending"} =>
    /\ Carriers(d) = {}
    /\ \A s \in Submitter : submit[s].digest = d => ~Begun(s)

\* The submit that may send the request is alone, and it has not been sent.
CreatorIsAlone ==
  \A s \in Submitter : submit[s].at = "create" =>
    /\ Carriers(submit[s].digest) = {}
    /\ \A t \in Submitter : submit[t].at = "create" /\ submit[t].digest = submit[s].digest => t = s

\* What a submit that holds an issue knows of it.
HeldIssues ==
  \A s \in Submitter : Holding(s) =>
    LET i == submit[s].issue IN
      /\ i \in Carriers(submit[s].digest)
      /\ submit[s].at = "record" => (submit[s].whole => github[i].whole)
      /\ submit[s].at # "record" => github[i].whole
      /\ submit[s].at = "record_linked" => github[i].linked
      /\ submit[s].at = "top_level" => ~proposal.parent

\* A row that can be linked names an issue that is whole.
RowsAreWhole ==
  \A d \in Digest : ledger[d].state \in {"created", "linked", "created_unlinked"} =>
    github[ledger[d].issue].whole

Inv ==
  /\ TypeOK
  /\ OneDigest
  /\ FreeRowsAreUnused
  /\ CreatorIsAlone
  /\ HeldIssues
  /\ RowsAreWhole
  /\ OneIssuePerMarker
  /\ LedgerIsTruthful
  /\ LinkedIsWhole

-----------------------------------------------------------------------------
USE DEF Become, GoTo, End

LEMMA DigestZero == 0 \in Digest
BY ConstantsAssumption DEF Digest

\* The invariant holds at the start.
LEMMA Start0 == Init => Inv
<1> SUFFICES ASSUME Init PROVE Inv
  OBVIOUS
<1>1. TypeOK
  BY DigestZero DEF Init, TypeOK, SubmitRecord, At, RowStates, Steps, Ends
<1>2. \A i \in Issue : ~github[i].exists /\ ~github[i].linked
  BY DEF Init
<1>3. \A d \in Digest : ledger[d].state = "absent" /\ ledger[d].issue = None
  BY DEF Init
<1>4. \A s \in Submitter : submit[s].at = "idle" /\ submit[s].digest = 0
  BY DEF Init, At
<1>5. \A d \in Digest : Carriers(d) = {}
  BY <1>2 DEF Carriers
<1>6. OneDigest
  BY <1>2, <1>4 DEF OneDigest, Init
<1>7. FreeRowsAreUnused /\ CreatorIsAlone /\ HeldIssues
  BY <1>4, <1>5 DEF FreeRowsAreUnused, CreatorIsAlone, HeldIssues, Holding, Begun
<1>8. RowsAreWhole /\ LedgerIsTruthful
  BY <1>3 DEF RowsAreWhole, LedgerIsTruthful, Named
<1>9. OneIssuePerMarker /\ LinkedIsWhole
  BY <1>2 DEF OneIssuePerMarker, LinkedIsWhole
<1>10. QED
  BY <1>1, <1>6, <1>7, <1>8, <1>9 DEF Inv

LEMMA Typing ==
  ASSUME TypeOK, HeldIssues, [Next]_vars
  PROVE  TypeOK'
<1> USE DigestZero
<1>1. \A place \in {"idle"} \cup Steps \cup Ends : At(place) \in SubmitRecord
  BY DEF At, SubmitRecord
<1>2. CASE WriteProposals
  BY <1>2, ConstantsAssumption DEF WriteProposals, TypeOK
<1>3. CASE MaterializePending
  BY <1>3 DEF MaterializePending, TypeOK, RowStates
<1>4. ASSUME NEW verdict \in {"unique", "duplicate_blocked"}, Mark(verdict)
      PROVE  TypeOK'
  <2>1. proposal.local => proposal.digest + 1 \in Digest
    BY <1>4, ConstantsAssumption DEF Mark, TypeOK, Digest
  <2>2. QED
    BY <1>4, <2>1 DEF Mark, TypeOK, Dedupe
<1>5. ASSUME NEW s \in Submitter, Submit(s)
      PROVE  TypeOK'
  <2> DEFINE x == submit[s]
  <2>1. x \in SubmitRecord /\ x.digest \in Digest
    BY DEF TypeOK, SubmitRecord
  <2>2. End(s) => submit' \in [Submitter -> SubmitRecord]
    BY <1>1 DEF TypeOK, Ends
  <2>3. ASSUME NEW place \in Steps, GoTo(s, place)
        PROVE  submit' \in [Submitter -> SubmitRecord]
    <3>1. [x EXCEPT !.at = place] \in SubmitRecord
      BY <2>1 DEF SubmitRecord
    <3>2. QED
      BY <2>3, <3>1 DEF TypeOK
  <2>4. CASE Start(s)
    <3>1. PICK resume \in BOOLEAN, override \in BOOLEAN :
            submit' = [submit EXCEPT ![s] =
                        [At(IF proposal.local THEN "fetch" ELSE "plan") EXCEPT
                          !.resume = resume, !.override = override,
                          !.digest = proposal.digest, !.dedupe = proposal.dedupe]]
      BY <2>4 DEF Start
    <3>2. proposal.digest \in Digest /\ proposal.dedupe \in Dedupe \cup {"deferred"}
      BY DEF TypeOK
    <3>3. submit'[s] \in SubmitRecord
      BY <3>1, <3>2 DEF TypeOK, SubmitRecord, At, Steps
    <3>4. QED
      BY <2>4, <3>1, <3>3 DEF Start, TypeOK
  <2>5. CASE Fetch(s)
    <3>1. PICK verdict \in Dedupe :
            submit' = [submit EXCEPT ![s] = [submit[s] EXCEPT !.at = "plan", !.dedupe = verdict]]
      BY <2>5, ConstantsAssumption DEF Fetch, Dedupe
    <3>2. submit'[s] \in SubmitRecord
      BY <2>1, <3>1 DEF TypeOK, SubmitRecord, Steps
    <3>3. QED
      BY <2>5, <3>1, <3>2 DEF Fetch, TypeOK
  <2>6. CASE Refuse(s)
    <3>1. submit'[s] \in SubmitRecord
      BY <2>1, <2>6 DEF Refuse, TypeOK, SubmitRecord, At, Ends
    <3>2. QED
      BY <2>6, <3>1 DEF Refuse, TypeOK
  <2>7. CASE Plan(s)
    <3> DEFINE next == Decision(ledger[x.digest], x.resume)
    <3>1. next \in {"begin", "search", "link", "ended"}
      BY DEF Decision
    <3>2. ledger[x.digest].issue \in Issue \cup {None}
      BY <2>1 DEF TypeOK
    <3>3. CASE next = "ended"
      BY <2>2, <2>7, <3>3 DEF Plan, TypeOK
    <3>4. CASE next # "ended"
      <4>1. PICK held \in Issue \cup {None} :
              submit' = [submit EXCEPT ![s] =
                          [At(next) EXCEPT !.digest = x.digest, !.issue = held]]
        BY <2>7, <3>2, <3>4 DEF Plan
      <4>2. submit'[s] \in SubmitRecord
        BY <2>1, <3>1, <3>4, <4>1 DEF TypeOK, SubmitRecord, At, Steps
      <4>3. QED
        BY <2>7, <4>1, <4>2 DEF Plan, TypeOK
    <3>5. QED
      BY <3>3, <3>4
  <2>8. CASE Begin(s)
    <3>1. submit' \in [Submitter -> SubmitRecord]
      BY <2>2, <2>3, <2>8 DEF Begin, Steps
    <3>2. ledger' \in [Digest -> [state : RowStates, issue : Issue \cup {None}]]
      <4>1. [ledger[x.digest] EXCEPT !.state = "submitted"]
              \in [state : RowStates, issue : Issue \cup {None}]
        BY <2>1 DEF TypeOK, RowStates
      <4>2. QED
        BY <2>1, <2>8, <4>1 DEF Begin, TypeOK
    <3>3. QED
      BY <2>8, <3>1, <3>2 DEF Begin, TypeOK
  <2>9. CASE Create(s)
    <3>1. PICK i \in Issue, whole \in BOOLEAN :
            /\ github' = [github EXCEPT ![i] = [exists |-> TRUE, digest |-> x.digest,
                                                whole |-> whole, linked |-> FALSE]]
            /\ \/ submit' = [submit EXCEPT ![s] = [x EXCEPT !.at = "record", !.issue = i,
                                                     !.whole = whole, !.fresh = TRUE]]
               \/ End(s)
      BY <2>9 DEF Create
    <3>2. [x EXCEPT !.at = "record", !.issue = i, !.whole = whole, !.fresh = TRUE] \in SubmitRecord
      BY <2>1 DEF SubmitRecord, Steps
    <3>3. submit' \in [Submitter -> SubmitRecord]
      BY <2>2, <3>1, <3>2 DEF TypeOK
    <3>4. QED
      BY <2>1, <2>9, <3>1, <3>3 DEF Create, TypeOK
  <2>10. CASE Search(s)
    <3>1. ASSUME NEW i \in Issue, NEW whole \in BOOLEAN
          PROVE  [x EXCEPT !.at = "record", !.issue = i, !.whole = whole] \in SubmitRecord
      BY <2>1 DEF SubmitRecord, Steps
    <3>2. \A i \in Issue : (github[i].whole /\ ~proposal.fields) \in BOOLEAN
      BY Zenon
    <3>3. \/ \E i \in Issue : submit' = [submit EXCEPT ![s] =
              [submit[s] EXCEPT !.at = "record", !.issue = i,
                                !.whole = github[i].whole /\ ~proposal.fields]]
          \/ End(s)
      BY <2>10, Zenon DEF Search
    <3>4. \/ \E i \in Issue, whole \in BOOLEAN :
               submit' = [submit EXCEPT ![s] =
                           [submit[s] EXCEPT !.at = "record", !.issue = i, !.whole = whole]]
          \/ End(s)
      BY <3>2, <3>3, Zenon
    <3>5. submit' \in [Submitter -> SubmitRecord]
      <4>1. At("ended") \in SubmitRecord
        BY <1>1 DEF Ends
      <4>2. \E y \in SubmitRecord : submit' = [submit EXCEPT ![s] = y]
        BY <3>1, <3>4, <4>1, Zenon
      <4>3. QED
        BY <4>2 DEF TypeOK
    <3>6. QED
      BY <2>10, <3>5 DEF Search, TypeOK
  <2>11. CASE RecordCreated(s) \/ RecordTopLevel(s) \/ RecordLinked(s) \/ RecordUnlinked(s)
    <3>1. \E state \in Named : ledger' = Recorded(x, state)
      BY <2>11 DEF RecordCreated, RecordTopLevel, RecordLinked, RecordUnlinked, Named
    <3>2. ledger' \in [Digest -> [state : RowStates, issue : Issue \cup {None}]]
      <4>1. x.issue \in Issue \cup {None}
        BY <2>1 DEF SubmitRecord
      <4>2. QED
        BY <2>1, <3>1, <4>1 DEF Recorded, TypeOK, RowStates
    <3>3. submit' \in [Submitter -> SubmitRecord]
      BY <2>2, <2>3, <2>11 DEF RecordCreated, RecordTopLevel, RecordLinked, RecordUnlinked, Steps
    <3>4. QED
      BY <2>11, <3>2, <3>3 DEF RecordCreated, RecordTopLevel, RecordLinked, RecordUnlinked, TypeOK
  <2>12. CASE Link(s) \/ LinkFails(s)
    <3>1. submit' \in [Submitter -> SubmitRecord]
      BY <2>2, <2>3, <2>12 DEF Link, LinkFails, Steps
    <3>2. \A i \in Issue, b \in BOOLEAN : (github[i].linked \/ b) \in BOOLEAN
      BY Zenon
    <3>3. x.issue \in Issue
      BY <2>12 DEF HeldIssues, Holding, Carriers, Link, LinkFails
    <3>4. PICK linked \in BOOLEAN :
            github' = [github EXCEPT ![x.issue] = [github[x.issue] EXCEPT !.linked = linked]]
      <4>1. CASE Link(s)
        <5>1. github' = [github EXCEPT ![x.issue] = [github[x.issue] EXCEPT !.linked = TRUE]]
          BY <4>1 DEF Link
        <5>2. QED
          BY <5>1
      <4>2. CASE LinkFails(s)
        <5>1. PICK effect \in BOOLEAN :
                github' = [github EXCEPT ![x.issue].linked = @ \/ effect]
          BY <4>2 DEF LinkFails
        <5>2. github' = [github EXCEPT ![x.issue] =
                          [github[x.issue] EXCEPT !.linked = github[x.issue].linked \/ effect]]
          BY <5>1, Zenon
        <5>3. QED
          BY <3>2, <3>3, <5>2, Zenon
      <4>3. QED
        BY <2>12, <4>1, <4>2
    <3>5. [github[x.issue] EXCEPT !.linked = linked]
            \in [exists : BOOLEAN, digest : Digest, whole : BOOLEAN, linked : BOOLEAN]
      BY <3>3 DEF TypeOK
    <3>6. QED
      BY <2>12, <3>1, <3>3, <3>4, <3>5 DEF Link, LinkFails, TypeOK
  <2>13. CASE Stop(s)
    BY <2>2, <2>13 DEF Stop, TypeOK
  <2>14. QED
    BY <1>5, <2>4, <2>5, <2>6, <2>7, <2>8, <2>9, <2>10, <2>11, <2>12, <2>13 DEF Submit
<1>6. CASE UNCHANGED vars
  BY <1>6 DEF vars, TypeOK
<1>7. QED
  BY <1>2, <1>3, <1>4, <1>5, <1>6 DEF Next

-----------------------------------------------------------------------------
\* A step of submit s that changes neither the ledger nor GitHub.
LEMMA SubmitStep ==
  ASSUME Inv, TypeOK', NEW s \in Submitter,
         UNCHANGED <<proposal, ledger, github>>,
         \A t \in Submitter : t # s => submit'[t] = submit[t],
         ~proposal.local => submit'[s].digest = 0,
         submit'[s].at # "create",
         submit'[s].at = "search" => ledger[submit'[s].digest].state = "submitted",
         Holding(s)' =>
           LET i == submit'[s].issue IN
             /\ i \in Carriers(submit'[s].digest)
             /\ submit'[s].at = "record" => (submit'[s].whole => github[i].whole)
             /\ submit'[s].at # "record" => github[i].whole
             /\ submit'[s].at = "record_linked" => github[i].linked
             /\ submit'[s].at = "top_level" => ~proposal.parent
  PROVE  Inv'
<1> USE DEF Inv
<1>1. \A d \in Digest : Carriers(d)' = Carriers(d)
  BY DEF Carriers
<1>2. submit[s].digest \in Digest /\ submit'[s].digest \in Digest
  BY DEF TypeOK, SubmitRecord
<1>3. OneDigest'
  BY DEF OneDigest
<1>4. FreeRowsAreUnused'
  <2> SUFFICES ASSUME NEW d \in Digest, ledger[d].state \in {"absent", "pending"}
               PROVE  Carriers(d)' = {} /\ \A t \in Submitter : submit'[t].digest = d => ~Begun(t)'
    BY DEF FreeRowsAreUnused
  <2>1. Carriers(d)' = {}
    BY <1>1 DEF FreeRowsAreUnused
  <2>2. ASSUME NEW t \in Submitter, submit'[t].digest = d, t # s
        PROVE  ~Begun(t)'
    BY <2>2 DEF FreeRowsAreUnused, Begun, Holding
  <2>3. submit'[s].digest = d => ~Begun(s)'
    BY <1>1, <2>1 DEF Begun
  <2>4. QED
    BY <2>1, <2>2, <2>3
<1>5. CreatorIsAlone'
  <2> SUFFICES ASSUME NEW t \in Submitter, submit'[t].at = "create"
               PROVE  /\ Carriers(submit[t].digest)' = {}
                      /\ \A u \in Submitter :
                           submit'[u].at = "create" /\ submit'[u].digest = submit'[t].digest => u = t
    BY DEF CreatorIsAlone
  <2>1. t # s /\ submit'[t] = submit[t] /\ submit[t].digest \in Digest
    BY DEF TypeOK, SubmitRecord
  <2>2. QED
    BY <2>1 DEF CreatorIsAlone, Carriers
<1>6. HeldIssues'
  <2> SUFFICES ASSUME NEW t \in Submitter, Holding(t)', t # s
               PROVE  LET i == submit'[t].issue IN
                        /\ i \in Carriers(submit[t].digest)'
                        /\ submit'[t].at = "record" => (submit'[t].whole => github'[i].whole)
                        /\ submit'[t].at # "record" => github'[i].whole
                        /\ submit'[t].at = "record_linked" => github'[i].linked
                        /\ submit'[t].at = "top_level" => ~proposal'.parent
    BY DEF HeldIssues, Carriers
  <2>1. submit'[t] = submit[t] /\ submit[t].digest \in Digest /\ Holding(t)
    BY DEF TypeOK, SubmitRecord, Holding
  <2>2. QED
    BY <2>1 DEF HeldIssues, Carriers
<1>7. RowsAreWhole' /\ OneIssuePerMarker' /\ LinkedIsWhole'
  BY DEF RowsAreWhole, OneIssuePerMarker, LinkedIsWhole
<1>8. LedgerIsTruthful'
  BY <1>1 DEF LedgerIsTruthful
<1>9. QED
  BY <1>3, <1>4, <1>5, <1>6, <1>7, <1>8

\* A submit that holds an issue records what it knows of it, and ends or goes on
\* with the same issue.
LEMMA RecordStep ==
  ASSUME Inv, TypeOK', NEW s \in Submitter, Holding(s), NEW state \in Named,
         UNCHANGED <<proposal, github>>,
         ledger' = Recorded(submit[s], state),
         state # "created_metadata_mismatch" => github[submit[s].issue].whole,
         state = "linked" /\ proposal.parent => github[submit[s].issue].linked,
         \A t \in Submitter : t # s => submit'[t] = submit[t],
         \/ submit'[s].at = "ended" /\ submit'[s].digest = 0
         \/ /\ submit'[s].at \in {"link", "top_level"}
            /\ submit'[s].digest = submit[s].digest /\ submit'[s].issue = submit[s].issue
            /\ github[submit[s].issue].whole
            /\ submit'[s].at = "top_level" => ~proposal.parent
  PROVE  Inv'
<1> USE DEF Inv
<1>1. \A d \in Digest : Carriers(d)' = Carriers(d)
  BY DEF Carriers
<1> DEFINE e == submit[s].digest
<1>2. e \in Digest /\ submit[s].issue \in Carriers(e) /\ submit[s].issue \in Issue
  BY DEF TypeOK, SubmitRecord, HeldIssues, Carriers
<1>3. ledger[e].state \notin {"absent", "pending"}
  BY <1>2 DEF FreeRowsAreUnused
<1>4. /\ ledger'[e].state = state /\ ledger'[e].issue = submit[s].issue
      /\ \A d \in Digest : d # e => ledger'[d] = ledger[d]
  BY <1>2, <1>3 DEF Recorded, TypeOK
<1>5. OneDigest'
  BY DEF OneDigest
<1>6. FreeRowsAreUnused'
  <2> SUFFICES ASSUME NEW d \in Digest, ledger'[d].state \in {"absent", "pending"}
               PROVE  Carriers(d)' = {} /\ \A t \in Submitter : submit'[t].digest = d => ~Begun(t)'
    BY DEF FreeRowsAreUnused
  <2>1. d # e /\ ledger[d].state \in {"absent", "pending"}
    BY <1>4 DEF Named
  <2>2. Carriers(d)' = {}
    BY <1>1, <2>1 DEF FreeRowsAreUnused
  <2>3. ASSUME NEW t \in Submitter, submit'[t].digest = d, t # s
        PROVE  ~Begun(t)'
    BY <2>1, <2>3 DEF FreeRowsAreUnused, Begun, Holding
  <2>4. submit'[s].digest = d => ~Begun(s)'
    BY <2>1 DEF Begun, Holding
  <2>5. QED
    BY <2>2, <2>3, <2>4
<1>7. CreatorIsAlone'
  <2> SUFFICES ASSUME NEW t \in Submitter, submit'[t].at = "create"
               PROVE  /\ Carriers(submit[t].digest)' = {}
                      /\ \A u \in Submitter :
                           submit'[u].at = "create" /\ submit'[u].digest = submit'[t].digest => u = t
    BY DEF CreatorIsAlone
  <2>1. t # s /\ submit'[t] = submit[t] /\ submit[t].digest \in Digest
    BY DEF TypeOK, SubmitRecord
  <2>2. submit'[s].at # "create"
    OBVIOUS
  <2>3. QED
    BY <2>1, <2>2 DEF CreatorIsAlone, Carriers
<1>8. HeldIssues'
  <2>1. ASSUME NEW t \in Submitter, Holding(t)', t # s
        PROVE  LET i == submit'[t].issue IN
                 /\ i \in Carriers(submit[t].digest)'
                 /\ submit'[t].at = "record" => (submit'[t].whole => github'[i].whole)
                 /\ submit'[t].at # "record" => github'[i].whole
                 /\ submit'[t].at = "record_linked" => github'[i].linked
                 /\ submit'[t].at = "top_level" => ~proposal'.parent
    <3>1. submit'[t] = submit[t] /\ submit[t].digest \in Digest /\ Holding(t)
      BY <2>1 DEF TypeOK, SubmitRecord, Holding
    <3>2. QED
      BY <2>1, <3>1 DEF HeldIssues, Carriers
  <2>2. Holding(s)' => /\ submit'[s].at \in {"link", "top_level"}
                       /\ submit'[s].issue \in Carriers(submit[s].digest)'
    BY <1>2 DEF Holding, Carriers
  <2>3. QED
    BY <2>1, <2>2 DEF HeldIssues
<1>9. RowsAreWhole'
  BY <1>4 DEF RowsAreWhole, Named
<1>10. OneIssuePerMarker' /\ LinkedIsWhole'
  BY DEF OneIssuePerMarker, LinkedIsWhole
<1>11. LedgerIsTruthful'
  <2> SUFFICES ASSUME NEW d \in Digest
               PROVE  /\ ledger'[d].state \in Named <=> ledger'[d].issue # None
                      /\ ledger'[d].issue # None => ledger'[d].issue \in Carriers(d)'
                      /\ ledger'[d].state = "linked" /\ proposal.parent =>
                           github[ledger'[d].issue].linked
    BY DEF LedgerIsTruthful
  <2>1. CASE d = e
    BY <1>1, <1>2, <1>4, <2>1, ConstantsAssumption
  <2>2. CASE d # e
    BY <1>1, <1>4, <2>2 DEF LedgerIsTruthful
  <2>3. QED
    BY <2>1, <2>2
<1>12. QED
  BY <1>5, <1>6, <1>7, <1>8, <1>9, <1>10, <1>11

\* Drafting and marking touch no row that is taken and no digest in use.
LEMMA DraftStep ==
  ASSUME Inv, TypeOK', WriteProposals \/ MaterializePending
                       \/ \E verdict \in {"unique", "duplicate_blocked"} : Mark(verdict)
  PROVE  Inv'
<1> USE DEF Inv
<1>1. /\ UNCHANGED <<github, submit>>
      /\ proposal'.local = proposal.local /\ proposal'.parent = proposal.parent
      /\ ~proposal.local => proposal'.digest = proposal.digest
  BY DEF WriteProposals, MaterializePending, Mark, TypeOK
<1>2. \A d \in Digest :
        /\ ledger'[d].issue = ledger[d].issue
        /\ ledger'[d].state = ledger[d].state
           \/ (ledger[d].state = "absent" /\ ledger'[d].state = "pending")
  BY DEF WriteProposals, MaterializePending, Mark, TypeOK
<1>3. OneDigest' /\ CreatorIsAlone' /\ HeldIssues'
  BY <1>1 DEF OneDigest, CreatorIsAlone, HeldIssues, Holding, Carriers
<1>4. FreeRowsAreUnused'
  BY <1>1, <1>2 DEF FreeRowsAreUnused, Begun, Holding, Carriers
<1>5. RowsAreWhole' /\ OneIssuePerMarker' /\ LinkedIsWhole'
  BY <1>1, <1>2 DEF RowsAreWhole, OneIssuePerMarker, LinkedIsWhole
<1>6. LedgerIsTruthful'
  <2> SUFFICES ASSUME NEW d \in Digest
               PROVE  /\ ledger'[d].state \in Named <=> ledger'[d].issue # None
                      /\ ledger'[d].issue # None => ledger'[d].issue \in Carriers(d)'
                      /\ ledger'[d].state = "linked" /\ proposal'.parent =>
                           github'[ledger'[d].issue].linked
    BY DEF LedgerIsTruthful
  <2>1. QED
    BY <1>1, <1>2 DEF LedgerIsTruthful, Named, Carriers
<1>7. QED
  BY <1>3, <1>4, <1>5, <1>6

\* Of two submits that begin under one digest, the second finds the row taken.
LEMMA BeginStep ==
  ASSUME Inv, TypeOK', NEW s \in Submitter, Begin(s)
  PROVE  Inv'
<1> USE DEF Inv
<1> DEFINE e == submit[s].digest
<1>1. e \in Digest
  BY DEF TypeOK, SubmitRecord
<1>2. \A t \in Submitter : t # s => submit'[t] = submit[t]
  BY DEF Begin, TypeOK
<1>3. CASE ledger[e].state \notin {"absent", "pending"}
  <2>1. submit'[s] = At("ended") /\ UNCHANGED <<proposal, ledger, github>>
    BY <1>3 DEF Begin, TypeOK
  <2>2. QED
    BY <1>2, <2>1, SubmitStep DEF At, Holding
<1>4. CASE ledger[e].state \in {"absent", "pending"}
  <2>1. /\ UNCHANGED <<proposal, github>>
        /\ submit'[s].at = "create" /\ submit'[s].digest = e
        /\ ledger'[e].state = "submitted" /\ ledger'[e].issue = ledger[e].issue
        /\ \A d \in Digest : d # e => ledger'[d] = ledger[d]
    BY <1>1, <1>4 DEF Begin, TypeOK, SubmitRecord
  <2>2. Carriers(e) = {} /\ \A t \in Submitter : submit[t].digest = e => ~Begun(t)
    BY <1>1, <1>4 DEF FreeRowsAreUnused
  <2>3. \A d : Carriers(d)' = Carriers(d)
    BY <2>1 DEF Carriers
  <2>4. OneDigest'
    BY <1>2, <2>1 DEF OneDigest
  <2>5. FreeRowsAreUnused'
    <3> SUFFICES ASSUME NEW d \in Digest, ledger'[d].state \in {"absent", "pending"}
                 PROVE  /\ Carriers(d)' = {}
                        /\ \A t \in Submitter : submit'[t].digest = d => ~Begun(t)'
      BY DEF FreeRowsAreUnused
    <3>1. d # e /\ ledger[d].state \in {"absent", "pending"}
      BY <2>1
    <3>2. QED
      BY <1>2, <2>1, <2>3, <3>1 DEF FreeRowsAreUnused, Begun, Holding
  <2>6. CreatorIsAlone'
    <3>1. \A t \in Submitter : submit'[t].at = "create" /\ t # s =>
            submit[t].at = "create" /\ submit'[t].digest = submit[t].digest /\ submit[t].digest # e
      BY <1>2, <2>2 DEF Begun
    <3>2. QED
      BY <2>1, <2>2, <3>1 DEF CreatorIsAlone, Carriers
  <2>7. HeldIssues'
    BY <1>2, <2>1 DEF HeldIssues, Holding, Carriers
  <2>8. RowsAreWhole' /\ OneIssuePerMarker' /\ LinkedIsWhole'
    BY <2>1 DEF RowsAreWhole, OneIssuePerMarker, LinkedIsWhole
  <2>9. LedgerIsTruthful'
    <3> SUFFICES ASSUME NEW d \in Digest
                 PROVE  /\ ledger'[d].state \in Named <=> ledger'[d].issue # None
                        /\ ledger'[d].issue # None => ledger'[d].issue \in Carriers(d)'
                        /\ ledger'[d].state = "linked" /\ proposal'.parent =>
                             github'[ledger'[d].issue].linked
      BY DEF LedgerIsTruthful
    <3>1. CASE d = e
      BY <1>4, <2>1, <3>1 DEF LedgerIsTruthful, Named
    <3>2. CASE d # e
      BY <2>1, <2>3, <3>2 DEF LedgerIsTruthful
    <3>3. QED
      BY <3>1, <3>2
  <2>10. QED
    BY <2>4, <2>5, <2>6, <2>7, <2>8, <2>9
<1>5. QED
  BY <1>3, <1>4

\* The request is sent under a digest that no issue carries.
LEMMA CreateStep ==
  ASSUME Inv, TypeOK', NEW s \in Submitter, Create(s)
  PROVE  Inv'
<1> USE DEF Inv
<1>1. PICK e \in Digest : e = submit[s].digest
  BY DEF TypeOK, SubmitRecord
<1>2. PICK i \in Issue, whole \in BOOLEAN :
        /\ ~github[i].exists
        /\ github' = [github EXCEPT ![i] = [exists |-> TRUE, digest |-> e,
                                            whole |-> whole, linked |-> FALSE]]
        /\ \/ submit' = [submit EXCEPT ![s] = [submit[s] EXCEPT !.at = "record", !.issue = i,
                                                 !.whole = whole, !.fresh = TRUE]]
           \/ submit' = [submit EXCEPT ![s] = At("ended")]
  BY <1>1 DEF Create
<1>3. UNCHANGED <<proposal, ledger>> /\ submit[s].at = "create"
  BY DEF Create
<1>4. /\ \A t \in Submitter : t # s => submit'[t] = submit[t]
      /\ \/ /\ submit'[s].at = "record" /\ submit'[s].digest = e
            /\ submit'[s].issue = i /\ submit'[s].whole = whole
         \/ submit'[s].at = "ended" /\ submit'[s].digest = 0
  <2>1. submit[s] \in SubmitRecord /\ submit \in [Submitter -> SubmitRecord]
    BY DEF TypeOK
  <2>2. CASE submit' = [submit EXCEPT ![s] = At("ended")]
    BY <1>1, <2>1, <2>2 DEF At
  <2>3. CASE submit' = [submit EXCEPT ![s] = [submit[s] EXCEPT !.at = "record", !.issue = i,
                                              !.whole = whole, !.fresh = TRUE]]
    BY <1>1, <2>1, <2>3 DEF SubmitRecord
  <2>4. QED
    BY <1>2, <2>2, <2>3
<1>5. /\ github'[i].exists /\ github'[i].digest = e
      /\ github'[i].whole = whole /\ ~github'[i].linked
      /\ \A j \in Issue : j # i => github'[j] = github[j]
  BY <1>2 DEF TypeOK
<1>6. Carriers(e) = {} /\ ledger[e].state \notin {"absent", "pending"}
  BY <1>1, <1>3 DEF CreatorIsAlone, FreeRowsAreUnused, Begun
<1>7. /\ Carriers(e)' = {i}
      /\ \A d \in Digest : d # e => Carriers(d)' = Carriers(d)
  <2>1. \A j \in Issue : ~(github[j].exists /\ github[j].digest = e)
    BY <1>6 DEF Carriers
  <2>2. \A j : j \in Carriers(e)' <=> j = i
    <3>1. i \in Issue
      BY <1>2
    <3>2. QED
      BY <1>5, <2>1, <3>1 DEF Carriers
  <2>3. ASSUME NEW d \in Digest, d # e
        PROVE  \A j : j \in Carriers(d)' <=> j \in Carriers(d)
    BY <1>2, <1>5, <2>3 DEF Carriers
  <2>4. QED
    BY <2>2, <2>3
<1>8. OneDigest'
  BY <1>1, <1>3, <1>4, <1>5 DEF OneDigest
<1>9. FreeRowsAreUnused'
  <2> SUFFICES ASSUME NEW d \in Digest, ledger[d].state \in {"absent", "pending"}
               PROVE  /\ Carriers(d)' = {}
                      /\ \A t \in Submitter : submit'[t].digest = d => ~Begun(t)'
    BY <1>3 DEF FreeRowsAreUnused
  <2>1. d # e
    BY <1>6
  <2>2. QED
    BY <1>4, <1>7, <2>1 DEF FreeRowsAreUnused, Begun, Holding
<1>10. CreatorIsAlone'
  <2>1. \A t \in Submitter : submit'[t].at = "create" =>
          t # s /\ submit[t].at = "create" /\ submit'[t] = submit[t] /\ submit[t].digest # e
    BY <1>1, <1>3, <1>4 DEF CreatorIsAlone
  <2>2. QED
    BY <1>5, <2>1 DEF CreatorIsAlone, Carriers
<1>11. HeldIssues'
  <2>1. ASSUME NEW t \in Submitter, t # s, Holding(t)
        PROVE  submit[t].issue # i /\ github'[submit[t].issue] = github[submit[t].issue]
    BY <1>2, <1>5, <2>1 DEF HeldIssues, Carriers
  <2>2. QED
    BY <1>3, <1>4, <1>5, <2>1 DEF HeldIssues, Holding, Carriers
<1>12. \A d \in Digest : ledger[d].issue # i
  BY <1>2, ConstantsAssumption DEF LedgerIsTruthful, Carriers
<1>13. RowsAreWhole'
  BY <1>3, <1>5, <1>12 DEF RowsAreWhole, LedgerIsTruthful, Named, Carriers
<1>14. OneIssuePerMarker'
  <2>1. \A j \in Issue : github[j].exists => github[j].digest # e
    BY <1>6 DEF Carriers
  <2>2. \A j \in Issue : github[j].exists => proposal.local
    <3> SUFFICES ASSUME NEW j \in Issue, github[j].exists, ~proposal.local
                 PROVE  FALSE
      BY DEF TypeOK
    <3>1. e = 0 /\ github[j].digest = 0
      BY <1>1 DEF OneDigest
    <3>2. QED
      BY <2>1, <3>1
  <2>3. QED
    BY <1>3, <1>5, <2>1, <2>2 DEF OneIssuePerMarker
<1>15. LedgerIsTruthful' /\ LinkedIsWhole'
  <2>1. LinkedIsWhole'
    BY <1>5 DEF LinkedIsWhole
  <2>2. LedgerIsTruthful'
    <3> SUFFICES ASSUME NEW d \in Digest
                 PROVE  /\ ledger[d].state \in Named <=> ledger[d].issue # None
                        /\ ledger[d].issue # None => ledger[d].issue \in Carriers(d)'
                        /\ ledger[d].state = "linked" /\ proposal.parent =>
                             github'[ledger[d].issue].linked
      BY <1>3 DEF LedgerIsTruthful
    <3>1. /\ ledger[d].state \in Named <=> ledger[d].issue # None
          /\ ledger[d].issue # None => ledger[d].issue \in Carriers(d) /\ d # e
          /\ ledger[d].state = "linked" /\ proposal.parent => github[ledger[d].issue].linked
      BY <1>6 DEF LedgerIsTruthful
    <3>2. ledger[d].issue # None => ledger[d].issue \in Issue
      BY <3>1 DEF Carriers
    <3>3. QED
      BY <1>5, <1>7, <1>12, <3>1, <3>2 DEF Named
  <2>3. QED
    BY <2>1, <2>2
<1>16. QED
  BY <1>8, <1>9, <1>10, <1>11, <1>13, <1>14, <1>15

\* A link, whether its answer arrives or not, is of an issue that is whole.
LEMMA LinkStep ==
  ASSUME Inv, TypeOK', NEW s \in Submitter, Link(s) \/ LinkFails(s)
  PROVE  Inv'
<1> USE DEF Inv
<1> DEFINE i == submit[s].issue
           e == submit[s].digest
<1>1. submit[s].at = "link" /\ UNCHANGED <<proposal, ledger>>
  BY DEF Link, LinkFails
<1>2. i \in Issue /\ i \in Carriers(e) /\ github[i].whole /\ e \in Digest
  BY <1>1 DEF HeldIssues, Holding, Carriers, TypeOK, SubmitRecord
<1>3. /\ \A j \in Issue :
           /\ github'[j].exists = github[j].exists /\ github'[j].digest = github[j].digest
           /\ github'[j].whole = github[j].whole
           /\ github[j].linked => github'[j].linked
           /\ j # i => github'[j].linked = github[j].linked
      /\ Link(s) => github'[i].linked
  <2>1. github \in [Issue -> [exists : BOOLEAN, digest : Digest, whole : BOOLEAN, linked : BOOLEAN]]
    BY DEF TypeOK
  <2>2. CASE Link(s)
    BY <1>2, <2>1, <2>2 DEF Link
  <2>3. CASE LinkFails(s) /\ ~Link(s)
    <3>1. PICK effect \in BOOLEAN : github' = [github EXCEPT ![i].linked = @ \/ effect]
      BY <2>3 DEF LinkFails
    <3>2. CASE effect
      <4>1. github' = [github EXCEPT ![i].linked = TRUE]
        BY <1>2, <2>1, <3>1, <3>2
      <4>2. QED
        BY <1>2, <2>1, <2>3, <4>1
    <3>3. CASE ~effect
      <4>1. github' = [github EXCEPT ![i].linked = @]
        BY <1>2, <2>1, <3>1, <3>3
      <4>2. QED
        BY <1>2, <2>1, <2>3, <4>1
    <3>4. QED
      BY <3>2, <3>3
  <2>4. QED
    BY <2>2, <2>3
<1>4. /\ \A t \in Submitter : t # s => submit'[t] = submit[t]
      /\ \/ submit'[s].at = "ended" /\ submit'[s].digest = 0
         \/ /\ submit'[s].at \in {"record_linked", "record_unlinked"}
            /\ submit'[s].digest = e /\ submit'[s].issue = i
            /\ submit'[s].at = "record_linked" => Link(s)
  <2>1. submit \in [Submitter -> SubmitRecord] /\ submit[s] \in SubmitRecord
    BY DEF TypeOK
  <2>2. CASE submit' = [submit EXCEPT ![s] = At("ended")]
    BY <2>1, <2>2 DEF At
  <2>3. CASE \/ Link(s) /\ submit' = [submit EXCEPT ![s].at = "record_linked"]
             \/ submit' = [submit EXCEPT ![s].at = "record_unlinked"]
    BY <2>1, <2>3 DEF SubmitRecord
  <2>4. QED
    BY <2>2, <2>3 DEF Link, LinkFails
<1>5. \A d : Carriers(d)' = Carriers(d)
  BY <1>3 DEF Carriers
<1>6. OneDigest'
  BY <1>1, <1>3, <1>4 DEF OneDigest
<1>7. FreeRowsAreUnused'
  <2> SUFFICES ASSUME NEW d \in Digest, ledger[d].state \in {"absent", "pending"}
               PROVE  /\ Carriers(d)' = {}
                      /\ \A t \in Submitter : submit'[t].digest = d => ~Begun(t)'
    BY <1>1 DEF FreeRowsAreUnused
  <2>1. d # e
    BY <1>1, <1>2 DEF FreeRowsAreUnused, Begun, Holding
  <2>2. QED
    BY <1>4, <1>5, <2>1 DEF FreeRowsAreUnused, Begun, Holding
<1>8. CreatorIsAlone'
  <2>1. \A t \in Submitter : submit'[t].at = "create" => t # s /\ submit'[t] = submit[t]
    BY <1>4
  <2>2. QED
    BY <1>3, <2>1 DEF CreatorIsAlone, Carriers
<1>9. HeldIssues'
  <2>1. ASSUME NEW t \in Submitter, Holding(t)', t # s
        PROVE  LET k == submit'[t].issue IN
                 /\ k \in Carriers(submit[t].digest)'
                 /\ submit'[t].at = "record" => (submit'[t].whole => github'[k].whole)
                 /\ submit'[t].at # "record" => github'[k].whole
                 /\ submit'[t].at = "record_linked" => github'[k].linked
                 /\ submit'[t].at = "top_level" => ~proposal'.parent
    <3>1. submit'[t] = submit[t] /\ Holding(t)
      BY <1>4, <2>1 DEF Holding
    <3>2. submit[t].issue \in Issue
      BY <3>1 DEF HeldIssues, Carriers
    <3>3. QED
      BY <1>1, <1>3, <3>1, <3>2 DEF HeldIssues, Carriers
  <2>2. Holding(s)' => /\ submit'[s].issue \in Carriers(submit[s].digest)'
                       /\ submit'[s].at \in {"record_linked", "record_unlinked"}
                       /\ github'[submit'[s].issue].whole
                       /\ submit'[s].at = "record_linked" => github'[submit'[s].issue].linked
    BY <1>2, <1>3, <1>4 DEF Holding, Carriers
  <2>3. QED
    BY <2>1, <2>2 DEF HeldIssues
<1>10. RowsAreWhole'
  <2>1. \A d \in Digest : ledger[d].state \in {"created", "linked", "created_unlinked"} =>
          ledger[d].issue \in Issue
    BY DEF LedgerIsTruthful, Named, Carriers
  <2>2. QED
    BY <1>1, <1>3, <2>1 DEF RowsAreWhole
<1>11. OneIssuePerMarker' /\ LinkedIsWhole'
  BY <1>1, <1>2, <1>3 DEF OneIssuePerMarker, LinkedIsWhole
<1>12. LedgerIsTruthful'
  <2> SUFFICES ASSUME NEW d \in Digest
               PROVE  /\ ledger[d].state \in Named <=> ledger[d].issue # None
                      /\ ledger[d].issue # None => ledger[d].issue \in Carriers(d)'
                      /\ ledger[d].state = "linked" /\ proposal.parent =>
                           github'[ledger[d].issue].linked
    BY <1>1 DEF LedgerIsTruthful
  <2>1. ledger[d].issue # None => ledger[d].issue \in Issue
    BY DEF LedgerIsTruthful, Carriers
  <2>2. QED
    BY <1>3, <1>5, <2>1 DEF LedgerIsTruthful, Named
<1>13. QED
  BY <1>6, <1>7, <1>8, <1>9, <1>10, <1>11, <1>12

LEMMA NextPreserves ==
  ASSUME Inv, [Next]_vars
  PROVE  Inv'
<1>1. TypeOK'
  BY Typing DEF Inv
<1>2. CASE UNCHANGED vars
  BY <1>1, <1>2 DEF vars, Inv, OneDigest, FreeRowsAreUnused, CreatorIsAlone, HeldIssues, RowsAreWhole,
                   OneIssuePerMarker, LedgerIsTruthful, LinkedIsWhole, Begun, Holding, Carriers
<1>3. CASE WriteProposals \/ MaterializePending
           \/ \E verdict \in {"unique", "duplicate_blocked"} : Mark(verdict)
  BY <1>1, <1>3, DraftStep
<1>4. ASSUME NEW s \in Submitter, Submit(s)
      PROVE  Inv'
  <2> USE DEF Inv
  <2> DEFINE x == submit[s]
  <2>1. submit \in [Submitter -> SubmitRecord] /\ x \in SubmitRecord /\ x.digest \in Digest
    BY DEF TypeOK, SubmitRecord
  <2>2. ASSUME NEW y, submit' = [submit EXCEPT ![s] = y]
        PROVE  submit'[s] = y /\ \A t \in Submitter : t # s => submit'[t] = submit[t]
    BY <2>1, <2>2
  <2>3. ASSUME End(s), UNCHANGED <<proposal, ledger, github>>
        PROVE  Inv'
    <3>1. submit'[s] = At("ended") /\ \A t \in Submitter : t # s => submit'[t] = submit[t]
      BY <2>1, <2>3
    <3>2. submit'[s].at = "ended" /\ submit'[s].digest = 0
      BY <3>1 DEF At
    <3>3. QED
      BY <1>1, <2>3, <3>1, <3>2, SubmitStep DEF Holding
  <2>4. CASE Start(s)
    <3>1. PICK resume \in BOOLEAN, override \in BOOLEAN :
            submit' = [submit EXCEPT ![s] =
                        [At(IF proposal.local THEN "fetch" ELSE "plan") EXCEPT
                          !.resume = resume, !.override = override,
                          !.digest = proposal.digest, !.dedupe = proposal.dedupe]]
      BY <2>4 DEF Start
    <3>2. submit'[s].at \in {"fetch", "plan"} /\ submit'[s].digest = proposal.digest
      BY <2>2, <3>1 DEF At
    <3>3. UNCHANGED <<proposal, ledger, github>>
      BY <2>4 DEF Start
    <3>4. QED
      BY <1>1, <2>2, <3>1, <3>2, <3>3, SubmitStep DEF OneDigest, Holding
  <2>5. CASE Fetch(s)
    <3>1. PICK verdict \in Dedupe :
            submit' = [submit EXCEPT ![s] = [submit[s] EXCEPT !.at = "plan", !.dedupe = verdict]]
      BY <2>5, ConstantsAssumption DEF Fetch, Dedupe
    <3>2. submit'[s].at = "plan" /\ submit'[s].digest = x.digest
      BY <2>1, <2>2, <3>1 DEF SubmitRecord
    <3>3. UNCHANGED <<proposal, ledger, github>>
      BY <2>5 DEF Fetch
    <3>4. QED
      BY <1>1, <2>2, <3>1, <3>2, <3>3, SubmitStep DEF OneDigest, Holding
  <2>6. CASE Refuse(s)
    <3>1. submit'[s].at = "duplicate" /\ submit'[s].digest = x.digest
      BY <2>1, <2>6 DEF Refuse, At
    <3>2. UNCHANGED <<proposal, ledger, github>> /\ \A t \in Submitter : t # s => submit'[t] = submit[t]
      BY <2>1, <2>6 DEF Refuse
    <3>3. QED
      BY <1>1, <3>1, <3>2, SubmitStep DEF OneDigest, Holding
  <2>7. CASE Plan(s)
    <3> DEFINE row == ledger[x.digest]
               next == Decision(row, x.resume)
    <3>1. UNCHANGED <<proposal, ledger, github>>
      BY <2>7 DEF Plan
    <3>2. CASE next = "ended"
      BY <2>3, <2>7, <3>1, <3>2 DEF Plan
    <3>3. CASE next # "ended"
      <4>1. submit' = [submit EXCEPT ![s] =
              [At(next) EXCEPT !.digest = x.digest, !.issue = IF next = "link" THEN row.issue ELSE None]]
        BY <2>7, <3>3 DEF Plan
      <4>2. /\ submit'[s].at = next /\ submit'[s].digest = x.digest
            /\ next = "link" => submit'[s].issue = row.issue
        BY <2>2, <4>1 DEF At
      <4>3. /\ next \in {"begin", "search", "link"}
            /\ next = "search" => row.state = "submitted"
            /\ next = "link" => row.state \in {"created", "created_unlinked"}
        BY <3>3 DEF Decision
      <4>4. next = "link" => row.issue \in Carriers(x.digest) /\ github[row.issue].whole
        BY <2>1, <4>3 DEF LedgerIsTruthful, RowsAreWhole, Named
      <4>5. QED
        BY <1>1, <2>1, <2>2, <3>1, <4>1, <4>2, <4>3, <4>4, SubmitStep DEF OneDigest, Holding
    <3>4. QED
      BY <3>2, <3>3
  <2>8. CASE Search(s)
    <3>1. UNCHANGED <<proposal, ledger, github>>
      BY <2>8 DEF Search
    <3>2. CASE End(s)
      BY <2>3, <3>1, <3>2
    <3>3. ASSUME NEW i \in Carriers(x.digest),
                 submit' = [submit EXCEPT ![s] =
                   [submit[s] EXCEPT !.at = "record", !.issue = i,
                                     !.whole = github[i].whole /\ ~proposal.fields]]
          PROVE  Inv'
      <4>1. /\ submit'[s].at = "record" /\ submit'[s].digest = x.digest
            /\ submit'[s].issue = i /\ (submit'[s].whole => github[i].whole)
        BY <2>1, <2>2, <3>3 DEF SubmitRecord
      <4>2. QED
        BY <1>1, <2>2, <3>1, <3>3, <4>1, SubmitStep DEF OneDigest, Holding
    <3>4. QED
      BY <2>8, <3>2, <3>3 DEF Search
  <2>9. CASE RecordCreated(s)
    <3>1. /\ Holding(s) /\ UNCHANGED <<proposal, github>>
          /\ \A t \in Submitter : t # s => submit'[t] = submit[t]
      BY <2>1, <2>9 DEF RecordCreated, Holding
    <3>2. CASE x.whole
      <4>1. /\ ledger' = Recorded(x, "created") /\ github[x.issue].whole
            /\ submit' = [submit EXCEPT ![s].at = IF proposal.parent THEN "link" ELSE "top_level"]
        BY <2>9, <3>1, <3>2 DEF RecordCreated, HeldIssues
      <4>2. /\ submit'[s].at \in {"link", "top_level"}
            /\ submit'[s].digest = x.digest /\ submit'[s].issue = x.issue
            /\ submit'[s].at = "top_level" => ~proposal.parent
        BY <2>1, <4>1 DEF SubmitRecord
      <4>3. QED
        BY <1>1, <3>1, <4>1, <4>2, RecordStep DEF Named
    <3>3. CASE ~x.whole
      <4>1. ledger' = Recorded(x, "created_metadata_mismatch") /\ submit'[s] = At("ended")
        BY <2>1, <2>9, <3>3 DEF RecordCreated
      <4>2. submit'[s].at = "ended" /\ submit'[s].digest = 0
        BY <4>1 DEF At
      <4>3. QED
        BY <1>1, <3>1, <4>1, <4>2, RecordStep DEF Named
    <3>4. QED
      BY <3>2, <3>3
  <2>10. CASE RecordTopLevel(s) \/ RecordLinked(s) \/ RecordUnlinked(s)
    <3>1. PICK state \in {"linked", "created_unlinked"} :
            /\ ledger' = Recorded(x, state)
            /\ state = "linked" => x.at \in {"top_level", "record_linked"}
      BY <2>10 DEF RecordTopLevel, RecordLinked, RecordUnlinked
    <3>2. Holding(s) /\ x.at # "record" /\ UNCHANGED <<proposal, github>> /\ End(s)
      BY <2>10 DEF RecordTopLevel, RecordLinked, RecordUnlinked, Holding
    <3>3. /\ github[x.issue].whole
          /\ state = "linked" /\ proposal.parent => github[x.issue].linked
      BY <3>1, <3>2 DEF HeldIssues
    <3>4. submit'[s].at = "ended" /\ submit'[s].digest = 0
      BY <2>2, <3>2 DEF At
    <3>5. QED
      BY <1>1, <2>2, <3>1, <3>2, <3>3, <3>4, RecordStep DEF Named
  <2>11. CASE Stop(s)
    BY <2>3, <2>11 DEF Stop
  <2>12. QED
    BY <1>1, <1>4, <2>4, <2>5, <2>6, <2>7, <2>8, <2>9, <2>10, <2>11,
       BeginStep, CreateStep, LinkStep DEF Submit
<1>5. QED
  BY <1>2, <1>3, <1>4 DEF Next

LEMMA InvHolds == Spec => []Inv
BY Start0, NextPreserves, PTL DEF Spec

-----------------------------------------------------------------------------
\* The ledger, the proposal, the issues and the submits have their types.
THEOREM TypeCorrect == Spec => []TypeOK
<1>1. Inv => TypeOK
  BY DEF Inv
<1>2. QED
  BY <1>1, InvHolds, PTL

\* No two issues carry one digest's marker, however many submits overlap, die,
\* lose answers or resume, and a tracker-backed proposal has one issue at most.
THEOREM AtMostOneIssue == Spec => []OneIssuePerMarker
<1>1. Inv => OneIssuePerMarker
  BY DEF Inv
<1>2. QED
  BY <1>1, InvHolds, PTL

\* The ledger never claims more than GitHub shows.
THEOREM TruthfulLedger == Spec => []LedgerIsTruthful
<1>1. Inv => LedgerIsTruthful
  BY DEF Inv
<1>2. QED
  BY <1>1, InvHolds, PTL

\* No submit links an issue that lacks requested metadata.
THEOREM OnlyWholeIssuesAreLinked == Spec => []LinkedIsWhole
<1>1. Inv => LinkedIsWhole
  BY DEF Inv
<1>2. QED
  BY <1>1, InvHolds, PTL

-----------------------------------------------------------------------------
\* What a submission that is recorded as created has on GitHub.

Fields(c) == Provisioning!Fields(c)

\* The functions of the submitters are defined for them, and the projects are
\* a sequence of records with a title.
Shaped ==
  /\ DOMAIN at = Client /\ DOMAIN n = Client /\ DOMAIN project = Client
  /\ DOMAIN known = Client /\ DOMAIN applied = Client
  /\ DOMAIN issue = Client /\ DOMAIN values = Client
  /\ \E S : projects \in Seq(S)
  /\ \A p \in DOMAIN projects : "title" \in DOMAIN projects[p]

\* The project that a submitter found or made is the configured one,
HasProject(c) ==
  /\ project[c] \in DOMAIN projects
  /\ Provisioning!IsOurs(project[c])

\* it has the issue, and every value that was set there is still shown.
HasValues(c) ==
  /\ Fields(c) # <<>> => <<project[c], c>> \in items
  /\ \A k \in DOMAIN applied[c] :
       <<project[c], applied[c][k].name, applied[c][k].value>> \in values[c]

\* What is set is what the proposal asks for, in its order.
IsPrefix(c) ==
  /\ n[c] \in 1 .. Len(Fields(c))
  /\ \E S : applied[c] \in Seq(S)
  /\ Len(applied[c]) = n[c] - 1
  /\ \A k \in 1 .. n[c] - 1 : applied[c][k] = Fields(c)[k]

\* By the place of a submitter.
Early == {"start", "label", "new label", "issue"}
Finding == {"owner", "project", "new project"}
Progresses(c) ==
  /\ at[c] \in Early \cup Finding \cup {"fields", "values", "made", "created", "mismatch", "failed"}
  /\ at[c] \in Finding \cup {"fields", "values"} => Fields(c) # <<>>
  /\ at[c] \in Early \cup Finding \cup {"fields"} => applied[c] = <<>>
  /\ at[c] \in {"fields", "values", "made", "created"} /\ Fields(c) # <<>> => HasProject(c)
  /\ at[c] \in {"values", "made", "created"} => HasValues(c)
  /\ at[c] = "new project" => config.number = 0
  /\ at[c] = "values" => IsPrefix(c)
  /\ at[c] = "created" => issue[c] = Provisioning!ToSet(Proposal[c].labels) /\ applied[c] = Fields(c)

ProvisioningInv == Shaped /\ \A c \in Client : Progresses(c)

\* A sequence with one more element, and one of whose elements has changed.
LEMMA AppendedTo ==
  ASSUME NEW S, NEW s \in Seq(S), NEW e
  PROVE  /\ \E T : Append(s, e) \in Seq(T)
         /\ Len(s) \in Nat /\ DOMAIN s = 1 .. Len(s)
         /\ Len(Append(s, e)) = Len(s) + 1
         /\ DOMAIN Append(s, e) = 1 .. Len(s) + 1
         /\ Append(s, e)[Len(s) + 1] = e
         /\ \A k \in 1 .. Len(s) : Append(s, e)[k] = s[k]
<1> DEFINE T == S \cup {e}
<1>1. s \in Seq(T) /\ e \in T
  OBVIOUS
<1>2. Append(s, e) \in Seq(T)
  BY <1>1
<1>3. /\ Len(s) \in Nat /\ DOMAIN s = 1 .. Len(s)
      /\ Len(Append(s, e)) = Len(s) + 1
      /\ DOMAIN Append(s, e) = 1 .. Len(s) + 1
      /\ Append(s, e)[Len(s) + 1] = e
      /\ \A k \in 1 .. Len(s) : Append(s, e)[k] = s[k]
  BY <1>1
<1>4. QED
  BY <1>2, <1>3

LEMMA ChangedAt ==
  ASSUME NEW S, NEW s \in Seq(S), NEW p \in DOMAIN s, NEW e
  PROVE  /\ \E T : [s EXCEPT ![p] = e] \in Seq(T)
         /\ DOMAIN [s EXCEPT ![p] = e] = DOMAIN s
<1> DEFINE T == S \cup {e}
<1>1. s \in Seq(T) /\ e \in T
  OBVIOUS
<1>2. [s EXCEPT ![p] = e] \in Seq(T)
  BY <1>1
<1>3. QED
  BY <1>2

\* Whoever acts, projects keep their places and titles, and items stay.
Kept ==
  /\ DOMAIN projects \subseteq DOMAIN projects'
  /\ \A p \in DOMAIN projects : projects'[p].title = projects[p].title
  /\ items \subseteq items'
  /\ \E S : projects' \in Seq(S)
  /\ \A p \in DOMAIN projects' : "title" \in DOMAIN projects'[p]

LEMMA NewProject ==
  ASSUME Shaped, NEW title, NEW fields, items' = items,
         projects' = Append(projects, [title |-> title, fields |-> fields])
  PROVE  /\ Kept
         /\ Len(projects') \in DOMAIN projects'
         /\ projects'[Len(projects')].title = title
<1> DEFINE new == [title |-> title, fields |-> fields]
<1>1. PICK S : projects \in Seq(S)
  BY DEF Shaped
<1>2. /\ \E T : projects' \in Seq(T)
      /\ Len(projects) \in Nat /\ DOMAIN projects = 1 .. Len(projects)
      /\ Len(projects') = Len(projects) + 1
      /\ DOMAIN projects' = 1 .. Len(projects) + 1
      /\ projects'[Len(projects) + 1] = new
      /\ \A p \in 1 .. Len(projects) : projects'[p] = projects[p]
  <2> HIDE DEF new
  <2>1. projects' = Append(projects, new)
    BY DEF new
  <2>2. \E T : Append(projects, new) \in Seq(T)
    BY <1>1, AppendedTo, Zenon
  <2>3. /\ Len(projects) \in Nat /\ DOMAIN projects = 1 .. Len(projects)
        /\ Len(Append(projects, new)) = Len(projects) + 1
        /\ DOMAIN Append(projects, new) = 1 .. Len(projects) + 1
        /\ Append(projects, new)[Len(projects) + 1] = new
    BY <1>1, AppendedTo, Zenon
  <2>4. \A p \in 1 .. Len(projects) : Append(projects, new)[p] = projects[p]
    <3>1. Len(projects) \in Nat /\ DOMAIN projects = 1 .. Len(projects)
      BY <1>1
    <3>2. QED
      BY <1>1, <3>1
  <2>5. QED
    BY <2>1, <2>2, <2>3, <2>4, Zenon
<1>3. \A p \in DOMAIN projects' : p \in DOMAIN projects \/ p = Len(projects) + 1
  BY <1>2
<1>4. new.title = title /\ "title" \in DOMAIN new
  OBVIOUS
<1>5. \A p \in DOMAIN projects' : "title" \in DOMAIN projects'[p]
  BY <1>2, <1>3, <1>4 DEF Shaped
<1>6. QED
  BY <1>2, <1>4, <1>5 DEF Kept

LEMMA ChangedFields ==
  ASSUME Shaped, NEW p \in DOMAIN projects, NEW fields, items' = items,
         projects' = [projects EXCEPT ![p].fields = fields]
  PROVE  Kept
<1> DEFINE new == [projects[p] EXCEPT !.fields = fields]
<1>1. PICK S : projects \in Seq(S)
  BY DEF Shaped
<1>2. projects' = [projects EXCEPT ![p] = new]
  OBVIOUS
<1>3. new.title = projects[p].title /\ "title" \in DOMAIN new
  BY DEF Shaped
<1>4. /\ \E T : projects' \in Seq(T)
      /\ DOMAIN projects' = DOMAIN projects
  <2> HIDE DEF new
  <2>1. /\ \E T : [projects EXCEPT ![p] = new] \in Seq(T)
        /\ DOMAIN [projects EXCEPT ![p] = new] = DOMAIN projects
    BY <1>1, ChangedAt, Zenon
  <2>2. QED
    BY <1>2, <2>1, Zenon
<1>5. /\ projects'[p] = new
      /\ \A q \in DOMAIN projects : q # p => projects'[q] = projects[q]
  <2> HIDE DEF new
  <2>1. QED
    BY <1>2
<1>6. QED
  <2> HIDE DEF new
  <2>1. QED
    BY <1>3, <1>4, <1>5 DEF Kept, Shaped

LEMMA KeptIfSame ==
  ASSUME Shaped, UNCHANGED <<projects, items>>
  PROVE  Kept
  BY DEF Shaped, Kept

\* A submitter changes only what is its own, projects and items apart.
Aside(c) ==
  /\ DOMAIN at' = Client /\ DOMAIN n' = Client /\ DOMAIN project' = Client
  /\ DOMAIN known' = Client /\ DOMAIN applied' = Client
  /\ DOMAIN issue' = Client /\ DOMAIN values' = Client
  /\ \A d \in Client \ {c} :
       /\ at'[d] = at[d] /\ n'[d] = n[d] /\ project'[d] = project[d]
       /\ applied'[d] = applied[d] /\ issue'[d] = issue[d] /\ values'[d] = values[d]

LEMMA OthersProgress ==
  ASSUME ProvisioningInv, Kept, config' = config, NEW d \in Client,
         at'[d] = at[d], n'[d] = n[d], project'[d] = project[d],
         applied'[d] = applied[d], issue'[d] = issue[d], values'[d] = values[d]
  PROVE  Progresses(d)'
<1>1. HasProject(d) => HasProject(d)'
  BY DEF HasProject, Kept, Provisioning!IsOurs
<1>2. HasValues(d) => HasValues(d)'
  BY DEF HasValues, Kept, Fields, Provisioning!Fields
<1>3. IsPrefix(d) => IsPrefix(d)'
  BY DEF IsPrefix, Fields, Provisioning!Fields
<1>4. Progresses(d)
  BY DEF ProvisioningInv
<1>5. Fields(d)' = Fields(d)
  BY DEF Fields, Provisioning!Fields
<1>6. QED
  BY <1>1, <1>2, <1>3, <1>4, <1>5 DEF Progresses

LEMMA OneProgresses ==
  ASSUME ProvisioningInv, NEW c \in Client, Kept, Aside(c), Progresses(c)', config' = config
  PROVE  ProvisioningInv'
<1>1. Shaped'
  BY DEF Aside, Kept, Shaped
<1>2. ASSUME NEW d \in Client PROVE Progresses(d)'
  <2>1. CASE d = c
    BY <2>1
  <2>2. CASE d # c
    BY <2>2, OthersProgress DEF Aside
  <2>3. QED
    BY <2>1, <2>2
<1>3. QED
  BY <1>1, <1>2 DEF ProvisioningInv

\* A submitter that fails owes nothing.
LEMMA FailedProgresses ==
  ASSUME Shaped, NEW c \in Client, Provisioning!Goto(c, "failed")
  PROVE  Progresses(c)' /\ DOMAIN at' = Client /\ \A d \in Client \ {c} : at'[d] = at[d]
<1>1. at'[c] = "failed" /\ DOMAIN at' = Client /\ \A d \in Client \ {c} : at'[d] = at[d]
  BY DEF Shaped, Provisioning!Goto
<1>2. QED
  BY <1>1 DEF Progresses, Early, Finding

LEMMA FieldsAreASequence ==
  ASSUME NEW c \in Client
  PROVE  /\ \E S : Fields(c) \in Seq(S)
         /\ \A j, k \in DOMAIN Fields(c) : Fields(c)[j].name = Fields(c)[k].name => j = k
  BY ProvisioningAssumption
  DEF Provisioning!ConstantsAssumption, Provisioning!IsSequence, Fields, Provisioning!Fields

\* Before a project: labels, the issue, its owner.
LEMMA EarlyStep ==
  ASSUME ProvisioningInv, NEW c \in Client, config' = config,
         \/ Provisioning!Start(c) \/ Provisioning!GetLabel(c) \/ Provisioning!PostLabel(c)
         \/ Provisioning!PostIssue(c) \/ Provisioning!FetchOwner(c)
  PROVE  Kept /\ Aside(c) /\ Progresses(c)'
<1> USE DEF Provisioning!Goto, Provisioning!Advance, Provisioning!remote
<1>1. Shaped /\ Progresses(c)
  BY DEF ProvisioningInv
<1>2. UNCHANGED <<projects, items, known, applied, project, values>>
  BY DEF Provisioning!Start, Provisioning!GetLabel, Provisioning!PostLabel, Provisioning!PostIssue,
         Provisioning!FetchOwner, Provisioning!NextLabel, Provisioning!Refused, Provisioning!Unheard
<1>3. Kept
  BY <1>1, <1>2, KeptIfSame
<1>4. \E place : at' = [at EXCEPT ![c] = place]
  BY DEF Provisioning!Start, Provisioning!GetLabel, Provisioning!PostLabel, Provisioning!PostIssue,
         Provisioning!FetchOwner, Provisioning!NextLabel, Provisioning!Refused, Provisioning!Unheard
<1>5. n' = n \/ \E k : n' = [n EXCEPT ![c] = k]
  BY DEF Provisioning!Start, Provisioning!GetLabel, Provisioning!PostLabel, Provisioning!PostIssue,
         Provisioning!FetchOwner, Provisioning!NextLabel, Provisioning!Refused, Provisioning!Unheard
<1>6. issue' = issue \/ \E given : issue' = [issue EXCEPT ![c] = given]
  BY DEF Provisioning!Start, Provisioning!GetLabel, Provisioning!PostLabel, Provisioning!PostIssue,
         Provisioning!FetchOwner, Provisioning!NextLabel, Provisioning!Refused, Provisioning!Unheard
<1>7. Aside(c)
  BY <1>1, <1>2, <1>4, <1>5, <1>6 DEF Aside, Shaped
<1>8. \/ at'[c] \in {"label", "new label", "issue", "failed"} /\ at[c] \in Early
      \/ at'[c] = "made" /\ Fields(c) = <<>> /\ at[c] = "issue"
      \/ at'[c] = "owner" /\ Fields(c) # <<>> /\ at[c] = "issue"
      \/ at'[c] \in {"project", "failed"} /\ at[c] = "owner"
  BY <1>1
  DEF Provisioning!Start, Provisioning!GetLabel, Provisioning!PostLabel, Provisioning!PostIssue,
      Provisioning!FetchOwner, Provisioning!NextLabel, Provisioning!Refused, Provisioning!Unheard,
      Shaped, Early, Fields, Provisioning!Fields
<1>9. applied'[c] = applied[c] /\ Fields(c)' = Fields(c)
  BY <1>2 DEF Fields, Provisioning!Fields
<1>10. applied[c] = <<>>
  BY <1>1, <1>8 DEF Progresses, Early, Finding
<1>11. DOMAIN applied'[c] = {}
  BY <1>9, <1>10
<1>12. Fields(c) = <<>> => HasValues(c)'
  BY <1>9, <1>11 DEF HasValues
<1>13. QED
  BY <1>1, <1>3, <1>7, <1>8, <1>9, <1>10, <1>12 DEF Progresses, Early, Finding

LEMMA FindProjectStep ==
  ASSUME ProvisioningInv, NEW c \in Client, config' = config, Provisioning!FindProject(c)
  PROVE  Kept /\ Aside(c) /\ Progresses(c)'
<1> USE DEF Provisioning!Goto, Provisioning!remote
<1>1. Shaped /\ Progresses(c) /\ at[c] = "project"
  BY DEF ProvisioningInv, Provisioning!FindProject
<1>2. UNCHANGED <<projects, items, applied, issue, values, n>>
  BY DEF Provisioning!FindProject, Provisioning!Refused, Provisioning!Take
<1>3. Kept
  BY <1>1, <1>2, KeptIfSame
<1>4. Fields(c) # <<>> /\ applied[c] = <<>> /\ Fields(c)' = Fields(c)
  BY <1>1 DEF Progresses, Early, Finding, Fields, Provisioning!Fields
<1>5. CASE \E some \in Provisioning!Answers :
             \E p \in some : Provisioning!IsOurs(p) /\ Provisioning!Take(c, p)
  <2>1. PICK some \in Provisioning!Answers :
          \E p \in some : Provisioning!IsOurs(p) /\ Provisioning!Take(c, p)
    BY <1>5
  <2>2. PICK p \in some : Provisioning!IsOurs(p) /\ Provisioning!Take(c, p)
    BY <2>1
  <2>3. p \in DOMAIN projects
    BY <2>1, <2>2 DEF Provisioning!Answers
  <2>4. /\ at' = [at EXCEPT ![c] = "fields"]
        /\ project' = [project EXCEPT ![c] = p]
        /\ \E fields : known' = [known EXCEPT ![c] = fields]
    BY <2>2 DEF Provisioning!Take
  <2>5. Aside(c)
    BY <1>1, <1>2, <2>4 DEF Aside, Shaped
  <2>6. at'[c] = "fields" /\ project'[c] = p
    BY <1>1, <2>4 DEF Shaped
  <2>7. HasProject(c)'
    BY <1>2, <2>2, <2>3, <2>6 DEF HasProject, Provisioning!IsOurs
  <2>8. Progresses(c)'
    BY <1>2, <1>4, <2>6, <2>7 DEF Progresses, Early, Finding
  <2>9. QED
    BY <1>3, <2>5, <2>8
<1>6. CASE /\ at' = [at EXCEPT ![c] = IF config.number = 0 THEN "new project" ELSE "failed"]
           /\ UNCHANGED <<project, known>>
  <2>1. Aside(c)
    BY <1>1, <1>2, <1>6 DEF Aside, Shaped
  <2>2. at'[c] = IF config.number = 0 THEN "new project" ELSE "failed"
    BY <1>1, <1>6 DEF Shaped
  <2>3. Progresses(c)'
    BY <1>2, <1>4, <2>2 DEF Progresses, Early, Finding
  <2>4. QED
    BY <1>3, <2>1, <2>3
<1>7. CASE Provisioning!Refused(c)
  <2>1. Provisioning!Goto(c, "failed") /\ UNCHANGED <<project, known>>
    BY <1>7 DEF Provisioning!Refused
  <2>2. Aside(c)
    BY <1>1, <1>2, <2>1 DEF Aside, Shaped
  <2>3. QED
    BY <1>1, <1>3, <2>1, <2>2, FailedProgresses
<1>8. QED
  BY <1>5, <1>6, <1>7 DEF Provisioning!FindProject

LEMMA CreateProjectStep ==
  ASSUME ProvisioningInv, NEW c \in Client, config' = config, Provisioning!CreateProject(c)
  PROVE  Kept /\ Aside(c) /\ Progresses(c)'
<1> USE DEF Provisioning!Goto, Provisioning!remote
<1>1. Shaped /\ Progresses(c) /\ at[c] = "new project"
  BY DEF ProvisioningInv, Provisioning!CreateProject
<1>2. UNCHANGED <<items, applied, issue, values, n>>
  BY DEF Provisioning!CreateProject, Provisioning!Refused, Provisioning!Unheard
<1>3. /\ Fields(c) # <<>> /\ applied[c] = <<>> /\ Fields(c)' = Fields(c)
      /\ config.number = 0
  BY <1>1 DEF Progresses, Early, Finding, Fields, Provisioning!Fields
<1>4. CASE projects' = Append(projects, [title |-> "ours", fields |-> <<>>])
  <2>1. /\ Kept
        /\ Len(projects') \in DOMAIN projects'
        /\ projects'[Len(projects')].title = "ours"
    BY <1>1, <1>2, <1>4, NewProject
  <2>2. CASE /\ project' = [project EXCEPT ![c] = Len(projects')]
             /\ known' = [known EXCEPT ![c] = <<>>]
             /\ at' = [at EXCEPT ![c] = "fields"]
    <3>1. Aside(c)
      BY <1>1, <1>2, <2>2 DEF Aside, Shaped
    <3>2. at'[c] = "fields" /\ project'[c] = Len(projects')
      BY <1>1, <2>2 DEF Shaped
    <3>3. HasProject(c)'
      BY <1>3, <2>1, <3>2 DEF HasProject, Provisioning!IsOurs
    <3>4. Progresses(c)'
      BY <1>2, <1>3, <3>2, <3>3 DEF Progresses, Early, Finding
    <3>5. QED
      BY <2>1, <3>1, <3>4
  <2>3. CASE Provisioning!Unheard(c)
    <3>1. Provisioning!Goto(c, "failed") /\ UNCHANGED <<project, known>>
      BY <2>3 DEF Provisioning!Unheard
    <3>2. Aside(c)
      BY <1>1, <1>2, <3>1 DEF Aside, Shaped
    <3>3. QED
      BY <1>1, <2>1, <3>1, <3>2, FailedProgresses
  <2>4. CASE Provisioning!Refused(c)
    <3>1. Provisioning!Goto(c, "failed") /\ UNCHANGED <<project, known>>
      BY <2>4 DEF Provisioning!Refused
    <3>2. Aside(c)
      BY <1>1, <1>2, <3>1 DEF Aside, Shaped
    <3>3. QED
      BY <1>1, <2>1, <3>1, <3>2, FailedProgresses
  <2>5. QED
    BY <2>2, <2>3, <2>4 DEF Provisioning!CreateProject
<1>5. CASE Provisioning!Refused(c)
  <2>1. Provisioning!Goto(c, "failed") /\ UNCHANGED <<projects, project, known>>
    BY <1>5 DEF Provisioning!Refused
  <2>2. Kept
    BY <1>1, <1>2, <2>1, KeptIfSame
  <2>3. Aside(c)
    BY <1>1, <1>2, <2>1 DEF Aside, Shaped
  <2>4. QED
    BY <1>1, <2>1, <2>2, <2>3, FailedProgresses
<1>6. QED
  BY <1>4, <1>5 DEF Provisioning!CreateProject

LEMMA CreateFieldStep ==
  ASSUME ProvisioningInv, NEW c \in Client, config' = config, Provisioning!CreateField(c)
  PROVE  Kept /\ Aside(c) /\ Progresses(c)'
<1> USE DEF Provisioning!Goto, Provisioning!remote
<1>1. Shaped /\ Progresses(c) /\ at[c] = "fields"
  BY DEF ProvisioningInv, Provisioning!CreateField
<1>2. UNCHANGED <<items, applied, issue, values, n, project>>
  BY DEF Provisioning!CreateField, Provisioning!Refused, Provisioning!Unheard
<1>3. /\ Fields(c) # <<>> /\ applied[c] = <<>> /\ Fields(c)' = Fields(c)
      /\ HasProject(c)
  BY <1>1 DEF Progresses, Early, Finding, Fields, Provisioning!Fields
<1>4. Kept
  <2>1. CASE \E fields : projects' = [projects EXCEPT ![project[c]].fields = fields]
    BY <1>1, <1>2, <1>3, <2>1, ChangedFields DEF HasProject
  <2>2. CASE projects' = projects
    BY <1>1, <1>2, <2>2, KeptIfSame
  <2>3. QED
    BY <2>1, <2>2 DEF Provisioning!CreateField, Provisioning!Refused
<1>5. HasProject(c)'
  BY <1>2, <1>3, <1>4 DEF HasProject, Kept, Provisioning!IsOurs
<1>6. CASE at' = at /\ \E fields : known' = [known EXCEPT ![c] = fields]
  <2>1. Aside(c)
    BY <1>1, <1>2, <1>6 DEF Aside, Shaped
  <2>2. Progresses(c)'
    BY <1>1, <1>2, <1>3, <1>5, <1>6 DEF Progresses, Early, Finding
  <2>3. QED
    BY <1>4, <2>1, <2>2
<1>7. CASE Provisioning!Goto(c, "failed") /\ UNCHANGED known
  <2>1. Aside(c)
    BY <1>1, <1>2, <1>7 DEF Aside, Shaped
  <2>2. QED
    BY <1>1, <1>4, <1>7, <2>1, FailedProgresses
<1>8. QED
  BY <1>6, <1>7 DEF Provisioning!CreateField, Provisioning!Refused, Provisioning!Unheard

LEMMA AddItemStep ==
  ASSUME ProvisioningInv, NEW c \in Client, config' = config, Provisioning!AddItem(c)
  PROVE  Kept /\ Aside(c) /\ Progresses(c)'
<1> USE DEF Provisioning!Goto, Provisioning!Advance, Provisioning!remote
<1>1. Shaped /\ Progresses(c) /\ at[c] = "fields"
  BY DEF ProvisioningInv, Provisioning!AddItem
<1>2. UNCHANGED <<projects, applied, issue, values, project, known>>
  BY DEF Provisioning!AddItem, Provisioning!Refused, Provisioning!Unheard
<1>3. /\ Fields(c) # <<>> /\ applied[c] = <<>> /\ Fields(c)' = Fields(c)
      /\ HasProject(c)
  BY <1>1 DEF Progresses, Early, Finding, Fields, Provisioning!Fields
<1>4. items \subseteq items'
  BY DEF Provisioning!AddItem, Provisioning!Refused
<1>5. Kept
  BY <1>1, <1>2, <1>4 DEF Kept, Shaped
<1>6. CASE /\ at' = [at EXCEPT ![c] = "values"] /\ n' = [n EXCEPT ![c] = 1]
           /\ <<project[c], c>> \in items'
  <2>1. Aside(c)
    BY <1>1, <1>2, <1>6 DEF Aside, Shaped
  <2>2. at'[c] = "values" /\ n'[c] = 1 /\ applied'[c] = <<>>
    BY <1>1, <1>2, <1>3, <1>6 DEF Shaped
  <2>3. HasProject(c)'
    BY <1>2, <1>3 DEF HasProject, Provisioning!IsOurs
  <2>4. HasValues(c)'
    BY <1>2, <1>6, <2>2 DEF HasValues
  <2>5. IsPrefix(c)'
    <3>1. PICK S : Fields(c) \in Seq(S)
      BY FieldsAreASequence
    <3>2. Len(Fields(c)) \in Nat \ {0}
      BY <1>3, <3>1
    <3>3. applied'[c] \in Seq({}) /\ Len(applied'[c]) = 0
      BY <2>2
    <3>4. 1 .. n'[c] - 1 = {}
      BY <2>2
    <3>5. QED
      BY <1>3, <2>2, <3>2, <3>3, <3>4 DEF IsPrefix
  <2>6. Progresses(c)'
    BY <2>2, <2>3, <2>4, <2>5, <1>3 DEF Progresses, Early, Finding
  <2>7. QED
    BY <1>5, <2>1, <2>6
<1>7. CASE Provisioning!Goto(c, "failed") /\ UNCHANGED n
  <2>1. Aside(c)
    BY <1>1, <1>2, <1>7 DEF Aside, Shaped
  <2>2. QED
    BY <1>1, <1>5, <1>7, <2>1, FailedProgresses
<1>8. QED
  BY <1>6, <1>7 DEF Provisioning!AddItem, Provisioning!Refused, Provisioning!Unheard

LEMMA SetValueStep ==
  ASSUME ProvisioningInv, NEW c \in Client, config' = config, Provisioning!SetValue(c)
  PROVE  Kept /\ Aside(c) /\ Progresses(c)'
<1> USE DEF Provisioning!Goto, Provisioning!Advance, Provisioning!remote
<1> DEFINE f == Fields(c)[n[c]]
           shown == <<project[c], f.name, f.value>>
<1>1. Shaped /\ Progresses(c) /\ at[c] = "values"
  BY DEF ProvisioningInv, Provisioning!SetValue
<1>2. UNCHANGED <<projects, items, issue, project, known>>
  BY DEF Provisioning!SetValue, Provisioning!Refused, Provisioning!Unheard
<1>3. /\ Fields(c) # <<>> /\ Fields(c)' = Fields(c)
      /\ HasProject(c) /\ HasValues(c) /\ IsPrefix(c)
  BY <1>1 DEF Progresses, Early, Finding, Fields, Provisioning!Fields
<1>4. Kept
  BY <1>1, <1>2, KeptIfSame
<1>5. CASE /\ values' = [values EXCEPT ![c] = {v \in @ : v[2] # f.name} \cup {shown}]
           /\ applied' = [applied EXCEPT ![c] = Append(@, f)]
           /\ n' = [n EXCEPT ![c] = n[c] + 1]
           /\ at' = [at EXCEPT ![c] = IF n[c] < Len(Fields(c)) THEN "values" ELSE "made"]
  <2>1. Aside(c)
    BY <1>1, <1>2, <1>5 DEF Aside, Shaped
  <2>2. PICK S : applied[c] \in Seq(S)
    BY <1>3 DEF IsPrefix
  <2>3. PICK T : Fields(c) \in Seq(T)
    BY FieldsAreASequence
  <2>4. /\ n[c] \in Nat /\ n[c] >= 1 /\ n[c] <= Len(Fields(c)) /\ Len(Fields(c)) \in Nat
        /\ DOMAIN Fields(c) = 1 .. Len(Fields(c))
        /\ Len(applied[c]) = n[c] - 1
    BY <1>3, <2>3 DEF IsPrefix
  <2>5. /\ applied'[c] = Append(applied[c], f)
        /\ values'[c] = {v \in values[c] : v[2] # f.name} \cup {shown}
        /\ n'[c] = n[c] + 1
        /\ at'[c] = IF n[c] < Len(Fields(c)) THEN "values" ELSE "made"
    <3> HIDE DEF f, shown
    <3>1. QED
      BY <1>1, <1>5 DEF Shaped
  <2>6. /\ \E U : applied'[c] \in Seq(U)
        /\ Len(applied'[c]) = n[c]
        /\ DOMAIN applied'[c] = 1 .. n[c]
        /\ applied'[c][n[c]] = f
        /\ \A k \in 1 .. n[c] - 1 : applied'[c][k] = applied[c][k]
    <3> HIDE DEF f
    <3>1. \E U : Append(applied[c], f) \in Seq(U)
      BY <2>2, AppendedTo, Zenon
    <3>2. /\ Len(Append(applied[c], f)) = n[c]
          /\ DOMAIN Append(applied[c], f) = 1 .. n[c]
          /\ Append(applied[c], f)[n[c]] = f
          /\ \A k \in 1 .. n[c] - 1 : Append(applied[c], f)[k] = applied[c][k]
      BY <2>2, <2>4
    <3>3. QED
      BY <2>5, <3>1, <3>2, Zenon
  <2>7. \A k \in 1 .. n[c] : applied'[c][k] = Fields(c)[k]
    <3>1. \A k \in 1 .. n[c] - 1 : applied'[c][k] = Fields(c)[k]
      BY <1>3, <2>6 DEF IsPrefix
    <3>2. \A k \in 1 .. n[c] : k \in 1 .. n[c] - 1 \/ k = n[c]
      BY <2>4
    <3>3. QED
      BY <2>6, <3>1, <3>2
  <2>8. ASSUME NEW k \in DOMAIN applied'[c]
        PROVE  <<project[c], applied'[c][k].name, applied'[c][k].value>> \in values'[c]
    <3>1. CASE k = n[c]
      BY <2>5, <2>6, <3>1
    <3>2. CASE k # n[c]
      <4>1. k \in 1 .. n[c] - 1 /\ k \in DOMAIN applied[c]
        BY <2>2, <2>4, <2>6, <3>2
      <4>2. <<project[c], applied[c][k].name, applied[c][k].value>> \in values[c]
        BY <1>3, <4>1 DEF HasValues
      <4>3. applied[c][k] = Fields(c)[k] /\ applied'[c][k] = applied[c][k]
        BY <1>3, <2>6, <4>1 DEF IsPrefix
      <4>4. Fields(c)[k].name # f.name
        <5>1. k \in DOMAIN Fields(c) /\ n[c] \in DOMAIN Fields(c)
          BY <2>4, <4>1
        <5>2. QED
          BY <3>2, <5>1, FieldsAreASequence
      <4>5. QED
        BY <2>5, <4>2, <4>3, <4>4
    <3>3. QED
      BY <3>1, <3>2
  <2>9. HasValues(c)'
    BY <1>2, <1>3, <2>8 DEF HasValues
  <2>10. HasProject(c)'
    BY <1>2, <1>3 DEF HasProject, Provisioning!IsOurs
  <2>11. at'[c] = "values" => IsPrefix(c)'
    <3>1. SUFFICES ASSUME n[c] < Len(Fields(c)) PROVE IsPrefix(c)'
      BY <2>5
    <3>2. n'[c] \in 1 .. Len(Fields(c)) /\ n'[c] - 1 = n[c]
      BY <2>4, <2>5, <3>1
    <3>3. QED
      BY <1>3, <2>6, <2>7, <3>2 DEF IsPrefix
  <2>12. at'[c] \in {"values", "made"}
    BY <2>5
  <2>13. Progresses(c)'
    BY <1>3, <2>9, <2>10, <2>11, <2>12 DEF Progresses, Early, Finding
  <2>14. QED
    BY <1>4, <2>1, <2>13
<1>6. CASE /\ at' = [at EXCEPT ![c] = "failed"] /\ UNCHANGED <<n, applied>>
           /\ values' = values \/ \E set : values' = [values EXCEPT ![c] = set]
  <2>1. Aside(c)
    BY <1>1, <1>2, <1>6 DEF Aside, Shaped
  <2>2. QED
    BY <1>1, <1>4, <1>6, <2>1, FailedProgresses
<1>7. QED
  BY <1>5, <1>6
  DEF Provisioning!SetValue, Provisioning!Refused, Provisioning!Unheard, Fields

LEMMA CompareStep ==
  ASSUME ProvisioningInv, NEW c \in Client, config' = config, Provisioning!Compare(c)
  PROVE  Kept /\ Aside(c) /\ Progresses(c)'
<1> USE DEF Provisioning!Goto, Provisioning!remote
<1>1. Shaped /\ Progresses(c) /\ at[c] = "made"
  BY DEF ProvisioningInv, Provisioning!Compare
<1>2. /\ UNCHANGED <<projects, items, issue, values, n, project, known, applied>>
      /\ at' = [at EXCEPT ![c] =
                  IF /\ issue[c] = Provisioning!ToSet(Proposal[c].labels)
                     /\ applied[c] = Provisioning!Fields(c)
                  THEN "created" ELSE "mismatch"]
  BY DEF Provisioning!Compare
<1>3. Kept
  BY <1>1, <1>2, KeptIfSame
<1>4. Aside(c)
  BY <1>1, <1>2 DEF Aside, Shaped
<1>5. at'[c] = IF /\ issue[c] = Provisioning!ToSet(Proposal[c].labels)
                  /\ applied[c] = Provisioning!Fields(c)
               THEN "created" ELSE "mismatch"
  BY <1>1, <1>2 DEF Shaped
<1>6. Fields(c)' = Fields(c)
  BY DEF Fields, Provisioning!Fields
<1>7. HasProject(c) => HasProject(c)'
  BY <1>2 DEF HasProject, Provisioning!IsOurs
<1>8. HasValues(c) => HasValues(c)'
  BY <1>2, <1>6 DEF HasValues
<1>9. CASE at'[c] = "created"
  <2>1. issue'[c] = Provisioning!ToSet(Proposal[c].labels) /\ applied'[c] = Fields(c)
    BY <1>2, <1>5, <1>9 DEF Fields
  <2>2. QED
    BY <1>1, <1>3, <1>4, <1>6, <1>7, <1>8, <1>9, <2>1 DEF Progresses, Early, Finding
<1>10. CASE at'[c] = "mismatch"
  BY <1>3, <1>4, <1>10 DEF Progresses, Early, Finding
<1>11. QED
  BY <1>5, <1>9, <1>10

LEMMA PeopleStep ==
  ASSUME ProvisioningInv, config' = config, Provisioning!People
  PROVE  ProvisioningInv'
<1>1. Shaped /\ UNCHANGED <<at, n, project, known, applied, issue, values, items>>
  BY DEF ProvisioningInv, Provisioning!People, Provisioning!client
<1>2. \/ projects' = projects
      \/ \E title : projects' = Append(projects, [title |-> title, fields |-> <<>>])
      \/ \E p \in DOMAIN projects : \E fields : projects' = [projects EXCEPT ![p].fields = fields]
  BY DEF Provisioning!People
<1>3. Kept
  <2>1. CASE projects' = projects
    BY <1>1, <2>1, KeptIfSame
  <2>2. CASE \E title : projects' = Append(projects, [title |-> title, fields |-> <<>>])
    BY <1>1, <2>2, NewProject
  <2>3. CASE \E p \in DOMAIN projects :
               \E fields : projects' = [projects EXCEPT ![p].fields = fields]
    BY <1>1, <2>3, ChangedFields
  <2>4. QED
    BY <1>2, <2>1, <2>2, <2>3
<1>4. Shaped'
  BY <1>1, <1>3 DEF Shaped, Kept
<1>5. \A d \in Client : Progresses(d)'
  BY <1>1, <1>3, OthersProgress
<1>6. QED
  BY <1>4, <1>5 DEF ProvisioningInv

LEMMA ProvisioningStep == ProvisioningInv /\ Provisioning!Next => ProvisioningInv'
<1> SUFFICES ASSUME ProvisioningInv, Provisioning!Next PROVE ProvisioningInv'
  OBVIOUS
<1>1. config' = config
  BY DEF Provisioning!Next
<1>2. ASSUME NEW c \in Client, Provisioning!Submit(c)
      PROVE  Kept /\ Aside(c) /\ Progresses(c)'
  BY <1>1, <1>2, EarlyStep, FindProjectStep, CreateProjectStep, CreateFieldStep, AddItemStep,
     SetValueStep, CompareStep
  DEF Provisioning!Submit
<1>3. ASSUME NEW c \in Client, Provisioning!Submit(c)
      PROVE  ProvisioningInv'
  BY <1>1, <1>2, <1>3, OneProgresses
<1>4. QED
  BY <1>1, <1>3, PeopleStep DEF Provisioning!Next

LEMMA ProvisioningStarts == Provisioning!Init => ProvisioningInv
<1> SUFFICES ASSUME Provisioning!Init PROVE ProvisioningInv
  OBVIOUS
<1>1. \E S : projects \in Seq(S)
  BY ProvisioningAssumption
  DEF Provisioning!Init, Provisioning!ConstantsAssumption, Provisioning!IsSequence
<1>2. \A p \in DOMAIN projects : "title" \in DOMAIN projects[p]
  BY ProvisioningAssumption DEF Provisioning!Init, Provisioning!ConstantsAssumption
<1>3. Shaped
  BY <1>1, <1>2 DEF Provisioning!Init, Shaped
<1>4. \A c \in Client : at[c] = "start" /\ applied[c] = <<>>
  BY DEF Provisioning!Init
<1>5. QED
  BY <1>3, <1>4 DEF ProvisioningInv, Progresses, Early, Finding

\* A submission recorded as created is whole: its issue has every label and
\* every value that were asked for, in one project, the configured one.
THEOREM CreatedIsWhole == SubmitSpec => []CreatedIsProvisioned
<1>1. SubmitInit => ProvisioningInv
  BY ProvisioningStarts DEF SubmitInit
<1>2. ProvisioningInv /\ [SubmitNext]_<<part, vars, provisioningVars, listingVars>> => ProvisioningInv'
  <2> SUFFICES ASSUME ProvisioningInv, [SubmitNext]_<<part, vars, provisioningVars, listingVars>>
               PROVE  ProvisioningInv'
    OBVIOUS
  <2>1. CASE Provisioning!Next
    BY <2>1, ProvisioningStep
  <2>2. CASE UNCHANGED provisioningVars
    BY <2>2 DEF provisioningVars, ProvisioningInv, Shaped, Progresses, HasProject, HasValues, IsPrefix,
                Fields, Provisioning!Fields, Provisioning!IsOurs
  <2>3. QED
    BY <2>1, <2>2 DEF SubmitNext
<1>3. ProvisioningInv => CreatedIsProvisioned
  <2> SUFFICES ASSUME ProvisioningInv, NEW c \in Client, at[c] = "created"
               PROVE  /\ issue[c] = Provisioning!ToSet(Proposal[c].labels)
                      /\ Fields(c) # <<>> =>
                           \E p \in DOMAIN projects :
                             /\ Provisioning!IsOurs(p) /\ <<p, c>> \in items
                             /\ \A k \in DOMAIN Fields(c) :
                                  <<p, Fields(c)[k].name, Fields(c)[k].value>> \in values[c]
    BY DEF CreatedIsProvisioned, Provisioning!CreatedIsProvisioned, Provisioning!IsOurs, Fields
  <2>1. /\ issue[c] = Provisioning!ToSet(Proposal[c].labels) /\ applied[c] = Fields(c)
        /\ HasValues(c)
        /\ Fields(c) # <<>> => HasProject(c)
    BY DEF ProvisioningInv, Progresses
  <2>2. QED
    BY <2>1 DEF HasValues, HasProject
<1>4. QED
  BY <1>1, <1>2, <1>3, PTL DEF SubmitSpec

-----------------------------------------------------------------------------
\* Sequences that have no item twice

Place(s, i) == Listing!Place(s, i)
Items(s) == Listing!ToSet(s)

\* A sequence of items that has none twice.
Distinct(s) == s \in Seq(Item) /\ \A j, k \in DOMAIN s : s[j] = s[k] => j = k

LEMMA PlaceOf ==
  ASSUME NEW s, Distinct(s)
  PROVE  /\ Len(s) \in Nat /\ DOMAIN s = 1 .. Len(s) /\ Items(s) \subseteq Item
         /\ \A i \in Items(s) : Place(s, i) \in 1 .. Len(s) /\ s[Place(s, i)] = i
         /\ \A k \in 1 .. Len(s) : s[k] \in Items(s) /\ Place(s, s[k]) = k
         /\ \A i, j \in Items(s) : Place(s, i) = Place(s, j) => i = j
<1>1. Len(s) \in Nat /\ DOMAIN s = 1 .. Len(s) /\ Items(s) \subseteq Item
  BY DEF Distinct, Items, Listing!ToSet
<1>2. ASSUME NEW i \in Items(s) PROVE Place(s, i) \in 1 .. Len(s) /\ s[Place(s, i)] = i
  <2>1. \E k \in DOMAIN s : s[k] = i
    BY DEF Items, Listing!ToSet
  <2>2. QED
    BY <2>1, <1>1 DEF Place, Listing!Place
<1>3. ASSUME NEW k \in 1 .. Len(s) PROVE s[k] \in Items(s) /\ Place(s, s[k]) = k
  <2>1. s[k] \in Items(s)
    BY <1>1 DEF Items, Listing!ToSet
  <2>2. QED
    BY <2>1, <1>1, <1>2 DEF Distinct
<1>4. ASSUME NEW i \in Items(s), NEW j \in Items(s), Place(s, i) = Place(s, j)
      PROVE  i = j
  BY <1>2, <1>4
<1>5. QED
  BY <1>1, <1>2, <1>3, <1>4

LEMMA ItemsAreFinite ==
  ASSUME NEW s, Distinct(s), NEW T, T \subseteq Items(s)
  PROVE  IsFiniteSet(T) /\ Cardinality(T) \in Nat
<1> DEFINE f == [i \in T |-> Place(s, i)]
<1>1. f \in Injection(T, 1 .. Len(s))
  BY PlaceOf DEF Injection, IsInjective
<1>2. IsFiniteSet(1 .. Len(s))
  BY PlaceOf, FS_Interval
<1>3. IsFiniteSet(T)
  BY <1>1, <1>2, FS_Injection
<1>4. QED
  BY <1>3, FS_CardinalityType

\* The listing counts as everyone does.
Count(S) == Listing!Cardinality(S)

LEMMA SameCount == ASSUME NEW S PROVE Count(S) = Cardinality(S)
  BY DEF Count, Listing!Cardinality, Cardinality

\* The items of a set up to one of them are more than those up to one before
\* it, and the number of them is the place of that item among the set's.
Upto(s, set, i) == Listing!Upto(s, set, i)
Number(s, set, i) == Count(Upto(s, set, i))

LEMMA Numbers ==
  ASSUME NEW s, Distinct(s), NEW set
  PROVE  LET T == set \cap Items(s) IN
         /\ \A i \in T : Number(s, set, i) \in 1 .. Count(T)
         /\ \A i, j \in T : Number(s, set, i) < Number(s, set, j) <=> Place(s, i) < Place(s, j)
         /\ \A k \in 1 .. Count(T) : \E i \in T : Number(s, set, i) = k
<1> DEFINE T == set \cap Items(s)
           C == Count(T)
           f == [i \in T |-> Number(s, set, i)]
<1>1. IsFiniteSet(T) /\ C = Cardinality(T) /\ C \in Nat
  BY ItemsAreFinite, SameCount
<1>2. ASSUME NEW i \in T
      PROVE  /\ Upto(s, set, i) = {j \in T : Place(s, j) <= Place(s, i)}
             /\ Upto(s, set, i) \subseteq T /\ i \in Upto(s, set, i)
             /\ IsFiniteSet(Upto(s, set, i))
             /\ Number(s, set, i) \in 1 .. C
  <2>1. Upto(s, set, i) = {j \in T : Place(s, j) <= Place(s, i)}
    BY DEF Upto, Listing!Upto, Place, Items
  <2>2. Upto(s, set, i) \subseteq T /\ i \in Upto(s, set, i)
    BY <2>1, PlaceOf
  <2>3. IsFiniteSet(Upto(s, set, i)) /\ Number(s, set, i) \in Nat /\ Number(s, set, i) <= C
    BY <2>2, <1>1, FS_Subset, FS_CardinalityType, SameCount DEF Number
  <2>4. Number(s, set, i) # 0
    BY <2>2, <2>3, FS_EmptySet, SameCount DEF Number
  <2>5. QED
    BY <2>1, <2>2, <2>3, <2>4, <1>1
<1>3. ASSUME NEW i \in T, NEW j \in T, Place(s, i) < Place(s, j)
      PROVE  Number(s, set, i) < Number(s, set, j)
  <2>1. Upto(s, set, i) \subseteq Upto(s, set, j)
    BY <1>2, <1>3, PlaceOf
  <2>2. j \in Upto(s, set, j) /\ j \notin Upto(s, set, i)
    BY <1>2, <1>3, PlaceOf
  <2>3. IsFiniteSet(Upto(s, set, j)) /\ Upto(s, set, i) # Upto(s, set, j)
    BY <2>2, <1>2
  <2>4. Cardinality(Upto(s, set, i)) <= Cardinality(Upto(s, set, j))
    BY <2>1, <2>3, FS_Subset
  <2>5. Cardinality(Upto(s, set, j)) # Cardinality(Upto(s, set, i))
    BY <2>1, <2>3, FS_Subset
  <2>6. QED
    BY <2>4, <2>5, <1>2, SameCount DEF Number
<1>4. ASSUME NEW i \in T, NEW j \in T
      PROVE  Number(s, set, i) < Number(s, set, j) <=> Place(s, i) < Place(s, j)
  <2>1. Place(s, i) \in Nat /\ Place(s, j) \in Nat /\ Number(s, set, i) \in Nat /\ Number(s, set, j) \in Nat
    BY PlaceOf, <1>2
  <2>2. Place(s, i) = Place(s, j) => Number(s, set, i) = Number(s, set, j)
    BY PlaceOf
  <2>3. QED
    BY <2>1, <2>2, <1>3
<1>5. f \in Injection(T, 1 .. C)
  <2>1. f \in [T -> 1 .. C]
    BY <1>2
  <2>2. ASSUME NEW i \in T, NEW j \in T, f[i] = f[j]
        PROVE  i = j
    <3>1. Place(s, i) \in Nat /\ Place(s, j) \in Nat /\ Number(s, set, i) \in Nat /\ Number(s, set, j) \in Nat
      BY PlaceOf, <1>2
    <3>2. Place(s, i) = Place(s, j)
      BY <2>2, <3>1, <1>3
    <3>3. QED
      BY <3>2, PlaceOf
  <2>3. QED
    BY <2>1, <2>2 DEF Injection, IsInjective
<1>6. IsFiniteSet(1 .. C) /\ Cardinality(1 .. C) = C
  BY <1>1, FS_Interval
<1>7. f \in Surjection(T, 1 .. C)
  BY <1>1, <1>5, <1>6, FS_Injection
<1>8. ASSUME NEW k \in 1 .. C PROVE \E i \in T : Number(s, set, i) = k
  BY <1>7 DEF Surjection
<1>9. QED
  BY <1>2, <1>4, <1>8

LEMMA NumberIsNatural ==
  ASSUME NEW s, Distinct(s), NEW set, NEW i \in set \cap Items(s)
  PROVE  Number(s, set, i) \in Nat
<1> DEFINE T == set \cap Items(s)
<1>1. Count(T) \in Nat
  BY ItemsAreFinite, SameCount
<1>2. Number(s, set, i) \in 1 .. Count(T)
  BY Numbers
<1>3. QED
  BY <1>1, <1>2

LEMMA KeptItems ==
  ASSUME NEW s, Distinct(s), NEW set
  PROVE  LET t == Listing!Kept(s, set) IN
         /\ Distinct(t)
         /\ Items(t) = set \cap Items(s)
         /\ \A i \in Items(t) : Place(t, i) = Number(s, set, i)
         /\ \A i, j \in Items(t) : Place(t, i) < Place(t, j) <=> Place(s, i) < Place(s, j)
<1> DEFINE T == set \cap Items(s)
           C == Count(T)
           t == Listing!Kept(s, set)
           Num(i) == Number(s, set, i)
<1>1. /\ \A i \in T : Num(i) \in 1 .. C
      /\ \A i, j \in T : Num(i) < Num(j) <=> Place(s, i) < Place(s, j)
      /\ \A k \in 1 .. C : \E i \in T : Num(i) = k
  BY Numbers
<1>2. C \in Nat /\ T \subseteq Item
  BY ItemsAreFinite, PlaceOf, SameCount
<1>3. t = [k \in 1 .. C |-> CHOOSE i \in T : Num(i) = k]
  BY DEF Listing!Kept, Items, Number, Upto, Count
<1> HIDE DEF t, Num, T, C
<1>4. DOMAIN t = 1 .. C /\ \A k \in 1 .. C : t[k] \in T /\ Num(t[k]) = k
  <2>1. DOMAIN t = 1 .. C /\ \A k \in 1 .. C : t[k] = CHOOSE i \in T : Num(i) = k
    BY <1>3
  <2>2. QED
    BY <2>1, <1>1
<1>5. t \in Seq(Item) /\ Len(t) = C
  <2>1. t = [k \in 1 .. C |-> t[k]]
    BY <1>3
  <2>2. \A k \in 1 .. C : t[k] \in Item
    BY <1>4, <1>2
  <2> HIDE DEF t
  <2>3. t \in [1 .. C -> Item]
    BY <2>1, <2>2
  <2>4. QED
    BY <2>3, <1>2
<1>6. Distinct(t)
  BY <1>4, <1>5 DEF Distinct
<1>7. ASSUME NEW i \in T PROVE \E k \in 1 .. C : t[k] = i
  <2>1. Num(i) \in 1 .. C /\ t[Num(i)] \in T /\ Num(t[Num(i)]) = Num(i)
    BY <1>1, <1>4
  <2>2. Place(s, i) \in Nat /\ Place(s, t[Num(i)]) \in Nat /\ T \subseteq Items(s)
    BY <2>1, PlaceOf DEF T
  <2>3. Place(s, i) = Place(s, t[Num(i)])
    BY <2>1, <2>2, <1>1
  <2>4. i = t[Num(i)]
    BY <2>1, <2>2, <2>3, PlaceOf
  <2>5. QED
    BY <2>1, <2>4
<1>8. Items(t) = T
  BY <1>4, <1>7 DEF Items, Listing!ToSet
<1>9. ASSUME NEW i \in T PROVE Place(t, i) = Num(i)
  <2>1. Place(t, i) \in 1 .. C /\ t[Place(t, i)] = i
    BY <1>5, <1>6, <1>8, PlaceOf
  <2>2. QED
    BY <2>1, <1>4
<1>10. QED
  BY <1>1, <1>6, <1>8, <1>9 DEF t, T, Num

\* What comes up to an item in one sequence and still does in another: that
\* item has no smaller number there.
LEMMA Further ==
  ASSUME NEW s, NEW t, Distinct(s), Distinct(t), NEW set,
         NEW i \in set \cap Items(s), i \in Items(t),
         \A j \in set \cap Items(s) :
           Place(s, j) <= Place(s, i) => j \in Items(t) /\ Place(t, j) <= Place(t, i)
  PROVE  Number(s, set, i) <= Number(t, set, i)
<1>1. Upto(s, set, i) = {j \in set \cap Items(s) : Place(s, j) <= Place(s, i)}
  BY DEF Upto, Listing!Upto, Place, Items
<1>2. Upto(t, set, i) = {j \in set \cap Items(t) : Place(t, j) <= Place(t, i)}
  BY DEF Upto, Listing!Upto, Place, Items
<1>3. Upto(s, set, i) \subseteq Upto(t, set, i)
  BY <1>1, <1>2
<1>4. IsFiniteSet(Upto(t, set, i))
  BY <1>2, ItemsAreFinite
<1>5. QED
  BY <1>3, <1>4, FS_Subset, SameCount DEF Number

\* A page: what has its places, and all that comes after those before it if it
\* is not full.
Before(k) == Listing!Before(k)

LEMMA PagesInOrder ==
  ASSUME NEW k \in Nat \ {0}
  PROVE  /\ PerPage \in Nat \ {0} /\ Before(k) \in Nat
         /\ k + 1 \in Nat \ {0} /\ Before(k + 1) = Before(k) + PerPage
<1>1. PerPage \in Nat \ {0}
  BY ListingAssumption DEF Listing!ConstantsAssumption
<1>2. k - 1 \in Nat /\ Before(k) = (k - 1) * PerPage /\ Before(k + 1) = ((k + 1) - 1) * PerPage
  BY DEF Before, Listing!Before
<1>3. Before(k) \in Nat
  BY <1>1, <1>2
<1>4. ((k + 1) - 1) * PerPage = (k - 1) * PerPage + PerPage
  BY <1>1, <1>2
<1>5. QED
  BY <1>1, <1>2, <1>3, <1>4

LEMMA PageItems ==
  ASSUME NEW s, Distinct(s), NEW k \in Nat \ {0}
  PROVE  LET t == Listing!PageOf(s, k) IN
         /\ Distinct(t) /\ Len(t) \in Nat
         /\ Items(t) = {i \in Items(s) : Before(k) < Place(s, i) /\ Place(s, i) <= Before(k + 1)}
         /\ Len(t) < PerPage => \A i \in Items(s) : Place(s, i) <= Before(k + 1)
<1> DEFINE t == Listing!PageOf(s, k)
           b == Before(k)
           m == IF Len(s) < b + PerPage THEN Len(s) - b ELSE PerPage
           l == IF m < 0 THEN 0 ELSE m
<1>1. PerPage \in Nat \ {0} /\ b \in Nat /\ Before(k + 1) = b + PerPage
  BY PagesInOrder
<1>2. Len(s) \in Nat /\ \A j \in 1 .. Len(s) : s[j] \in Item
  BY PlaceOf
<1>3. t = [j \in 1 .. m |-> s[b + j]]
  BY DEF Listing!PageOf, Before
<1> HIDE DEF t
<1>4. l \in Nat /\ 1 .. m = 1 .. l /\ \A j \in 1 .. l : b + j \in 1 .. Len(s)
  BY <1>1, <1>2
<1>5. DOMAIN t = 1 .. l /\ \A j \in 1 .. l : t[j] = s[b + j]
  BY <1>3, <1>4
<1>6. t \in Seq(Item) /\ Len(t) = l
  <2>1. t = [j \in 1 .. l |-> s[b + j]]
    BY <1>3, <1>4
  <2>2. \A j \in 1 .. l : s[b + j] \in Item
    BY <1>4, <1>2
  <2> HIDE DEF l
  <2>3. QED
    BY <2>1, <2>2, <1>4
<1>7. Distinct(t)
  <2>1. \A i, j \in 1 .. l : s[b + i] = s[b + j] => b + i = b + j
    BY <1>4, PlaceOf
  <2>2. \A i, j \in 1 .. l : b + i = b + j => i = j
    BY <1>1, <1>4
  <2>3. QED
    BY <2>1, <2>2, <1>5, <1>6 DEF Distinct
<1>8. ASSUME NEW i \in Items(t)
      PROVE  i \in Items(s) /\ b < Place(s, i) /\ Place(s, i) <= b + PerPage
  <2>1. PICK j \in 1 .. l : i = s[b + j]
    BY <1>5 DEF Items, Listing!ToSet
  <2>2. i \in Items(s) /\ Place(s, i) = b + j
    BY <2>1, <1>4, PlaceOf
  <2>3. QED
    BY <2>2, <1>1, <1>2
<1>9. ASSUME NEW i \in Items(s), b < Place(s, i), Place(s, i) <= b + PerPage
      PROVE  i \in Items(t)
  <2>1. Place(s, i) \in 1 .. Len(s) /\ s[Place(s, i)] = i
    BY PlaceOf
  <2>2. Place(s, i) - b \in 1 .. l /\ b + (Place(s, i) - b) = Place(s, i)
    BY <2>1, <1>9, <1>1, <1>2
  <2>3. t[Place(s, i) - b] = i
    BY <2>1, <2>2, <1>5
  <2>4. QED
    BY <2>2, <2>3, <1>5 DEF Items, Listing!ToSet
<1>10. ASSUME Len(t) < PerPage, NEW i \in Items(s)
       PROVE  Place(s, i) <= b + PerPage
  <2>1. Place(s, i) \in 1 .. Len(s)
    BY PlaceOf
  <2>2. QED
    BY <2>1, <1>10, <1>1, <1>2, <1>6
<1>11. QED
  BY <1>1, <1>4, <1>6, <1>7, <1>8, <1>9, <1>10 DEF t

LEMMA InFront ==
  ASSUME NEW s, Distinct(s), NEW x \in Item, x \notin Items(s)
  PROVE  /\ Distinct(<<x>> \o s) /\ Items(<<x>> \o s) = Items(s) \cup {x}
         /\ Place(<<x>> \o s, x) = 1
         /\ \A i \in Items(s) : Place(<<x>> \o s, i) = Place(s, i) + 1
<1> DEFINE t == <<x>> \o s
           n0 == Len(s)
<1>1. /\ s \in Seq(Item) /\ n0 \in Nat /\ DOMAIN s = 1 .. n0
      /\ \A j \in 1 .. n0 : s[j] \in Items(s) /\ Place(s, s[j]) = j
  BY PlaceOf DEF Distinct
<1>2. /\ t \in Seq(Item) /\ Len(t) = n0 + 1 /\ DOMAIN t = 1 .. n0 + 1
      /\ t[1] = x /\ \A j \in 1 .. n0 : t[j + 1] = s[j]
  BY <1>1
<1>3. ASSUME NEW j \in 1 .. n0 + 1 PROVE j = 1 \/ (j - 1 \in 1 .. n0 /\ t[j] = s[j - 1])
  <2>1. j = 1 \/ (j - 1 \in 1 .. n0 /\ (j - 1) + 1 = j)
    BY <1>1
  <2>2. QED
    BY <2>1, <1>2
<1> HIDE DEF t
<1>4. Distinct(t)
  <2>1. ASSUME NEW j \in 1 .. n0 + 1, NEW k \in 1 .. n0 + 1, t[j] = t[k] PROVE j = k
    <3>1. (j = 1 \/ (j - 1 \in 1 .. n0 /\ t[j] = s[j - 1])) /\ (k = 1 \/ (k - 1 \in 1 .. n0 /\ t[k] = s[k - 1]))
      BY <1>3
    <3>2. j = 1 => k = 1
      BY <3>1, <2>1, <1>1, <1>2
    <3>3. k = 1 => j = 1
      BY <3>1, <2>1, <1>1, <1>2
    <3>4. j # 1 /\ k # 1 => j - 1 = k - 1
      BY <3>1, <2>1 DEF Distinct
    <3>5. QED
      BY <3>2, <3>3, <3>4, <1>1
  <2>2. QED
    BY <2>1, <1>2 DEF Distinct
<1>5. ASSUME NEW i \in Items(s) PROVE i \in Items(t) /\ Place(t, i) = Place(s, i) + 1
  <2>1. Place(s, i) \in 1 .. n0 /\ s[Place(s, i)] = i
    BY PlaceOf
  <2>2. t[Place(s, i) + 1] = i /\ Place(s, i) + 1 \in 1 .. n0 + 1
    BY <2>1, <1>1, <1>2
  <2>3. QED
    BY <2>2, <1>2, <1>4, PlaceOf
<1>6. x \in Items(t) /\ Place(t, x) = 1
  <2>1. 1 \in 1 .. n0 + 1
    BY <1>1
  <2>2. QED
    BY <2>1, <1>2, <1>4, PlaceOf
<1>7. ASSUME NEW i \in Items(t) PROVE i \in Items(s) \cup {x}
  <2>1. Place(t, i) \in 1 .. n0 + 1 /\ t[Place(t, i)] = i
    BY <1>2, <1>4, PlaceOf
  <2>2. QED
    BY <2>1, <1>1, <1>2, <1>3
<1>8. QED
  BY <1>4, <1>5, <1>6, <1>7 DEF t

LEMMA AtTheEnd ==
  ASSUME NEW s, Distinct(s), NEW x \in Item, x \notin Items(s)
  PROVE  /\ Distinct(Append(s, x)) /\ Items(Append(s, x)) = Items(s) \cup {x}
         /\ \A i \in Items(s) : Place(Append(s, x), i) = Place(s, i)
<1> DEFINE t == Append(s, x)
           n0 == Len(s)
<1>1. /\ s \in Seq(Item) /\ n0 \in Nat /\ DOMAIN s = 1 .. n0
      /\ \A j \in 1 .. n0 : s[j] \in Items(s) /\ Place(s, s[j]) = j
  BY PlaceOf DEF Distinct
<1>2. /\ t \in Seq(Item) /\ Len(t) = n0 + 1 /\ DOMAIN t = 1 .. n0 + 1
      /\ t[n0 + 1] = x /\ \A j \in 1 .. n0 : t[j] = s[j]
  BY <1>1
<1>3. \A j \in 1 .. n0 + 1 : j \in 1 .. n0 \/ j = n0 + 1
  BY <1>1
<1> HIDE DEF t
<1>4. Distinct(t)
  BY <1>1, <1>2, <1>3 DEF Distinct
<1>5. ASSUME NEW i \in Items(s) PROVE i \in Items(t) /\ Place(t, i) = Place(s, i)
  <2>1. Place(s, i) \in 1 .. n0 /\ s[Place(s, i)] = i
    BY PlaceOf
  <2>2. t[Place(s, i)] = i /\ Place(s, i) \in 1 .. n0 + 1
    BY <2>1, <1>1, <1>2
  <2>3. QED
    BY <2>2, <1>2, <1>4, PlaceOf
<1>6. x \in Items(t)
  <2>1. n0 + 1 \in 1 .. n0 + 1
    BY <1>1
  <2>2. QED
    BY <2>1, <1>2, <1>4, PlaceOf
<1>7. ASSUME NEW i \in Items(t) PROVE i \in Items(s) \cup {x}
  <2>1. Place(t, i) \in 1 .. n0 + 1 /\ t[Place(t, i)] = i
    BY <1>2, <1>4, PlaceOf
  <2>2. QED
    BY <2>1, <1>1, <1>2, <1>3
<1>8. QED
  BY <1>4, <1>5, <1>6, <1>7 DEF t

-----------------------------------------------------------------------------
\* What a list that is read has so far.

Selecting(q) == {i \in Item : Listing!Selects(q, i)}
Wanted(q, i) == Listing!Wanted(q, i)
IsWhole(q, g, S) == \A i \in S : Wanted(q, i) => i \in Items(g)

\* What is not read yet is behind the pages that have been.
IsAhead(q, s, g, S, p) ==
  \A i \in S : Wanted(q, i) => i \in Items(g) \/ Number(s, Selecting(q), i) > Before(p)

IsClean(q, g) == g \in Seq(Item) /\ \A i \in Items(g) : Wanted(q, i)

ListingTypes ==
  /\ Distinct(shelf)
  /\ query \in Queries /\ page \in Nat \ {0} /\ partial \in BOOLEAN
  /\ reader \in {"idle", "reading", "listed", "failed"}
  /\ IsClean(query, got)
  /\ steady \subseteq Selecting(query) \cap Items(shelf)

ListingInv ==
  /\ ListingTypes
  /\ reader = "idle" => got = <<>>
  /\ reader = "reading" => query.comments \/ Len(got) < Listing!Limit
  /\ reader = "reading" /\ partial = FALSE => IsAhead(query, shelf, got, steady, page)
  /\ reader = "listed" /\ partial = FALSE /\ (query.comments \/ Len(got) < Listing!Limit) =>
       IsWhole(query, got, steady)

LEMMA Joined ==
  ASSUME NEW s \in Seq(Item), NEW t \in Seq(Item)
  PROVE  s \o t \in Seq(Item) /\ Items(s \o t) = Items(s) \cup Items(t)
<1>1. /\ s \o t \in Seq(Item) /\ Len(s) \in Nat /\ Len(t) \in Nat
      /\ DOMAIN s = 1 .. Len(s) /\ DOMAIN t = 1 .. Len(t)
      /\ DOMAIN (s \o t) = 1 .. Len(s) + Len(t)
      /\ \A k \in 1 .. Len(s) : (s \o t)[k] = s[k]
      /\ \A k \in 1 .. Len(t) : (s \o t)[Len(s) + k] = t[k]
  OBVIOUS
<1>2. ASSUME NEW k \in 1 .. Len(s) + Len(t)
      PROVE  k \in 1 .. Len(s) \/ (k - Len(s) \in 1 .. Len(t) /\ k = Len(s) + (k - Len(s)))
  BY <1>1
<1>3. ASSUME NEW k \in 1 .. Len(t) PROVE Len(s) + k \in 1 .. Len(s) + Len(t)
  BY <1>1
<1>4. 1 .. Len(s) \subseteq 1 .. Len(s) + Len(t)
  BY <1>1
<1> DEFINE u == s \o t
<1> HIDE DEF u
<1>5. Items(u) \subseteq Items(s) \cup Items(t)
  BY <1>1, <1>2 DEF Items, Listing!ToSet, u
<1>6. Items(s) \subseteq Items(u)
  BY <1>1, <1>4 DEF Items, Listing!ToSet, u
<1>7. Items(t) \subseteq Items(u)
  BY <1>1, <1>3 DEF Items, Listing!ToSet, u
<1>8. QED
  BY <1>1, <1>5, <1>6, <1>7 DEF u

LEMMA FirstItems ==
  ASSUME NEW s \in Seq(Item), NEW m \in Nat \ {0}
  PROVE  LET t == Listing!FirstOf(m, s) IN
         /\ t \in Seq(Item) /\ Items(t) \subseteq Items(s)
         /\ Len(t) \in 0 .. m /\ (Len(t) < m => t = s)
<1> DEFINE t == Listing!FirstOf(m, s)
<1>1. CASE Len(s) < m
  BY <1>1 DEF Listing!FirstOf
<1>2. CASE ~(Len(s) < m)
  <2>1. t = SubSeq(s, 1, m)
    BY <1>2 DEF Listing!FirstOf
  <2>2. t \in Seq(Item) /\ Len(t) = m /\ \A k \in 1 .. m : t[k] = s[k] /\ k \in DOMAIN s
    BY <2>1, <1>2
  <2>3. DOMAIN t = 1 .. m
    BY <2>2
  <2> HIDE DEF t
  <2>4. Items(t) \subseteq Items(s)
    BY <2>2, <2>3 DEF Items, Listing!ToSet
  <2>5. QED
    BY <2>2, <2>4 DEF t
<1>3. QED
  BY <1>1, <1>2

LEMMA SelectedItems ==
  ASSUME Distinct(shelf), NEW q
  PROVE  /\ Distinct(Listing!Selected(q))
         /\ Items(Listing!Selected(q)) = Selecting(q) \cap Items(shelf)
         /\ \A i \in Selecting(q) \cap Items(shelf) :
              Place(Listing!Selected(q), i) = Number(shelf, Selecting(q), i)
<1>1. Listing!Selected(q) = Listing!Kept(shelf, Selecting(q))
  BY DEF Listing!Selected, Selecting
<1>2. QED
  BY <1>1, KeptItems

LEMMA LimitIs == ASSUME query \in Queries PROVE Listing!Limit \in Nat \ {0} /\ Listing!FirstPage(query) \in Nat \ {0}
  BY ListingAssumption DEF Listing!ConstantsAssumption, Listing!Limit, Listing!FirstPage

LEMMA CommentsAreWanted == ASSUME NEW q, q.comments, NEW i PROVE Wanted(q, i)
  BY DEF Wanted, Listing!Wanted, Listing!Selects

\* A page that is read has what is wanted of the next places, and if it is not
\* full, of all that are left.
LEMMA PageRead ==
  ASSUME ListingInv, reader = "reading"
  PROVE  LET onPage == Listing!PageOf(Listing!Selected(query), page) IN
         /\ Distinct(onPage) /\ Len(onPage) \in Nat
         /\ partial = FALSE =>
              \A i \in steady : Wanted(query, i) =>
                \/ i \in Items(got) \cup Items(onPage)
                \/ Number(shelf, Selecting(query), i) > Before(page + 1) /\ Len(onPage) >= PerPage
<1> DEFINE s == Listing!Selected(query)
           t == Listing!PageOf(s, page)
           Num(i) == Number(shelf, Selecting(query), i)
<1>1. /\ page \in Nat \ {0} /\ Distinct(shelf) /\ steady \subseteq Selecting(query) \cap Items(shelf)
      /\ partial = FALSE => \A i \in steady : Wanted(query, i) => i \in Items(got) \/ Num(i) > Before(page)
  BY DEF ListingInv, ListingTypes, IsAhead
<1>2. /\ Distinct(s)
      /\ \A i \in steady : i \in Items(s) /\ Place(s, i) = Num(i)
  BY <1>1, SelectedItems
<1>3. /\ PerPage \in Nat \ {0} /\ Before(page) \in Nat /\ Before(page + 1) \in Nat
      /\ Before(page + 1) = Before(page) + PerPage
  BY <1>1, PagesInOrder
<1> HIDE DEF s, Num
<1>4. /\ Distinct(t) /\ Len(t) \in Nat
      /\ Items(t) = {i \in Items(s) : Before(page) < Place(s, i) /\ Place(s, i) <= Before(page + 1)}
      /\ Len(t) < PerPage => \A i \in Items(s) : Place(s, i) <= Before(page + 1)
  BY <1>1, <1>2, PageItems
<1> HIDE DEF t
<1>5. ASSUME partial = FALSE, NEW i \in steady, Wanted(query, i), i \notin Items(got) \cup Items(t)
      PROVE  Num(i) > Before(page + 1) /\ Len(t) >= PerPage
  <2>1. i \in Items(s) /\ Place(s, i) = Num(i) /\ Num(i) \in Nat /\ Num(i) > Before(page)
    BY <1>1, <1>2, <1>5, PlaceOf
  <2>2. ~(Num(i) <= Before(page + 1))
    BY <2>1, <1>3, <1>4, <1>5
  <2>3. ~(Len(t) < PerPage)
    BY <2>1, <2>2, <1>4
  <2>4. QED
    BY <2>1, <2>2, <2>3, <1>3, <1>4
<1>6. QED
  BY <1>4, <1>5 DEF s, t, Num

LEMMA ListingStarts == Listing!Init => ListingInv
<1> SUFFICES ASSUME Listing!Init PROVE ListingInv
  OBVIOUS
<1>1. Distinct(shelf)
  <2>1. Listed \in Seq(Item) /\ \A j, k \in DOMAIN Listed : Listed[j] = Listed[k] => j = k
    BY ListingAssumption DEF Listing!ConstantsAssumption, Listing!IsInjective
  <2>2. QED
    BY <2>1 DEF Listing!Init, Distinct
<1>2. got = <<>> /\ Items(got) = {} /\ IsClean(query, got)
  BY DEF Listing!Init, Items, Listing!ToSet, IsClean
<1>3. /\ query \in Queries /\ page = 1 /\ partial = FALSE
      /\ reader = "idle" /\ steady = {}
  BY DEF Listing!Init
<1>4. ListingTypes
  <2>1. page \in Nat \ {0}
    BY <1>3
  <2>2. partial \in BOOLEAN
    BY <1>3
  <2>3. QED
    BY <1>1, <1>2, <1>3, <2>1, <2>2 DEF ListingTypes
<1>5. QED
  BY <1>2, <1>3, <1>4 DEF ListingInv

LEMMA BeginsReading ==
  ASSUME ListingInv, Listing!Begin
  PROVE  ListingInv'
<1>1. /\ reader = "idle" /\ reader' = "reading" /\ page' = Listing!FirstPage(query)
      /\ steady' = {i \in Items(Listing!Selected(query)) : Place(Listing!Selected(query), i) > Before(page')}
      /\ UNCHANGED <<shelf, changes, query, got, partial>>
  BY DEF Listing!Begin, Place, Items, Before
<1>2. /\ Distinct(shelf) /\ query \in Queries /\ partial \in BOOLEAN /\ IsClean(query, got) /\ got = <<>>
  BY <1>1 DEF ListingInv, ListingTypes
<1>3. /\ Listing!Limit \in Nat \ {0} /\ Listing!Limit' = Listing!Limit /\ page' \in Nat \ {0}
  BY <1>1, <1>2, LimitIs DEF Listing!Limit
<1>4. /\ steady' \subseteq Selecting(query) \cap Items(shelf)
      /\ \A i \in steady' : Number(shelf, Selecting(query), i) > Before(page')
  BY <1>1, <1>2, SelectedItems
<1>5. ListingTypes'
  BY <1>1, <1>2, <1>3, <1>4 DEF ListingTypes
<1>6. Len(got') < Listing!Limit'
  BY <1>1, <1>2, <1>3
<1>7. IsAhead(query, shelf, got, steady, page)'
  BY <1>1, <1>4 DEF IsAhead
<1>8. QED
  BY <1>1, <1>5, <1>6, <1>7 DEF ListingInv

LEMMA CommentsRead ==
  ASSUME ListingInv, Listing!ReadComments
  PROVE  ListingInv'
<1> DEFINE t == Listing!PageOf(Listing!Selected(query), page)
<1>1. /\ reader = "reading" /\ query.comments
      /\ got' = got \o t
      /\ reader' = IF Len(t) < PerPage THEN "listed" ELSE "reading"
      /\ page' = page + 1
      /\ UNCHANGED <<shelf, changes, query, partial, steady>>
  BY DEF Listing!ReadComments
<1>2. /\ Distinct(t) /\ Len(t) \in Nat
      /\ partial = FALSE =>
           \A i \in steady : Wanted(query, i) =>
             \/ i \in Items(got) \cup Items(t)
             \/ Number(shelf, Selecting(query), i) > Before(page + 1) /\ Len(t) >= PerPage
  BY <1>1, PageRead
<1>3. /\ page \in Nat \ {0} /\ PerPage \in Nat \ {0} /\ got \in Seq(Item) /\ t \in Seq(Item)
  BY <1>2, ListingAssumption DEF ListingInv, ListingTypes, IsClean, Listing!ConstantsAssumption, Distinct
<1> HIDE DEF t
<1>4. got' \in Seq(Item) /\ Items(got') = Items(got) \cup Items(t)
  BY <1>1, <1>3, Joined
<1>5. IsClean(query, got)'
  BY <1>1, <1>4, CommentsAreWanted DEF IsClean
<1>6. ListingTypes'
  BY <1>1, <1>3, <1>5 DEF ListingInv, ListingTypes
<1>7. reader' = "reading" /\ partial' = FALSE => IsAhead(query, shelf, got, steady, page)'
  BY <1>1, <1>2, <1>4 DEF IsAhead
<1>8. reader' = "listed" /\ partial' = FALSE => IsWhole(query, got, steady)'
  <2> SUFFICES ASSUME reader' = "listed", partial' = FALSE PROVE IsWhole(query, got, steady)'
    OBVIOUS
  <2>1. Len(t) < PerPage
    BY <1>1
  <2>2. QED
    BY <2>1, <1>1, <1>2, <1>3, <1>4 DEF IsWhole
<1>9. QED
  BY <1>1, <1>6, <1>7, <1>8 DEF ListingInv

\* Items of an answer are taken up to the limit.
LEMMA ItemsTaken ==
  ASSUME ListingInv, reader = "reading", ~query.comments, NEW t, Distinct(t), NEW inc \in BOOLEAN,
         inc = FALSE => t = Listing!PageOf(Listing!Selected(query), page),
         Listing!Take(t, inc)
  PROVE  ListingInv'
<1> DEFINE u == Listing!Kept(t, Listing!Asked)
           g == got \o u
           lim == Listing!Limit
<1>1. /\ got' = Listing!FirstOf(lim, g)
      /\ reader' = IF Len(got') = lim \/ Len(t) < PerPage THEN "listed" ELSE "reading"
      /\ page' = page + 1
      /\ partial' = (partial \/ inc)
      /\ UNCHANGED <<shelf, changes, query, steady>>
  BY DEF Listing!Take, Listing!IsLast
<1>2. /\ page \in Nat \ {0} /\ PerPage \in Nat \ {0} /\ got \in Seq(Item)
      /\ lim \in Nat \ {0} /\ partial \in BOOLEAN /\ \A i \in Items(got) : Wanted(query, i)
  BY LimitIs, ListingAssumption DEF ListingInv, ListingTypes, IsClean, Listing!ConstantsAssumption
<1>3. lim' = lim
  BY <1>1 DEF Listing!Limit
<1>4. /\ u \in Seq(Item) /\ Items(u) = {i \in Items(t) : Wanted(query, i)}
  <2>1. Distinct(u) /\ Items(u) = Listing!Asked \cap Items(t) /\ Items(t) \subseteq Item
    BY KeptItems, PlaceOf
  <2>2. QED
    BY <2>1 DEF Distinct, Listing!Asked, Wanted
<1> HIDE DEF u
<1>5. g \in Seq(Item) /\ Items(g) = Items(got) \cup Items(u)
  BY <1>2, <1>4, Joined
<1> HIDE DEF g, lim
<1>6. /\ got' \in Seq(Item) /\ Items(got') \subseteq Items(g)
      /\ Len(got') \in 0 .. lim /\ (Len(got') < lim => got' = g)
  BY <1>1, <1>2, <1>5, FirstItems
<1>7. IsClean(query, got)'
  BY <1>1, <1>2, <1>4, <1>5, <1>6 DEF IsClean
<1>8. ListingTypes'
  BY <1>1, <1>2, <1>7 DEF ListingInv, ListingTypes
<1>9. reader' = "reading" => Len(got') < lim
  BY <1>1, <1>2, <1>6
<1>10. ASSUME partial' = FALSE, Len(got') < lim
       PROVE  /\ got' = g /\ partial = FALSE
              /\ \A i \in steady : Wanted(query, i) =>
                   \/ i \in Items(g)
                   \/ Number(shelf, Selecting(query), i) > Before(page + 1) /\ Len(t) >= PerPage
  <2>1. got' = g /\ partial = FALSE /\ inc = FALSE
    BY <1>1, <1>2, <1>6, <1>10
  <2>2. \A i \in steady : Wanted(query, i) =>
          \/ i \in Items(got) \cup Items(t)
          \/ Number(shelf, Selecting(query), i) > Before(page + 1) /\ Len(t) >= PerPage
    BY <2>1, PageRead
  <2>3. QED
    BY <2>1, <2>2, <1>4, <1>5
<1>11. ASSUME reader' = "reading", partial' = FALSE
       PROVE  IsAhead(query, shelf, got, steady, page)'
  BY <1>1, <1>9, <1>10, <1>11 DEF IsAhead
<1>12. ASSUME reader' = "listed", partial' = FALSE, Len(got') < lim
       PROVE  IsWhole(query, got, steady)'
  <2>1. Len(t) < PerPage /\ Len(t) \in Nat
    BY <1>1, <1>12, <1>6, <1>2, PlaceOf
  <2>2. PerPage \in Nat /\ ~(Len(t) >= PerPage)
    BY <2>1, <1>2
  <2>3. got' = g /\ \A i \in steady : Wanted(query, i) => i \in Items(g)
    BY <2>2, <1>10, <1>12
  <2>4. QED
    BY <2>3, <1>1 DEF IsWhole
<1>13. QED
  BY <1>1, <1>3, <1>8, <1>9, <1>11, <1>12 DEF ListingInv, lim

LEMMA CandidatesRead ==
  ASSUME ListingInv, Listing!ReadCandidates
  PROVE  ListingInv'
<1> DEFINE t == Listing!PageOf(Listing!Selected(query), page)
<1>1. /\ reader = "reading" /\ ~query.comments
      /\ \/ Listing!Take(t, FALSE)
         \/ \E some \in SUBSET Items(t) : Listing!Take(Listing!Kept(t, some), TRUE)
  BY DEF Listing!ReadCandidates, Items
<1>2. Distinct(t)
  BY <1>1, PageRead
<1> HIDE DEF t
<1>3. CASE Listing!Take(t, FALSE)
  BY <1>1, <1>2, <1>3, ItemsTaken DEF t
<1>4. ASSUME NEW some \in SUBSET Items(t), Listing!Take(Listing!Kept(t, some), TRUE)
      PROVE  ListingInv'
  <2>1. Distinct(Listing!Kept(t, some))
    BY <1>2, KeptItems
  <2>2. QED
    BY <2>1, <1>1, <1>4, ItemsTaken
<1>5. QED
  BY <1>1, <1>3, <1>4

LEMMA PageFails ==
  ASSUME ListingInv, Listing!PageFails
  PROVE  ListingInv'
<1>1. reader' = "failed" /\ UNCHANGED <<shelf, changes, query, page, got, partial, steady>>
  BY DEF Listing!PageFails
<1>2. QED
  BY <1>1 DEF ListingInv, ListingTypes, Listing!Limit

\* Other people: what they do leaves no steady item a smaller number among
\* what is selected.
LEMMA OthersKeepNumbers ==
  ASSUME ListingInv, NEW x \in Item, Listing!Add(x) \/ Listing!Delete(x) \/ Listing!Touch(x)
  PROVE  /\ Distinct(shelf') /\ steady' \subseteq steady /\ steady' \subseteq Items(shelf')
         /\ \A i \in steady' :
              Number(shelf, Selecting(query), i) <= Number(shelf', Selecting(query), i)
         /\ UNCHANGED <<reader, query, page, got, partial>>
<1> DEFINE A == Selecting(query)
           s == shelf
           t == shelf'
           w == Listing!Without(x)
<1>1. Distinct(s) /\ steady \subseteq A \cap Items(s)
  BY DEF ListingInv, ListingTypes
<1>2. UNCHANGED <<reader, query, page, got, partial>>
  BY DEF Listing!Add, Listing!Delete, Listing!Touch, Listing!Change
<1>3. /\ Distinct(w) /\ Items(w) = Items(s) \ {x} /\ x \notin Items(w)
      /\ \A i, j \in Items(w) : Place(w, i) < Place(w, j) <=> Place(s, i) < Place(s, j)
  <2>1. w = Listing!Kept(s, Item \ {x}) /\ Items(s) \subseteq Item
    BY <1>1, PlaceOf DEF Listing!Without
  <2>2. QED
    BY <2>1, <1>1, KeptItems
<1>4. /\ \A i \in Items(s) : Place(s, i) \in Nat
      /\ \A i \in Items(w) : Place(w, i) \in Nat
  BY <1>1, <1>3, PlaceOf
\* What is left when an item has gone, and does not come after it.
<1>5. ASSUME steady' = steady \ (IF Listing!Selects(query, x) THEN Listing!Behind(x) \cup {x} ELSE {x}),
             NEW i \in steady'
      PROVE  /\ i \in steady /\ i \in Items(w)
             /\ \A j \in A \cap Items(s) : Place(s, j) <= Place(s, i) =>
                  j \in Items(w) /\ Place(w, j) <= Place(w, i)
  <2>1. i \in steady /\ i # x /\ i \in Items(w) /\ i \in Items(s)
    BY <1>1, <1>3, <1>5
  <2>2. Listing!Selects(query, x) => ~(Place(s, i) > Place(s, x))
    BY <2>1, <1>5 DEF Listing!Behind, Place, Items
  <2>3. ASSUME NEW j \in A \cap Items(s), Place(s, j) <= Place(s, i)
        PROVE  j \in Items(w) /\ Place(w, j) <= Place(w, i)
    <3>1. j # x
      <4>1. j = x => Listing!Selects(query, x) /\ Place(s, x) = Place(s, i)
        BY <2>1, <2>2, <2>3, <1>4 DEF Selecting
      <4>2. QED
        BY <4>1, <2>1, <2>3, <1>1, PlaceOf
    <3>2. j \in Items(w)
      BY <3>1, <1>3
    <3>3. ~(Place(s, i) < Place(s, j))
      BY <2>1, <2>3, <1>4
    <3>4. QED
      BY <3>2, <3>3, <2>1, <1>3, <1>4
  <2>4. QED
    BY <2>1, <2>3
<1> HIDE DEF w, A
<1>6. CASE Listing!Add(x)
  <2>1. x \notin Items(s) /\ steady' = steady /\ t \in {<<x>> \o s, Append(s, x)}
    BY <1>6 DEF Listing!Add, Items
  <2>2. /\ Distinct(t) /\ Items(t) = Items(s) \cup {x}
        /\ (\A i \in Items(s) : Place(t, i) = Place(s, i)) \/ (\A i \in Items(s) : Place(t, i) = Place(s, i) + 1)
    <3>1. CASE t = <<x>> \o s
      BY <3>1, <2>1, <1>1, InFront
    <3>2. CASE t = Append(s, x)
      BY <3>2, <2>1, <1>1, AtTheEnd
    <3>3. QED
      BY <2>1, <3>1, <3>2
  <2>3. ASSUME NEW i \in steady' PROVE Number(s, A, i) <= Number(t, A, i)
    <3>1. \A j \in A \cap Items(s) :
            Place(s, j) <= Place(s, i) => j \in Items(t) /\ Place(t, j) <= Place(t, i)
      BY <2>1, <2>2, <1>1, <1>4
    <3>2. QED
      BY <3>1, <2>1, <2>2, <1>1, Further
  <2>4. QED
    BY <2>1, <2>2, <2>3, <1>1, <1>2 DEF A
<1>7. CASE Listing!Delete(x)
  <2>1. /\ t = w
        /\ steady' = steady \ (IF Listing!Selects(query, x) THEN Listing!Behind(x) \cup {x} ELSE {x})
    BY <1>7 DEF Listing!Delete, Listing!Unsettle, w
  <2>2. ASSUME NEW i \in steady' PROVE i \in steady /\ i \in Items(t) /\ Number(s, A, i) <= Number(t, A, i)
    BY <2>1, <1>1, <1>3, <1>5, Further
  <2>3. QED
    BY <2>1, <2>2, <1>2, <1>3 DEF A
<1>8. CASE Listing!Touch(x) /\ query.descending
  <2>1. t = <<x>> \o w /\ steady' = steady \ {x} /\ x \in Items(s)
    BY <1>8 DEF Listing!Touch, Items, w
  <2>2. /\ Distinct(t) /\ Items(t) = Items(w) \cup {x} /\ Place(t, x) = 1
        /\ \A i \in Items(w) : Place(t, i) = Place(w, i) + 1
    BY <2>1, <1>3, InFront
  <2>3. ASSUME NEW i \in steady' PROVE i \in Items(t) /\ Number(s, A, i) <= Number(t, A, i)
    <3>1. i \in A \cap Items(s) /\ i \in Items(w) /\ i \in Items(t)
      BY <2>1, <2>2, <1>1, <1>3
    <3>2. ASSUME NEW j \in A \cap Items(s), Place(s, j) <= Place(s, i)
          PROVE  j \in Items(t) /\ Place(t, j) <= Place(t, i)
      <4>1. CASE j = x
        BY <4>1, <3>1, <2>2, <1>4
      <4>2. CASE j # x
        <5>1. j \in Items(w) /\ ~(Place(s, i) < Place(s, j))
          BY <4>2, <3>1, <3>2, <1>3, <1>4
        <5>2. QED
          BY <5>1, <3>1, <2>2, <1>3, <1>4
      <4>3. QED
        BY <4>1, <4>2
    <3>3. QED
      BY <3>1, <3>2, <2>2, <1>1, Further
  <2>4. QED
    BY <2>1, <2>2, <2>3, <1>2 DEF A
<1>9. CASE Listing!Touch(x) /\ ~query.descending
  <2>1. /\ t = Append(w, x)
        /\ steady' = steady \ (IF Listing!Selects(query, x) THEN Listing!Behind(x) \cup {x} ELSE {x})
    BY <1>9 DEF Listing!Touch, Listing!Unsettle, w
  <2>2. /\ Distinct(t) /\ Items(t) = Items(w) \cup {x}
        /\ \A i \in Items(w) : Place(t, i) = Place(w, i)
    BY <2>1, <1>3, AtTheEnd
  <2>3. ASSUME NEW i \in steady' PROVE i \in steady /\ i \in Items(t) /\ Number(s, A, i) <= Number(t, A, i)
    <3>1. /\ i \in steady /\ i \in Items(w)
          /\ \A j \in A \cap Items(s) : Place(s, j) <= Place(s, i) =>
               j \in Items(w) /\ Place(w, j) <= Place(w, i)
      BY <2>1, <1>5
    <3>2. \A j \in A \cap Items(s) : Place(s, j) <= Place(s, i) => j \in Items(t) /\ Place(t, j) <= Place(t, i)
      BY <3>1, <2>2
    <3>3. QED
      BY <3>1, <3>2, <2>2, <1>1, Further
  <2>4. QED
    BY <2>1, <2>2, <2>3, <1>2 DEF A
<1>10. QED
  BY <1>6, <1>7, <1>8, <1>9

LEMMA OthersStep ==
  ASSUME ListingInv, NEW x \in Item, Listing!Add(x) \/ Listing!Delete(x) \/ Listing!Touch(x)
  PROVE  ListingInv'
<1>1. /\ Distinct(shelf') /\ steady' \subseteq steady /\ steady' \subseteq Items(shelf')
      /\ \A i \in steady' :
           Number(shelf, Selecting(query), i) <= Number(shelf', Selecting(query), i)
      /\ UNCHANGED <<reader, query, page, got, partial>>
  BY OthersKeepNumbers
<1>2. ListingTypes /\ ListingTypes'
  BY <1>1 DEF ListingInv, ListingTypes
<1>3. Listing!Limit' = Listing!Limit
  BY <1>1 DEF Listing!Limit
<1>4. IsAhead(query, shelf, got, steady, page) => IsAhead(query, shelf, got, steady, page)'
  <2> SUFFICES ASSUME IsAhead(query, shelf, got, steady, page), NEW i \in steady', Wanted(query, i),
                      i \notin Items(got)
               PROVE  Number(shelf', Selecting(query), i) > Before(page)
    BY <1>1 DEF IsAhead
  <2> DEFINE a == Number(shelf, Selecting(query), i)
             b == Number(shelf', Selecting(query), i)
  <2>1. i \in steady /\ a > Before(page) /\ a <= b
    BY <1>1 DEF IsAhead
  <2>2. Before(page) \in Nat
    BY <1>2, PagesInOrder DEF ListingTypes
  <2>3. i \in Selecting(query) \cap Items(shelf) /\ i \in Selecting(query) \cap Items(shelf')
    BY <1>1, <2>1, <1>2 DEF ListingTypes
  <2>4. a \in Nat
    BY <2>3, <1>2, NumberIsNatural DEF ListingTypes
  <2>5. b \in Nat
    BY <2>3, <1>1, NumberIsNatural
  <2> HIDE DEF a, b
  <2>6. b > Before(page)
    BY <2>1, <2>2, <2>4, <2>5
  <2>7. QED
    BY <2>6 DEF b
<1>5. IsWhole(query, got, steady) => IsWhole(query, got, steady)'
  BY <1>1 DEF IsWhole
<1>6. QED
  BY <1>1, <1>2, <1>3, <1>4, <1>5 DEF ListingInv

LEMMA ListingStep == ListingInv /\ [Listing!Next]_listingVars => ListingInv'
<1> SUFFICES ASSUME ListingInv, [Listing!Next]_listingVars PROVE ListingInv'
  OBVIOUS
<1>1. CASE UNCHANGED listingVars
  BY <1>1 DEF listingVars, ListingInv, ListingTypes, Listing!Limit
<1>2. CASE Listing!Read
  BY <1>2, BeginsReading, CommentsRead, CandidatesRead DEF Listing!Read
<1>3. CASE Listing!PageFails
  BY <1>3, PageFails
<1>4. CASE Listing!Others
  BY <1>4, OthersStep DEF Listing!Others
<1>5. QED
  BY <1>1, <1>2, <1>3, <1>4 DEF Listing!Next

\* A list read while others change what it lists has everything that was asked
\* for and was there all along, unless the limit was reached, GitHub said that
\* its answer was partial, or something in front of it went away.
THEOREM ListsAreWhole == SubmitSpec => []ListingIsWhole
<1>1. SubmitInit => ListingInv
  BY ListingStarts DEF SubmitInit
<1>2. ListingInv /\ [SubmitNext]_<<part, vars, provisioningVars, listingVars>> => ListingInv'
  <2> SUFFICES ASSUME ListingInv, [SubmitNext]_<<part, vars, provisioningVars, listingVars>>
               PROVE  ListingInv'
    OBVIOUS
  <2>1. Listing!Next \/ UNCHANGED listingVars
    BY DEF SubmitNext
  <2>2. QED
    BY <2>1, ListingStep
<1>3. ListingInv => ListingIsWhole
  <2> SUFFICES ASSUME ListingInv
               PROVE  /\ \A i \in Items(got) : Wanted(query, i)
                      /\ reader = "listed" /\ ~partial /\ (query.comments \/ Len(got) < Listing!Limit) =>
                           \A i \in steady : Wanted(query, i) => i \in Items(got)
    BY DEF ListingIsWhole, Listing!ListingIsWhole, Items, Wanted
  <2>1. \A i \in Items(got) : Wanted(query, i)
    BY DEF ListingInv, ListingTypes, IsClean
  <2>2. ~partial => partial = FALSE
    BY DEF ListingInv, ListingTypes
  <2>3. QED
    BY <2>1, <2>2 DEF ListingInv, IsWhole
<1>4. QED
  BY <1>1, <1>2, <1>3, PTL DEF SubmitSpec

-----------------------------------------------------------------------------
\* The transport: one run's requests, each an exchange of GithubExchange.

CONSTANTS MaxRequests, Refusals
VARIABLES pc, number, retries, attempt, answer, events, wire, effects, outcome, rateEvents

Transport == INSTANCE GithubTransport WITH ledger <- rateEvents

Answers ==
  Refusals \cup {Transport!Success, Transport!Plain(422), Transport!Plain(502)}

\* Types, as far as the exchange is concerned.
TransportTypes ==
  /\ pc \in {"idle", "sending", "waiting", "answered"}
  /\ number \in 0 .. MaxRequests
  /\ attempt \in Nat
  /\ answer \in Answers
  /\ wire \subseteq (1 .. number) \X Nat
  /\ effects \in [Transport!Request -> {0, 1}]
  /\ outcome \in [Transport!Request -> {"none", "ok", "error"}]

\* The client has a current request exactly while it is not idle; it alone
\* among those asked has no outcome, and those not asked have done nothing.
OneIsOpen ==
  /\ pc # "idle" => number > 0
  /\ \A q \in Transport!Request :
       outcome[q] = "none" <=> (q > number \/ (q = number /\ pc # "idle"))
  /\ \A q \in Transport!Request : q > number => effects[q] = 0

\* A request is under way once at most, and only if it has had no effect.
OnceUnderWay ==
  /\ \A m, k \in wire : m[1] = k[1] => m = k
  /\ \A m \in wire : effects[m[1]] = 0

\* The client's current request: what it waits for is its last attempt; nothing
\* of it is under way when an attempt is made or has been answered; an attempt
\* is made only if none before it had an effect.
Current ==
  /\ pc = "sending" => effects[number] = 0
  /\ pc \in {"sending", "answered"} => \A m \in wire : m[1] # number
  /\ pc = "waiting" =>
       \A m \in wire : m[1] = number => m = <<number, attempt>>
  /\ pc = "answered" /\ Transport!Succeeded(answer) => effects[number] = 1
  /\ pc = "answered" /\ answer.status \in {403, 429} => effects[number] = 0

ExchangeInv == TransportTypes /\ OneIsOpen /\ OnceUnderWay /\ Current


\* A refusal is no success and had no effect; no other answer is tried again.
LEMMA AnswersTell ==
  ASSUME Transport!ConstantsAssumption, NEW a \in Answers
  PROVE  /\ a \in Refusals <=> a.status \in {403, 429}
         /\ a \in Refusals => ~ Transport!Succeeded(a)
         /\ Transport!Succeeded(a) => a = Transport!Success
         /\ a \notin Refusals => Transport!RetryDecision(a, attempt) = Transport!None
<1> USE DEF Transport!Succeeded
<1>1. CASE a \in Refusals
  BY <1>1 DEF Transport!ConstantsAssumption
<1>2. CASE a \notin Refusals
  <2>1. /\ a \in {Transport!Success, Transport!Plain(422), Transport!Plain(502)}
        /\ a.status \in {200, 422, 502}
        /\ a.status = 200 => a = Transport!Success
    BY <1>2 DEF Answers, Transport!Plain, Transport!Success
  <2>2. a.status \notin {403, 429}
    BY <2>1
  <2>3. Transport!RetryDecision(a, attempt) = Transport!None
    BY <2>2 DEF Transport!RetryDecision
  <2>4. QED
    BY <1>2, <2>1, <2>2, <2>3
<1>3. QED
  BY <1>1, <1>2

\* The exchange begins with nothing asked.
LEMMA ExchangeStarts ==
  ASSUME Transport!ConstantsAssumption, Transport!Init
  PROVE  ExchangeInv /\ Transport!Exchange!Init
<1> USE DEF Transport!Init, Transport!ConstantsAssumption, Transport!Request
<1>1. TransportTypes
  BY DEF TransportTypes, Answers
<1>2. OneIsOpen /\ OnceUnderWay /\ Current
  BY DEF OneIsOpen, OnceUnderWay, Current
<1>3. Transport!Exchange!Init
  BY DEF Transport!Exchange!Init, Transport!Asked
<1>4. QED
  BY <1>1, <1>2, <1>3 DEF ExchangeInv

\* What each state of a request is to the exchange.
LEMMA AskedIs ==
  ASSUME Transport!ConstantsAssumption, TransportTypes, NEW q \in Transport!Request
  PROVE  /\ q > number => Transport!Asked(q) = "unasked"
         /\ q <= number => Transport!Asked(q) =
              IF outcome[q] = "ok" THEN "done" ELSE IF outcome[q] = "error" THEN "failed" ELSE "open"
<1>1. q \in Int /\ number \in Int
  BY DEF Transport!ConstantsAssumption, TransportTypes, Transport!Request
<1>2. outcome[q] \in {"none", "ok", "error"}
  BY DEF TransportTypes
<1>3. CASE q > number
  BY <1>1, <1>3 DEF Transport!Asked
<1>4. CASE q <= number
  BY <1>1, <1>2, <1>4 DEF Transport!Asked
<1>5. QED
  BY <1>1, <1>3, <1>4

\* A step that leaves number, effects and outcome alone is none of the exchange.
LEMMA Unnoticed ==
  UNCHANGED <<number, effects, outcome>> => UNCHANGED Transport!Exchange!vars
  BY DEF Transport!Exchange!vars, Transport!Asked

\* A request that begins is asked; an attempt of it, first or later, is nothing
\* to the exchange.
LEMMA BeginIsAsk ==
  ASSUME Transport!ConstantsAssumption, ExchangeInv,
         NEW again \in BOOLEAN, Transport!Begin(again)
  PROVE  ExchangeInv' /\ Transport!Exchange!Next
<1>0. MaxRequests \in Nat
  BY DEF Transport!ConstantsAssumption
<1> USE <1>0 DEF ExchangeInv, Transport!Begin
<1>1. /\ number + 1 \in Transport!Request /\ number' = number + 1 /\ number \in Nat
      /\ pc = "idle" /\ pc' = "sending"
      /\ UNCHANGED <<answer, wire, effects, outcome>>
  BY DEF TransportTypes, Transport!Request, Transport!ConstantsAssumption
<1>2. TransportTypes'
  BY <1>1 DEF TransportTypes, Transport!Request
<1>3. OneIsOpen' /\ OnceUnderWay'
  BY <1>1 DEF TransportTypes, OneIsOpen, OnceUnderWay, Transport!Request
<1>4. Current'
  <2>1. effects[number + 1] = 0
    BY <1>1 DEF OneIsOpen
  <2>2. \A m \in wire : m[1] # number + 1
    BY <1>1 DEF TransportTypes
  <2>3. QED
    BY <1>1, <2>1, <2>2 DEF Current
<1>5. PICK q \in Transport!Request : q = number + 1
  BY <1>1
<1>6. Transport!Exchange!Ask(q)
  <2>1. Transport!Asked(q) = "unasked"
    BY <1>1, <1>5, AskedIs
  <2>2. outcome'[q] = "none" /\ q <= number' /\ q \in Int /\ number' \in Int
    BY <1>1, <1>5 DEF OneIsOpen
  <2>3. (Transport!Asked(q))' = "open"
    BY <2>2 DEF Transport!Asked
  <2>4. \A p \in Transport!Request \ {q} : (Transport!Asked(p))' = Transport!Asked(p)
    BY <1>1, <1>5 DEF Transport!Asked, Transport!Request
  <2>5. QED
    BY <1>1, <2>1, <2>3, <2>4 DEF Transport!Exchange!Ask
<1>7. QED
  BY <1>1, <1>2, <1>3, <1>4, <1>6 DEF Transport!Exchange!Next

LEMMA SendIsUnnoticed ==
  ASSUME Transport!ConstantsAssumption, ExchangeInv, Transport!Send
  PROVE  ExchangeInv' /\ UNCHANGED Transport!Exchange!vars
<1>0. MaxRequests \in Nat
  BY DEF Transport!ConstantsAssumption
<1> USE <1>0 DEF ExchangeInv, Transport!Send
<1>1. number \in 1 .. number /\ number \in Transport!Request /\ attempt \in Nat
  BY DEF OneIsOpen, TransportTypes, Transport!Request
<1>2. TransportTypes'
  BY <1>1 DEF TransportTypes
<1>3. OneIsOpen'
  BY DEF OneIsOpen
<1>4. OnceUnderWay' /\ Current'
  BY DEF OnceUnderWay, Current
<1>5. QED
  BY <1>2, <1>3, <1>4, Unnoticed

LEMMA RetryIsUnnoticed ==
  ASSUME Transport!ConstantsAssumption, ExchangeInv, Transport!Retry
  PROVE  ExchangeInv' /\ UNCHANGED Transport!Exchange!vars
<1>0. MaxRequests \in Nat
  BY DEF Transport!ConstantsAssumption
<1> USE <1>0 DEF ExchangeInv, Transport!Retry
<1>1. answer \in Refusals
  BY AnswersTell DEF Transport!Decided, TransportTypes
<1>2. answer.status \in {403, 429}
  BY <1>1, AnswersTell DEF TransportTypes
<1>3. TransportTypes'
  BY DEF TransportTypes
<1>4. OneIsOpen' /\ OnceUnderWay'
  BY DEF OneIsOpen, OnceUnderWay
<1>5. Current'
  BY <1>2 DEF Current
<1>6. QED
  BY <1>3, <1>4, <1>5, Unnoticed

\* The end of a request, in whatever way it ends.
LEMMA ReturnAnswers ==
  ASSUME Transport!ConstantsAssumption, ExchangeInv, pc # "idle", NEW result \in {"ok", "error"}, Transport!Return(result),
         result = "ok" => effects[number] = 1,
         UNCHANGED <<number, attempt, answer, wire, effects>>
  PROVE  ExchangeInv' /\ Transport!Exchange!Next
<1>0. MaxRequests \in Nat
  BY DEF Transport!ConstantsAssumption
<1> USE <1>0 DEF ExchangeInv, Transport!Return
<1>1. /\ number \in Transport!Request /\ number \in Nat
      /\ outcome \in [Transport!Request -> {"none", "ok", "error"}]
      /\ outcome[number] = "none"
      /\ outcome' = [outcome EXCEPT ![number] = result]
  BY DEF OneIsOpen, TransportTypes, Transport!Request
<1>2. TransportTypes'
  BY <1>1 DEF TransportTypes
<1>3. OneIsOpen'
  BY <1>1 DEF OneIsOpen, Transport!Request
<1>4. OnceUnderWay' /\ Current'
  BY DEF OnceUnderWay, Current
<1>5. /\ Transport!Asked(number) = "open"
      /\ (Transport!Asked(number))' = IF result = "ok" THEN "done" ELSE "failed"
  BY <1>1 DEF Transport!Asked
<1>6. \A q \in Transport!Request \ {number} : (Transport!Asked(q))' = Transport!Asked(q)
  BY <1>1 DEF Transport!Asked
<1>7. Transport!Exchange!Confirm(number) \/ Transport!Exchange!Fail(number)
  BY <1>1, <1>5, <1>6 DEF Transport!Exchange!Confirm, Transport!Exchange!Fail
<1>8. QED
  BY <1>1, <1>2, <1>3, <1>4, <1>7 DEF Transport!Exchange!Next

\* Ok is returned only after a success, any other end is a failure.
LEMMA EndsAreAnswers ==
  ASSUME Transport!ConstantsAssumption, ExchangeInv,
         Transport!SendFails \/ Transport!GiveUp \/ Transport!Finish
  PROVE  ExchangeInv' /\ Transport!Exchange!Next
<1> USE DEF Transport!SendFails, Transport!GiveUp, Transport!Finish
<1>1. pc # "idle" /\ UNCHANGED <<number, attempt, answer, wire, effects>>
  OBVIOUS
<1>2. \/ Transport!Return("error")
      \/ Transport!Return("ok") /\ pc = "answered" /\ Transport!Succeeded(answer)
  OBVIOUS
<1>3. CASE Transport!Return("error")
  BY <1>1, <1>3, ReturnAnswers
<1>4. CASE Transport!Return("ok") /\ pc = "answered" /\ Transport!Succeeded(answer)
  BY <1>1, <1>4, ReturnAnswers DEF ExchangeInv, Current
<1>5. QED
  BY <1>2, <1>3, <1>4

\* What becomes of an attempt under way: it is the last of its request, and
\* nothing of that request has had an effect.
LEMMA WireStep ==
  ASSUME Transport!ConstantsAssumption, ExchangeInv, NEW m \in wire, NEW a \in Answers, wire' = wire \ {m},
         \/ Transport!Reply(m, a)
         \/ UNCHANGED <<pc, answer>>,
         UNCHANGED <<number, attempt, outcome>>,
         \/ UNCHANGED effects /\ ~ Transport!Succeeded(a)
         \/ effects' = [effects EXCEPT ![m[1]] = @ + 1] /\ a \notin Refusals,
         a.status \in {403, 429} => a \in Refusals
  PROVE  ExchangeInv'
<1>0. MaxRequests \in Nat
  BY DEF Transport!ConstantsAssumption
<1> USE <1>0 DEF ExchangeInv
<1>1. /\ m[1] \in Transport!Request /\ m[1] \in 1 .. number /\ m[1] \in Nat /\ number \in Nat
      /\ effects \in [Transport!Request -> {0, 1}] /\ effects[m[1]] = 0
      /\ \A k \in wire' : k \in wire /\ k[1] # m[1]
  BY DEF TransportTypes, OnceUnderWay, Transport!Request
<1>2. /\ effects' \in [Transport!Request -> {0, 1}]
      /\ \A q \in Transport!Request \ {m[1]} : effects'[q] = effects[q]
      /\ UNCHANGED effects \/ effects'[m[1]] = 1
  BY <1>1
<1>3. /\ pc' \in {pc, "answered"}
      /\ pc' = "answered" /\ pc # "answered" =>
           pc = "waiting" /\ m = <<number, attempt>> /\ answer' = a
      /\ pc' = pc => answer' = answer
      /\ answer' \in {answer, a}
  BY DEF Transport!Reply
<1>4. TransportTypes'
  BY <1>2, <1>3 DEF TransportTypes
<1>5. OneIsOpen'
  BY <1>1, <1>2, <1>3 DEF OneIsOpen
<1>6. OnceUnderWay'
  BY <1>1, <1>2 DEF OnceUnderWay, TransportTypes, Transport!Request
<1>7. Current'
  <2>1. CASE pc' = pc
    <3>1. /\ pc \in {"sending", "answered"} => m[1] # number
      BY DEF Current
    <3>2. pc # "waiting" /\ pc # "idle" => effects'[number] = effects[number]
      BY <1>1, <1>2, <3>1 DEF OneIsOpen, TransportTypes, Transport!Request
    <3>3. QED
      BY <1>1, <1>3, <2>1, <3>1, <3>2 DEF Current
  <2>2. CASE pc' # pc
    <3>1. /\ pc' = "answered" /\ m[1] = number /\ answer' = a /\ number' = number
      BY <1>3, <2>2
    <3>2. \A k \in wire' : k[1] # number
      BY <1>1, <3>1
    <3>3. Transport!Succeeded(a) => effects'[number] = 1
      BY <1>1, <3>1
    <3>4. a.status \in {403, 429} => effects'[number] = 0
      BY <1>1, <3>1
    <3>5. QED
      BY <3>1, <3>2, <3>3, <3>4 DEF Current, Transport!Succeeded
  <2>3. QED
    BY <2>1, <2>2
<1>8. QED
  BY <1>4, <1>5, <1>6, <1>7

\* GitHub's step is the effect of an exchange, or nothing to it.
LEMMA GithubIsExchange ==
  ASSUME Transport!ConstantsAssumption, ExchangeInv, Transport!Github
  PROVE  ExchangeInv' /\ [Transport!Exchange!Next]_(Transport!Exchange!vars)
<1> USE DEF Transport!client
<1>0. PICK m \in wire :
        \/ \E a \in {Transport!Success, Transport!Plain(502)} : Transport!Perform(m, a)
        \/ \E a \in Refusals \cup {Transport!Plain(422), Transport!Plain(502)} : Transport!Turned(m, a)
        \/ Transport!Lose(m)
  BY DEF Transport!Github
<1>1. ASSUME NEW a \in {Transport!Success, Transport!Plain(502)}, Transport!Perform(m, a)
      PROVE  ExchangeInv' /\ Transport!Exchange!Next
  <2>1. a \in Answers /\ a \notin Refusals /\ a.status \notin {403, 429}
    BY DEF Answers, Transport!Success, Transport!Plain, Transport!ConstantsAssumption
  <2>2. ExchangeInv'
    BY <1>1, <2>1, WireStep DEF Transport!Perform
  <2>3. m[1] \in Transport!Request /\ m[1] \in Int /\ m[1] <= number /\ number \in Int /\ effects[m[1]] = 0
    BY DEF Transport!ConstantsAssumption, ExchangeInv, TransportTypes, OnceUnderWay, Transport!Request
  <2>4. Transport!Asked(m[1]) # "unasked"
    BY <2>3 DEF Transport!Asked
  <2>5. Transport!Exchange!TakeEffect(m[1])
    <3>1. effects' = [effects EXCEPT ![m[1]] = 1]
      BY <1>1, <2>3 DEF Transport!Perform, ExchangeInv, TransportTypes
    <3>2. UNCHANGED <<number, outcome>>
      BY <1>1 DEF Transport!Perform
    <3>3. UNCHANGED [q \in Transport!Request |-> Transport!Asked(q)]
      BY <3>2 DEF Transport!Asked
    <3>4. QED
      BY <2>3, <2>4, <3>1, <3>3 DEF Transport!Exchange!TakeEffect
  <2>6. QED
    BY <2>2, <2>3, <2>5 DEF Transport!Exchange!Next
<1>2. ASSUME NEW a \in Refusals \cup {Transport!Plain(422), Transport!Plain(502)}, Transport!Turned(m, a)
      PROVE  ExchangeInv' /\ UNCHANGED Transport!Exchange!vars
  <2>1. a \in Answers /\ (a.status \in {403, 429} => a \in Refusals)
    BY AnswersTell DEF Answers
  <2>2. ~ Transport!Succeeded(a)
    BY DEF Transport!Succeeded, Transport!Plain, Transport!ConstantsAssumption
  <2>3. ExchangeInv'
    BY <1>2, <2>1, <2>2, WireStep DEF Transport!Turned
  <2>4. QED
    BY <1>2, <2>3, Unnoticed DEF Transport!Turned
<1>3. CASE Transport!Lose(m)
  <2>1. Transport!Plain(422) \in Answers /\ ~ Transport!Succeeded(Transport!Plain(422))
        /\ Transport!Plain(422).status \notin {403, 429}
    BY DEF Answers, Transport!Plain, Transport!Succeeded
  <2>2. ExchangeInv'
    BY <1>3, <2>1, WireStep DEF Transport!Lose
  <2>3. QED
    BY <1>3, <2>2, Unnoticed DEF Transport!Lose
<1>4. QED
  BY <1>0, <1>1, <1>2, <1>3

\* Every step keeps the invariant and is a step of the exchange or none.
LEMMA ExchangeStep ==
  ASSUME Transport!ConstantsAssumption, ExchangeInv, [Transport!Next]_(Transport!vars)
  PROVE  ExchangeInv' /\ [Transport!Exchange!Next]_(Transport!Exchange!vars)
<1>1. CASE \E again \in BOOLEAN : Transport!Begin(again)
  BY <1>1, BeginIsAsk
<1>2. CASE Transport!Send
  BY <1>2, SendIsUnnoticed
<1>3. CASE Transport!Retry
  BY <1>3, RetryIsUnnoticed
<1>4. CASE Transport!GiveUp \/ Transport!Finish \/ Transport!SendFails
  BY <1>4, EndsAreAnswers
<1>5. CASE Transport!Github
  BY <1>5, GithubIsExchange
<1>6. CASE UNCHANGED Transport!vars
  <2>1. UNCHANGED <<pc, number, attempt, answer, wire, effects, outcome>>
    BY <1>6 DEF Transport!vars, Transport!client
  <2>2. ExchangeInv'
    BY <2>1 DEF ExchangeInv, TransportTypes, OneIsOpen, OnceUnderWay, Current
  <2>3. QED
    BY <2>1, <2>2, Unnoticed
<1>7. QED
  BY <1>1, <1>2, <1>3, <1>4, <1>5, <1>6 DEF Transport!Next, Transport!Step

\* Every request that github_json_request and its kin make, with all of its
\* attempts, refusals, losses and late effects, is one exchange: it takes effect
\* at most once and Ok means that it has.  This is the safety part of
\* ImplementsExchange.
THEOREM RequestsAreExchanges ==
  Transport!ConstantsAssumption /\ Transport!Spec
    => Transport!Exchange!Init /\ [][Transport!Exchange!Next]_(Transport!Exchange!vars)
<1> SUFFICES ASSUME Transport!ConstantsAssumption
    PROVE Transport!Spec => Transport!Exchange!Init /\ [][Transport!Exchange!Next]_(Transport!Exchange!vars)
  OBVIOUS
<1>1. Transport!Init => ExchangeInv /\ Transport!Exchange!Init
  BY ExchangeStarts
<1>2. ExchangeInv /\ [Transport!Next]_(Transport!vars)
        => ExchangeInv' /\ [Transport!Exchange!Next]_(Transport!Exchange!vars)
  BY ExchangeStep
<1>3. QED
  BY <1>1, <1>2, PTL DEF Transport!Spec
=============================================================================
