------------------------- MODULE GithubProvisioning ------------------------
(***************************************************************************)
(* What `issue submit` sets up on GitHub around a new issue:               *)
(* GithubRestAdapter::create_issue with the standard labels before it and  *)
(* the ProjectV2 after it, request by request, for several submitters at   *)
(* once and with people who edit labels and projects meanwhile.  Each      *)
(* request is an exchange of GithubTransport; one that fails ends its      *)
(* submitter.  IssueSubmission has the ledger around this and takes it as  *)
(* one step.  GitHub and its people are external.                          *)
(***************************************************************************)
EXTENDS Integers, Sequences, FiniteSets, FiniteSetsExt, SequencesExt

CONSTANTS
  Client,         \* submitters, each of a proposal of its own
  Proposal,       \* its labels, a sequence, and its fields, a sequence of
                  \* [name, value] without repeated names
  Standard,       \* GITHUB_STANDARD_LABELS
  Options,        \* project_field_options: a function from the names it supports
  Configs,        \* the [github] settings: whether standard_label_policy (labels)
                  \* and project_automation (projects) are
                  \* "ensure_on_issue_create", and project_number (number), where
                  \* 0 stands for a look for project_title
  FirstLabels, FirstProjects,   \* what GitHub has at first
  Shown,          \* how many projects a search shows (first: 20)
  MaxEdits        \* bound: edits by people

IsSequence(s) == s \in Seq(ToSet(s))

\* Of the constants; MCIssueSubmission assumes it.
ConstantsAssumption ==
  /\ Configs \subseteq [labels : BOOLEAN, projects : BOOLEAN, number : Nat]
  /\ MaxEdits \in Nat /\ Shown \in Nat \ {0}
  /\ \A c \in Client :
       /\ IsSequence(Proposal[c].fields)
       /\ \A j, k \in DOMAIN Proposal[c].fields :
            Proposal[c].fields[j].name = Proposal[c].fields[k].name => j = k
  /\ IsSequence(FirstProjects)
  /\ \A p \in DOMAIN FirstProjects : DOMAIN FirstProjects[p] = {"title", "fields"}

Fields(c) == Proposal[c].fields
StandardLabels(c) == SelectSeq(Proposal[c].labels, LAMBDA l : l \in Standard)

VARIABLES
  config,    \* the settings of all submitters
  labels,    \* GitHub: the labels of the repository,
  projects,  \*   the projects of its owner: title, and fields as a function
             \*   from their names to their options,
  issue,     \*   the labels of each submitter's issue, or {"absent"},
  values,    \*   its values: <<project, name, option>>,
  items,     \*   <<project, submitter>> of the issues in a project,
  edits,     \*   and how often people edited
  at,        \* a submitter's next step,
  n,         \*   its place in the labels or fields,
  project,   \*   the project it found or made, and
  known,     \*   the fields it knows it to have,
  applied    \*   and the fields that it set, in order

client == <<at, n, project, known, applied>>
remote == <<labels, projects, issue, values, items>>
vars == <<config, client, remote, edits>>

Init ==
  /\ config \in Configs
  /\ labels = FirstLabels /\ projects = FirstProjects
  /\ issue = [c \in Client |-> {"absent"}] /\ values = [c \in Client |-> {}] /\ items = {}
  /\ edits = 0
  /\ at = [c \in Client |-> "start"]
  /\ n = [c \in Client |-> 1]
  /\ project = [c \in Client |-> 0]
  /\ known = [c \in Client |-> <<>>]
  /\ applied = [c \in Client |-> <<>>]

Goto(c, where) == at' = [at EXCEPT ![c] = where]
Advance(c, k)  == n' = [n EXCEPT ![c] = k]

\* A request that is refused or lost on the way, and one whose answer is lost.
\* What GitHub does after its client has given up is in the second: nothing
\* tells others when the client ended.
Refused(c) == Goto(c, "failed") /\ UNCHANGED <<n, project, known, applied, remote, edits>>
Unheard(c) == Goto(c, "failed") /\ UNCHANGED <<n, project, known, applied>>

-----------------------------------------------------------------------------
\* ensure_issue_proposal_capabilities, with capabilities_for_config.
Start(c) ==
  /\ at[c] = "start"
  /\ IF Fields(c) # <<>> /\ ~config.projects
     THEN Goto(c, "failed")
     ELSE Goto(c, IF config.labels /\ StandardLabels(c) # <<>> THEN "label" ELSE "issue")
  /\ UNCHANGED <<n, project, known, applied, remote, edits>>

NextLabel(c) ==
  /\ Advance(c, n[c] + 1)
  /\ Goto(c, IF n[c] < Len(StandardLabels(c)) THEN "label" ELSE "issue")
  /\ UNCHANGED <<project, known, applied>>

\* ensure_standard_label: ask for it, and make it on a 404.
GetLabel(c) ==
  /\ at[c] = "label"
  /\ \/ /\ StandardLabels(c)[n[c]] \in labels
        /\ NextLabel(c) /\ UNCHANGED <<remote, edits>>
     \/ /\ StandardLabels(c)[n[c]] \notin labels
        /\ Goto(c, "new label") /\ UNCHANGED <<n, project, known, applied, remote, edits>>
     \/ Refused(c)

\* GitHub refuses a name that is taken.
PostLabel(c) ==
  /\ at[c] = "new label"
  /\ LET l == StandardLabels(c)[n[c]] IN
     \/ /\ l \notin labels /\ labels' = labels \cup {l}
        /\ NextLabel(c) \/ Unheard(c)
        /\ UNCHANGED <<projects, issue, values, items, edits>>
     \/ Refused(c)

\* The POST of the issue; GitHub may leave labels out, or make those it lacks.
PostIssue(c) ==
  /\ at[c] = "issue"
  /\ \/ /\ \E given \in SUBSET ToSet(Proposal[c].labels) :
             issue' = [issue EXCEPT ![c] = given] /\ labels' = labels \cup given
        /\ UNCHANGED <<projects, values, items, edits>>
        /\ \/ /\ Goto(c, IF Fields(c) = <<>> THEN "made" ELSE "owner")
              /\ UNCHANGED <<n, project, known, applied>>
           \/ Unheard(c)
     \/ Refused(c)

FetchOwner(c) ==
  /\ at[c] = "owner"
  /\ \/ Goto(c, "project") /\ UNCHANGED <<n, project, known, applied, remote, edits>>
     \/ Refused(c)

\* resolve_or_create_project: by its number, or the first of that title among
\* those that the search shows; else, without a number, a new one.
\* Mutant: the title is left to the search.
IsOursBySearch(p) == config.number \in {0, p}
IsOurs(p) == IF config.number > 0 THEN p = config.number ELSE projects[p].title = "ours"

Take(c, p) ==
  /\ project' = [project EXCEPT ![c] = p]
  /\ known' = [known EXCEPT ![c] = projects[p].fields]
  /\ Goto(c, "fields") /\ UNCHANGED <<n, applied, remote, edits>>

\* The projects an answer shows: all of them, or as many as fit.
Answers ==
  IF config.number > 0 THEN {{config.number} \cap DOMAIN projects}
  ELSE {some \in SUBSET DOMAIN projects :
          Cardinality(some) = IF Len(projects) < Shown THEN Len(projects) ELSE Shown}

FindProject(c) ==
  /\ at[c] = "project"
  /\ \/ \E some \in Answers :
          \/ \E p \in some : IsOurs(p) /\ Take(c, p)
          \/ /\ \A p \in some : ~IsOurs(p)
             /\ Goto(c, IF config.number = 0 THEN "new project" ELSE "failed")
             /\ UNCHANGED <<n, project, known, applied, remote, edits>>
     \/ Refused(c)

CreateProject(c) ==
  /\ at[c] = "new project"
  /\ \/ /\ projects' = Append(projects, [title |-> "ours", fields |-> <<>>])
        /\ UNCHANGED <<labels, issue, values, items, edits>>
        /\ \/ /\ project' = [project EXCEPT ![c] = Len(projects')]
              /\ known' = [known EXCEPT ![c] = <<>>]
              /\ Goto(c, "fields") /\ UNCHANGED <<n, applied>>
           \/ Unheard(c)
     \/ Refused(c)

\* ensure_project_fields: those that the project was not seen to have are made,
\* if their options are known; GitHub refuses a name that is taken.
Lacking(c) == {k \in DOMAIN Fields(c) : Fields(c)[k].name \notin DOMAIN known[c]}

With(f, name, options) == [x \in DOMAIN f \cup {name} |-> IF x = name THEN options ELSE f[x]]

CreateField(c) ==
  /\ at[c] = "fields" /\ Lacking(c) # {}
  /\ LET name == Fields(c)[Min(Lacking(c))].name
         p == project[c] IN
     \/ /\ name \in DOMAIN Options /\ name \notin DOMAIN projects[p].fields
        /\ projects' = [projects EXCEPT ![p].fields = With(@, name, Options[name])]
        /\ UNCHANGED <<labels, issue, values, items, edits>>
        /\ \/ /\ known' = [known EXCEPT ![c] = With(@, name, Options[name])]
              /\ UNCHANGED <<at, n, project, applied>>
           \/ Unheard(c)
     \/ Refused(c)

AddItem(c) ==
  /\ at[c] = "fields" /\ Lacking(c) = {}
  /\ \/ /\ items' = items \cup {<<project[c], c>>}
        /\ UNCHANGED <<labels, projects, issue, values, edits>>
        /\ \/ Goto(c, "values") /\ Advance(c, 1) /\ UNCHANGED <<project, known, applied>>
           \/ Unheard(c)
     \/ Refused(c)

\* update_project_item_single_select, for an option that the field was seen to
\* have; else an error without a request.
SetValue(c) ==
  /\ at[c] = "values"
  /\ LET f == Fields(c)[n[c]] IN
     \/ /\ f.value \in known[c][f.name]
        /\ values' = [values EXCEPT ![c] = {v \in @ : v[2] # f.name}
                                             \cup {<<project[c], f.name, f.value>>}]
        /\ UNCHANGED <<labels, projects, issue, items, edits>>
        /\ \/ /\ applied' = [applied EXCEPT ![c] = Append(@, f)]
              /\ Advance(c, n[c] + 1)
              /\ Goto(c, IF n[c] < Len(Fields(c)) THEN "values" ELSE "made")
              /\ UNCHANGED <<project, known>>
           \/ Unheard(c)
     \/ Refused(c)

\* metadata_mismatches: what GitHub answered against what was asked.
Compare(c) ==
  /\ at[c] = "made"
  /\ Goto(c, IF issue[c] = ToSet(Proposal[c].labels) /\ applied[c] = Fields(c)
             THEN "created" ELSE "mismatch")
  /\ UNCHANGED <<n, project, known, applied, remote, edits>>

-----------------------------------------------------------------------------
\* People: they delete a label, start a project, or give one a field.
People ==
  /\ edits < MaxEdits /\ edits' = edits + 1
  /\ \/ \E l \in labels : labels' = labels \ {l} /\ UNCHANGED projects
     \/ \E title \in {"ours", "other"} :
          projects' = Append(projects, [title |-> title, fields |-> <<>>]) /\ UNCHANGED labels
     \/ \E p \in DOMAIN projects : \E name \in DOMAIN Options \ DOMAIN projects[p].fields :
          \E options \in {{}, Options[name]} :
            projects' = [projects EXCEPT ![p].fields = With(@, name, options)] /\ UNCHANGED labels
  /\ UNCHANGED <<client, issue, values, items>>

Submit(c) ==
  \/ Start(c) \/ GetLabel(c) \/ PostLabel(c) \/ PostIssue(c) \/ FetchOwner(c) \/ FindProject(c)
  \/ CreateProject(c) \/ CreateField(c) \/ AddItem(c) \/ SetValue(c) \/ Compare(c)

Next == ((\E c \in Client : Submit(c)) \/ People) /\ UNCHANGED config

Spec == Init /\ [][Next]_vars

-----------------------------------------------------------------------------
\* A submission recorded as created is whole: its issue got every label that
\* the proposal asks for, it is in one project, the configured one, and shows
\* every value there; whatever is lost on the way, whoever else looks for the
\* same label, project or field between a look and the making of what was not
\* seen, and whatever people add or delete meanwhile.
CreatedIsProvisioned ==
  \A c \in Client : at[c] = "created" =>
    /\ issue[c] = ToSet(Proposal[c].labels)
    /\ Fields(c) # <<>> =>
         \E p \in DOMAIN projects :
           /\ IF config.number > 0 THEN p = config.number ELSE projects[p].title = "ours"
           /\ <<p, c>> \in items
           /\ \A k \in DOMAIN Fields(c) : <<p, Fields(c)[k].name, Fields(c)[k].value>> \in values[c]
=============================================================================
