---------------------------- MODULE GithubListing ---------------------------
(***************************************************************************)
(* Lists that GitHub hands out page by page: list_issue_comments, on which *)
(* claims, releases and summaries rest, and fetch_issue_candidates.  Each  *)
(* page is a request of its own (an exchange of GithubTransport, answered  *)
(* or failed), and between two pages other people add, touch and take away *)
(* what is listed.  GitHub, which sorts and selects, is external.          *)
(***************************************************************************)
EXTENDS Integers, Sequences, FiniteSets, SequencesExt

CONSTANTS
  Item,        \* comments, or issues and pull requests
  Attributes,  \* what GitHub knows of each: its pr, state, labels, and whether
               \* the text searched for is in it (found)
  Listed,      \* the items there at first, in GitHub's order
  Queries,     \* what is asked for: comments or not, and of candidates the
               \* text or not, state, labels, prs, descending or not, page, limit
  PerPage,     \* items of a page: 100, or per_page
  MaxChanges   \* bound: changes while a list is read

ConstantsAssumption ==
  /\ PerPage \in 1 .. 100
  /\ MaxChanges \in Nat
  /\ Listed \in Seq(Item) /\ IsInjective(Listed)
  /\ \A q \in Queries : q.page \in Nat /\ q.limit \in Nat

VARIABLES
  shelf,     \* the items in GitHub's order
  changes,   \* how often they have changed
  reader,    \* "idle", "reading", "listed" or "failed"
  query,     \* the query,
  page,      \*   the number of the next page,
  got,       \*   what has been read,
  partial,   \*   whether an answer said that it was incomplete
  steady     \* history: the items that have been in their place or behind it

vars == <<shelf, changes, reader, query, page, got, partial, steady>>

\* github_issue_list_url and github_issue_search_terms: what GitHub selects.
\* Only a search leaves pull requests to GitHub.
Selects(q, i) ==
  LET a == Attributes[i] IN
  \/ q.comments
  \/ /\ q.state \in {a.state, "all"}
     /\ q.labels \subseteq a.labels
     /\ q.text => a.found /\ (a.pr => q.prs)

\* What is asked for.
Wanted(q, i) == Selects(q, i) /\ (q.comments \/ q.prs \/ ~Attributes[i].pr)

Place(s, i) == CHOOSE n \in DOMAIN s : s[n] = i

\* What is in a set, of a sequence that has no item twice, in its order.
Upto(s, set, i) == {j \in set \cap ToSet(s) : Place(s, j) <= Place(s, i)}
Kept(s, set) ==
  [k \in 1 .. Cardinality(set \cap ToSet(s)) |->
     CHOOSE i \in set \cap ToSet(s) : Cardinality(Upto(s, set, i)) = k]

Selected(q) == Kept(shelf, {i \in Item : Selects(q, i)})
FirstPage(q) == IF q.page > 1 THEN q.page ELSE 1
Before(n) == (n - 1) * PerPage
PageOf(s, n) ==
  [k \in 1 .. (IF Len(s) < Before(n) + PerPage THEN Len(s) - Before(n) ELSE PerPage) |-> s[Before(n) + k]]

Init ==
  /\ shelf = Listed /\ changes = 0
  /\ reader = "idle" /\ query \in Queries /\ page = 1 /\ got = <<>> /\ partial = FALSE
  /\ steady = {}

Begin ==
  /\ reader = "idle" /\ reader' = "reading"
  /\ page' = FirstPage(query)
  /\ steady' = {i \in ToSet(Selected(query)) : Place(Selected(query), i) > Before(page')}
  /\ UNCHANGED <<shelf, changes, query, got, partial>>

\* list_issue_comments: a page that is not full is the last one.
ReadComments ==
  /\ reader = "reading" /\ query.comments
  /\ LET items == PageOf(Selected(query), page) IN
     /\ got' = got \o items
     /\ reader' = IF Len(items) < PerPage THEN "listed" ELSE "reading"
  /\ page' = page + 1
  /\ UNCHANGED <<shelf, changes, query, partial, steady>>

Asked == {i \in Item : Wanted(query, i)}

\* fetch_issue_candidates: pull requests are passed over, and reading ends at
\* the limit, too.
\* Mutant: a page that has too few issues is the last one.
LastByIssues(items) == Len(Kept(items, Asked)) < PerPage
IsLast(items) == Len(items) < PerPage

FirstOf(n, s) == IF Len(s) < n THEN s ELSE SubSeq(s, 1, n)
Limit == IF query.limit > 1 THEN query.limit ELSE 1

Take(items, incomplete) ==
  /\ got' = FirstOf(Limit, got \o Kept(items, Asked))
  /\ reader' = IF Len(got') = Limit \/ IsLast(items) THEN "listed" ELSE "reading"
  /\ page' = page + 1
  /\ partial' = (partial \/ incomplete)
  /\ UNCHANGED <<shelf, changes, query, steady>>

\* A search may be answered with some of what there is, and says so.
ReadCandidates ==
  /\ reader = "reading" /\ ~query.comments
  /\ LET items == PageOf(Selected(query), page) IN
     \/ Take(items, FALSE)
     \/ query.text /\ \E some \in SUBSET ToSet(items) :
          Take(Kept(items, some), TRUE)

PageFails ==
  /\ reader = "reading" /\ reader' = "failed"
  /\ UNCHANGED <<shelf, changes, query, page, got, partial, steady>>

-----------------------------------------------------------------------------
\* Other people (external).

Behind(i) == {j \in ToSet(shelf) : Place(shelf, j) > Place(shelf, i)}
Without(i) == Kept(shelf, Item \ {i})

\* What comes after an item that leaves its place moves up.
Unsettle(i) == steady' = steady \ (IF Selects(query, i) THEN Behind(i) \cup {i} ELSE {i})

Change == changes < MaxChanges /\ changes' = changes + 1 /\ UNCHANGED <<reader, query, page, got, partial>>

Add(i) ==
  /\ Change /\ i \notin ToSet(shelf)
  /\ shelf' = IF query.descending THEN <<i>> \o shelf ELSE Append(shelf, i)
  /\ UNCHANGED steady

Delete(i) ==
  /\ Change /\ i \in ToSet(shelf)
  /\ shelf' = Without(i)
  /\ Unsettle(i)

\* An issue is updated, and is now the first or the last of those sorted by it.
Touch(i) ==
  /\ Change /\ i \in ToSet(shelf) /\ ~query.comments
  /\ IF query.descending
     THEN shelf' = <<i>> \o Without(i) /\ steady' = steady \ {i}
     ELSE shelf' = Append(Without(i), i) /\ Unsettle(i)

Read == Begin \/ ReadComments \/ ReadCandidates
Others == \E i \in Item : Add(i) \/ Delete(i) \/ Touch(i)
Next == Read \/ PageFails \/ Others

Spec == Init /\ [][Next]_vars

-----------------------------------------------------------------------------
\* A list read while others change what it lists has everything that was asked
\* for and was there all along, unless the limit was reached, GitHub said that
\* its answer was partial, or something in front of it went away: no page that
\* pull requests fill, no new item that pushes the others on, and no page that
\* is just full ends the reading too early.  And it has nothing else.
ListingIsWhole ==
  /\ \A i \in ToSet(got) : Wanted(query, i)
  /\ reader = "listed" /\ ~partial /\ (query.comments \/ Len(got) < Limit) =>
       \A i \in steady : Wanted(query, i) => i \in ToSet(got)
=============================================================================
