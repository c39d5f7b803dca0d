------------------------- MODULE MCIssueSubmission -------------------------
(***************************************************************************)
(* Instance of IssueSubmission, of GithubProvisioning, the one step of it  *)
(* that is many requests, and of GithubListing, by which it and the claims *)
(* read what is there.  A behaviour has one of the three (part): no step   *)
(* of one looks at the state of another.                                   *)
(*                                                                         *)
(* Provisioning: two submitters that share a missing label, the project    *)
(* and its fields; a search that shows one project.                        *)
(*                                                                         *)
(* Listing: six items of which one comes later, with pages of two and two  *)
(* changes while they are read.                                            *)
(***************************************************************************)
EXTENDS IssueSubmission, TLC

CONSTANTS Client, Proposal, Standard, Options, Configs, FirstLabels, FirstProjects, Shown, MaxEdits

CONSTANTS Item, Attributes, Listed, Queries, PerPage, MaxChanges

VARIABLES part, config, labels, projects, issue, values, items, edits, at, n, project, known, applied
VARIABLES shelf, changes, reader, query, page, got, partial, steady

provisioningVars ==
  <<config, labels, projects, issue, values, items, edits, at, n, project, known, applied>>

listingVars == <<shelf, changes, reader, query, page, got, partial, steady>>

Provisioning == INSTANCE GithubProvisioning
Listing == INSTANCE GithubListing

ASSUME ProvisioningAssumption == Provisioning!ConstantsAssumption
ASSUME ListingAssumption == Listing!ConstantsAssumption

CONSTANTS s1, s2, s3, i1, i2

Perms == Permutations({s1, s2, s3}) \cup Permutations({i1, i2})

F(name, value) == [name |-> name, value |-> value]
MCProposal ==
  "a" :> [labels |-> <<"bug", "tool", "local">>, fields |-> <<F("Priority", "P1"), F("Size", "S")>>]
  @@ "b" :> [labels |-> <<"bug">>, fields |-> <<F("Size", "L")>>]

MCConfigs ==
  {[labels |-> TRUE,  projects |-> TRUE,  number |-> 0],
   [labels |-> TRUE,  projects |-> TRUE,  number |-> 2],
   [labels |-> FALSE, projects |-> FALSE, number |-> 0]}

MCOptions == "Priority" :> {"P0", "P1"} @@ "Size" :> {"S", "L"}
MCProjects == << [title |-> "other", fields |-> <<>>] >>

MCAttributes ==
  [i \in 1 .. 6 |-> [pr     |-> i \in {1, 4},
                     state  |-> IF i = 2 THEN "closed" ELSE "open",
                     labels |-> IF i = 3 THEN {} ELSE {"bug"},
                     found  |-> i # 5]]
MCListed == <<1, 2, 3, 4, 5>>

Query(text, state, tags, prs, descending, first, limit) ==
  [comments |-> FALSE, text |-> text, state |-> state, labels |-> tags, prs |-> prs,
   descending |-> descending, page |-> first, limit |-> limit]

MCQueries ==
  {[Query(FALSE, "all", {}, TRUE, FALSE, 1, 50) EXCEPT !.comments = TRUE]}
  \cup {Query(text, state, tags, prs, descending, first, limit) :
          text \in BOOLEAN, state \in {"open", "all"}, tags \in {{}, {"bug"}}, prs \in BOOLEAN,
          descending \in BOOLEAN, first \in {0, 2}, limit \in {2, 50}}

-----------------------------------------------------------------------------
Whatever == [local |-> TRUE, parent |-> FALSE, fields |-> FALSE, digest |-> 0, dedupe |-> "deferred"]

SubmitInit ==
  /\ Init /\ Provisioning!Init /\ Listing!Init
  /\ part \in {"ledger", "provisioning", "listing"}
  /\ part # "ledger"       => proposal = Whatever
  /\ part # "provisioning" => config = CHOOSE c \in Configs : TRUE
  /\ part # "listing"      => query = CHOOSE q \in Queries : TRUE

SubmitNext ==
  /\ \/ part = "ledger" /\ Next /\ UNCHANGED <<provisioningVars, listingVars>>
     \/ part = "provisioning" /\ Provisioning!Next /\ UNCHANGED <<vars, listingVars>>
     \/ part = "listing" /\ Listing!Next /\ UNCHANGED <<vars, provisioningVars>>
  /\ UNCHANGED part

SubmitSpec == SubmitInit /\ [][SubmitNext]_<<part, vars, provisioningVars, listingVars>>

\* Provisioning!CreatedIsProvisioned: a submission recorded as created has all
\* labels, and is with all its values in the configured project.
CreatedIsProvisioned == Provisioning!CreatedIsProvisioned

\* Listing!ListingIsWhole: a list read while others change what it lists has
\* everything that was asked for and was there all along, unless the limit was
\* reached, GitHub said that its answer was partial, or something in front of
\* it went away.
ListingIsWhole == Listing!ListingIsWhole
=============================================================================
