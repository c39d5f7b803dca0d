---------------------------- MODULE SpawnManager ----------------------------
(***************************************************************************)
(* SpawnManager::plan: which of the child agents that were asked for a run *)
(* may have.  Each iteration of its loop decides on one candidate with the *)
(* budget that the children spawned so far have left.                      *)
(*                                                                         *)
(* Roles other than the default writer (Implementer) are "Helper".  Counts *)
(* are u32 and tokens u64 in the code; MaxCount and MaxTokens are the      *)
(* largest values of those types.                                          *)
(***************************************************************************)
EXTENDS Integers, Sequences

CONSTANTS
  Configs,       \* [spawn] tables of agentactr.toml
  Budgets,       \* budgets that plan may be called with
  Candidates,    \* requests that plan may be asked for
  MaxCandidates, \* bound: how many
  MaxCount,      \* u32::MAX
  MaxTokens      \* u64::MAX

\* enabled .. pause_on_memory_pressure of SpawnConfig and SpawnPolicy.
Policy == [enabled       : BOOLEAN,
           children      : Nat,
           depth         : Nat,
           readers       : BOOLEAN,   \* allow_parallel_read_only
           writers       : BOOLEAN,   \* allow_parallel_writers
           total         : Nat,       \* max_total_uncached_input_tokens
           input         : Nat,       \* max_child_uncached_input_tokens
           output        : Nat,       \* max_child_output_tokens
           pause         : BOOLEAN]

\* RunBudgetSnapshot
Budget == [started : 0 .. MaxCount, active : 0 .. MaxCount, depth : 0 .. MaxCount,
           input : 0 .. MaxTokens, output : 0 .. MaxTokens,
           pressure : BOOLEAN, writer : BOOLEAN]

\* SpawnRequest: its role, WriteScope and ToolPolicy::allow_write_tools.
Request == [role : {"Implementer", "Helper"},
            scope : {"none", "artifacts", "workspace"},
            tools : BOOLEAN]

\* Of the constants; MCHelpers assumes it.
ConstantsAssumption ==
  /\ MaxCount \in Nat /\ MaxTokens \in Nat /\ MaxCandidates \in Nat
  /\ Configs \subseteq Policy
  /\ \A c \in Configs : c.total <= MaxTokens /\ c.input <= MaxTokens /\ c.output <= MaxTokens
  /\ Budgets \subseteq Budget
  /\ Candidates \subseteq Request

Least(a, b) == IF a <= b THEN a ELSE b

\* From<&SpawnConfig>: the counts are cut to their type, and one level of
\* children is all there is unless writers may be parallel.
PolicyOf(c) ==
  [c EXCEPT !.children = Least(@, MaxCount),
            !.depth = Least(IF c.writers THEN @ ELSE Least(@, 1), MaxCount)]

VARIABLES
  policy,     \* SpawnManager::policy
  initial,    \* the budget plan was called with
  budget,     \* the budget after the children spawned so far
  decisions,  \* SpawnPlan::decisions: the request, the action and the reason
  children    \* SpawnPlan::child_nodes: the request and the index of each

vars == <<policy, initial, budget, decisions, children>>

\* The checks of decide in their order, named by the SpawnReason they give.
Checks == <<"policy_disabled", "max_children_reached", "max_depth_reached",
            "memory_pressure", "scope_not_enforceable", "writer_already_active",
            "parallel_read_only_disabled", "budget_exhausted">>
Reasons == {Checks[i] : i \in DOMAIN Checks} \cup {"allowed"}

TypeOK ==
  /\ policy \in Policy
  /\ initial \in Budget
  /\ budget \in Budget
  /\ decisions \in Seq([request : Request, reason : Reasons])
  /\ children \in Seq([request : Request, index : Nat \ {0}])

Init ==
  /\ \E c \in Configs : policy = PolicyOf(c)
  /\ initial \in Budgets
  /\ budget = initial
  /\ decisions = <<>>
  /\ children = <<>>

-----------------------------------------------------------------------------
Writes(request)  == request.scope = "workspace"
IsWriter(request) == request.role = "Implementer"

\* u32 and u64 saturating_add
Plus(a, b, max) == Least(a + b, max)

\* would_exceed_uncached_budget
\* Mutant: the children there are may reach the limit, whatever one more needs.
ExceedsAlready(b) == b.input > policy.total
Exceeds(b) == Plus(b.input, policy.input, MaxTokens) > policy.total

\* Whether a request with budget b fails a check.
Fails(reason, request, b) ==
  CASE reason = "policy_disabled"       -> ~ policy.enabled
    [] reason = "max_children_reached"  -> b.started >= policy.children
    [] reason = "max_depth_reached"     -> b.depth >= policy.depth
    [] reason = "memory_pressure"       -> policy.pause /\ b.pressure /\ ~ IsWriter(request)
    [] reason = "scope_not_enforceable" -> Writes(request) /\ ~ IsWriter(request)
    [] reason = "writer_already_active" -> Writes(request) /\ ~ policy.writers /\ b.writer
    [] reason = "parallel_read_only_disabled" ->
         request.scope = "none" /\ ~ policy.readers /\ b.active > 0
    [] reason = "budget_exhausted"      -> Exceeds(b)
    [] reason = "allowed"               -> FALSE

Failed(request, b) == { r \in Reasons : Fails(r, request, b) }

\* decide: the first failed check decides, and "scope_not_enforceable" is the
\* one that fails closed; every other one skips the candidate.
Reason(request, b) ==
  IF Failed(request, b) = {} THEN "allowed"
  ELSE Checks[CHOOSE i \in DOMAIN Checks :
                /\ Checks[i] \in Failed(request, b)
                /\ \A j \in 1 .. i - 1 : Checks[j] \notin Failed(request, b)]

\* decide's budget_after_spawn
Spent(request, b) ==
  [b EXCEPT !.started = Plus(@, 1, MaxCount),
            !.active  = Plus(@, 1, MaxCount),
            !.input   = Plus(@, policy.input, MaxTokens),
            !.output  = Plus(@, policy.output, MaxTokens),
            !.writer  = @ \/ Writes(request)]

\* One iteration of plan.  The child is named by the index of its candidate.
Skip(request) ==
  /\ Reason(request, budget) # "allowed"
  /\ UNCHANGED <<budget, children>>

Spawn(request) ==
  /\ Reason(request, budget) = "allowed"
  /\ budget' = Spent(request, budget)
  /\ children' = Append(children, [request |-> request, index |-> Len(decisions) + 1])

Decide(request) ==
  /\ Len(decisions) < MaxCandidates
  /\ decisions' = Append(decisions, [request |-> request, reason |-> Reason(request, budget)])
  /\ Skip(request) \/ Spawn(request)
  /\ UNCHANGED <<policy, initial>>

Next == \E request \in Candidates : Decide(request)

Spec == Init /\ [][Next]_vars

-----------------------------------------------------------------------------
\* Properties

Writers == {i \in DOMAIN children : Writes(children[i].request)}

\* However many candidates there are and in whatever order, the children never
\* exceed the limit, and each one was counted: neither limit nor count is lost
\* in the 32 bits.
ChildrenAreCapped ==
  /\ children # <<>> => budget.started <= policy.children
  /\ budget.started = initial.started + Len(children)

\* The tokens granted to the children, added up without a limit of 64 bits,
\* stay within the total, unless the total is that limit itself.
TokensAreCapped ==
  policy.total < MaxTokens /\ children # <<>> =>
    initial.input + Len(children) * policy.input <= policy.total

\* Unless writers may be parallel, at most one child writes to the workspace,
\* and none does when the plan starts with an active writer; whoever writes
\* is an Implementer.
OneWriter ==
  /\ ~ policy.writers =>
       /\ \A i, j \in Writers : i = j
       /\ initial.writer => Writers = {}
  /\ \A i \in Writers : IsWriter(children[i].request)

\* A plan made under memory pressure has no helper, wherever in the candidates
\* it comes.
NoHelperUnderPressure ==
  initial.pressure /\ policy.pause =>
    \A i \in DOMAIN children : IsWriter(children[i].request)
=============================================================================
