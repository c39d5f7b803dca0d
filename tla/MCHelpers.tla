----------------------------- MODULE MCHelpers -----------------------------
(***************************************************************************)
(* Instance of MemoryGovernor and of SpawnManager, which decide which      *)
(* helpers go on and which begin.  A behaviour has one or the other        *)
(* (part): no step of one looks at the other's state.  Their counters are  *)
(* of one type, whose largest value is MaxCount.                           *)
(***************************************************************************)
EXTENDS MemoryGovernor

CONSTANTS Configs, Budgets, Requests, MaxCandidates, MaxTokens

VARIABLES part, policy, initial, budget, decisions, children

planVars == <<policy, initial, budget, decisions, children>>

Spawns == INSTANCE SpawnManager WITH Candidates <- Requests

ASSUME SpawnAssumption == Spawns!ConstantsAssumption

-----------------------------------------------------------------------------
\* Two helpers that differ in nothing but their names, one that has more
\* memory, and the writer.
Helper(id, score) ==
  [id |-> id, readOnly |-> TRUE, priority |-> 10, score |-> score, started |-> 1]
Writer == [id |-> 4, readOnly |-> FALSE, priority |-> 0, score |-> 2, started |-> 1]
MCCandidates == {Helper(1, 1), Helper(2, 1), Helper(3, 2), Writer}

\* The registry lists its targets in the order of a hash map.
MCListings ==
  {<<>>, <<Writer>>, <<Helper(1, 1), Helper(2, 1)>>, <<Helper(2, 1), Helper(1, 1)>>,
   <<Helper(2, 1), Writer, Helper(3, 2)>>}

AnyRead == {Counter, {"high", "oom"}, {}}

\* Counts are 2 bits wide and tokens 3, so that limits at and below the largest
\* value are reached.
Config(most, d, r, w, t, p) ==
  [enabled |-> TRUE, children |-> most, depth |-> d, readers |-> r, writers |-> w,
   total |-> t, input |-> 2, output |-> 3, pause |-> p]

SmallConfigs ==
  { Config(most, d, r, w, t, p) : most \in {2, 5}, d \in {1, 2}, r \in BOOLEAN,
                                  w \in BOOLEAN, t \in {3, 6, 7}, p \in BOOLEAN }
  \cup { [Config(2, 1, TRUE, FALSE, 6, TRUE) EXCEPT !.enabled = FALSE] }

SmallBudgets ==
  { [started |-> s, active |-> s, depth |-> d, input |-> i, output |-> 0,
     pressure |-> p, writer |-> w] :
      s \in {0, 1}, d \in {0, 1}, i \in {0, 1}, p \in BOOLEAN, w \in BOOLEAN }

\* What read_only_helper and the writers of the tests ask for, and requests of
\* a role that does not fit them.
SomeRequests ==
  { [role |-> "Helper", scope |-> "none", tools |-> FALSE],
    [role |-> "Helper", scope |-> "workspace", tools |-> TRUE],
    [role |-> "Implementer", scope |-> "workspace", tools |-> TRUE] }

-----------------------------------------------------------------------------
HelpersInit ==
  /\ Init /\ Spawns!Init
  /\ part \in {"governor", "plan"}
  /\ part = "governor" =>
       /\ policy = Spawns!PolicyOf(CHOOSE c \in Configs : TRUE)
       /\ initial = CHOOSE b \in Budgets : TRUE

HelpersNext ==
  /\ \/ part = "governor" /\ Next /\ UNCHANGED planVars
     \/ part = "plan" /\ Spawns!Next /\ UNCHANGED vars
  /\ UNCHANGED part

HelpersSpec == HelpersInit /\ [][HelpersNext]_<<part, vars, planVars>>

\* Spawns!TokensAreCapped: the tokens granted to the children stay within the
\* total.
TokensAreCapped == Spawns!TokensAreCapped
=============================================================================
