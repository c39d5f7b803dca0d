--------------------------- MODULE GithubExchange ---------------------------
(***************************************************************************)
(* What the GitHub adapter's callers may count on when they make a request:*)
(* it takes effect at most once, it is reported done only if it has taken  *)
(* effect, and it comes to an end.  A request reported as failed may have  *)
(* taken effect, or may still do so.  GithubTransport implements this.     *)
(***************************************************************************)
EXTENDS Naturals

CONSTANT Request

VARIABLES
  asked,    \* what the caller knows of each request
  effects   \* how often it has taken effect

vars == <<asked, effects>>

Init ==
  /\ asked = [q \in Request |-> "unasked"]
  /\ effects = [q \in Request |-> 0]

Ask(q) ==
  /\ asked[q] = "unasked"
  /\ asked' = [asked EXCEPT ![q] = "open"]
  /\ UNCHANGED effects

TakeEffect(q) ==
  /\ asked[q] # "unasked"
  /\ effects[q] = 0
  /\ effects' = [effects EXCEPT ![q] = 1]
  /\ UNCHANGED asked

Confirm(q) ==
  /\ asked[q] = "open"
  /\ effects[q] = 1
  /\ asked' = [asked EXCEPT ![q] = "done"]
  /\ UNCHANGED effects

Fail(q) ==
  /\ asked[q] = "open"
  /\ asked' = [asked EXCEPT ![q] = "failed"]
  /\ UNCHANGED effects

Next == \E q \in Request : Ask(q) \/ TakeEffect(q) \/ Confirm(q) \/ Fail(q)

Spec ==
  /\ Init /\ [][Next]_vars
  /\ \A q \in Request : WF_vars(Confirm(q) \/ Fail(q))
=============================================================================
