----------------------------- MODULE IssueLease -----------------------------
(***************************************************************************)
(* What the lease table promises, without clocks, heartbeats or processes: *)
(* an issue has at most one holder, a run is granted an issue once, only   *)
(* while nobody holds it, and a lease that lapsed comes back only to the   *)
(* run that had it last, as long as nobody noticed the lapse.              *)
(***************************************************************************)
CONSTANTS Issues, RunIds, None

VARIABLES
  holder,   \* the run whose lease on the issue is in force, or None
  last,     \* the run the issue was last granted to, or None
  open,     \* whether that grant can still be renewed
  granted   \* every run ever granted its issue

vars == <<holder, last, open, granted>>

Init ==
  /\ holder = [i \in Issues |-> None]
  /\ last = [i \in Issues |-> None]
  /\ open = [i \in Issues |-> FALSE]
  /\ granted = {}

\* Sets of issues whose lapse a step may notice on the way.
Lapsed == {i \in Issues : holder[i] = None}
Noticed(S) == [i \in Issues |-> open[i] /\ i \notin S]

\* Run r is granted issue i.
Acquire(i, r, S) ==
  /\ holder[i] = None
  /\ r \notin granted
  /\ holder' = [holder EXCEPT ![i] = r]
  /\ last' = [last EXCEPT ![i] = r]
  /\ open' = [Noticed(S) EXCEPT ![i] = TRUE]
  /\ granted' = granted \cup {r}

\* The last holder of i gives it up, in force or not.
GiveUp(i, S) ==
  /\ last[i] # None
  /\ holder' = [holder EXCEPT ![i] = None]
  /\ open' = [Noticed(S) EXCEPT ![i] = FALSE]
  /\ UNCHANGED <<last, granted>>

\* The lapse of some leases is noticed: they cannot be renewed any more.
Notice(S) ==
  /\ open' = Noticed(S)
  /\ UNCHANGED <<holder, last, granted>>

\* Some leases lapse.
Lapse(S) ==
  /\ holder' = [i \in Issues |-> IF i \in S THEN None ELSE holder[i]]
  /\ UNCHANGED <<last, open, granted>>

\* A lapsed lease is renewed in time.
Revive(i) ==
  /\ open[i]
  /\ holder' = [holder EXCEPT ![i] = last[i]]
  /\ UNCHANGED <<last, open, granted>>

Next ==
  \/ \E S \in SUBSET Lapsed :
       \/ \E i \in Issues, r \in RunIds : Acquire(i, r, S)
       \/ \E i \in Issues : GiveUp(i, S)
       \/ Notice(S)
  \/ \E S \in SUBSET Issues : Lapse(S)
  \/ \E i \in Issues : Revive(i)

Spec == Init /\ [][Next]_vars
=============================================================================
