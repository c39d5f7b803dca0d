---------------------------- MODULE MCConfinedRun ----------------------------
\* ConfinedRun on a small instance.
EXTENDS ConfinedRun

CONSTANTS c1, c2, c3, w, h

Amt(n, s) == [number |-> n, suffix |-> s]
Strictly(high, max, rlimit) ==
  [enabled |-> TRUE, mode |-> "strict", cgroup_v2_required |-> TRUE, psi_required |-> FALSE,
   high |-> high, max |-> max, rlimit |-> rlimit]

\* Limits that are enforced, are only observed, do not fit 64 bits, and one that
\* the runtime's own parser does not know.
SomeSettings ==
  { Strictly(Amt(2, "k"), [max |-> TRUE], [off |-> TRUE]),
    [Strictly(Amt(2, "k"), Amt(1, "m"), Amt(3, "b")) EXCEPT !.mode = "observe_only"],
    Strictly(Amt(2, "k"), Amt(3, "t"), [off |-> TRUE]),
    Strictly(Amt(2, "k"), Amt(1, "m"), Amt(1, "t")) }
SomeHosts ==
  { [cgroup_v2 |-> TRUE, psi_memory |-> FALSE, mounted |-> TRUE],
    [cgroup_v2 |-> TRUE, psi_memory |-> TRUE, mounted |-> FALSE],
    [cgroup_v2 |-> FALSE, psi_memory |-> FALSE, mounted |-> TRUE] }
=============================================================================
