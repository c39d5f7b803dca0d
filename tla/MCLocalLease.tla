---------------------------- MODULE MCLocalLease ----------------------------
\* LocalLease on small instances.
EXTENDS LocalLease, TLC

CONSTANTS p1, p2, i1

\* Two processes contend for one issue.
OneIssue == [p \in Proc |-> i1]

\* The contenders for one issue are interchangeable.
Perms == Permutations({p1, p2})
=============================================================================
