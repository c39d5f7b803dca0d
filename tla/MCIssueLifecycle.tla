-------------------------- MODULE MCIssueLifecycle --------------------------
\* IssueLifecycle on small instances.
EXTENDS IssueLifecycle, TLC

CONSTANTS r1, r2, c1, c2

Perms == Permutations({r1, r2}) \cup Permutations({c1, c2})
=============================================================================
