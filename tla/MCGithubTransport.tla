------------------------- MODULE MCGithubTransport -------------------------
(***************************************************************************)
(* Instance of GithubTransport: two requests, and one refusal for each way *)
(* that github_retry_decision can go.                                      *)
(***************************************************************************)
EXTENDS GithubTransport

Refusal(status, after, remaining, reset, secondary) ==
  [status |-> status, after |-> after, remaining |-> remaining, reset |-> reset,
   secondary |-> secondary]

MCRefusals == {
  Refusal(403, None, None, None, FALSE),   \* forbidden, no limit
  Refusal(403, 5, 0, 400, FALSE),          \* retry-after shorter than the reset
  Refusal(429, 301, None, None, FALSE),    \* too long a wait
  Refusal(403, None, 0, 300, FALSE),       \* primary limit, just short enough
  Refusal(403, None, 0, 301, FALSE),       \* primary limit
  Refusal(429, None, 0, None, FALSE),      \* primary limit, no reset told
  Refusal(429, None, 7, None, FALSE),      \* too many requests
  Refusal(403, None, None, None, TRUE) }   \* secondary limit
=============================================================================
