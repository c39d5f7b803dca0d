--------------------------- MODULE GithubTransport --------------------------
(***************************************************************************)
(* The requests that one run makes of GitHub, one after the other:         *)
(* github_json_request with its retries, of which fetch_issue_json has a   *)
(* copy, and github_json_raw_request, which tries once.  The client, the   *)
(* wire and GitHub take steps of their own.  The wire loses what it        *)
(* carries, a request may outlive the client's wait for it, and GitHub may *)
(* fail after it has done what it was asked.  GitHub is external; that it  *)
(* does nothing when it answers 4xx is its promise.                        *)
(***************************************************************************)
EXTENDS Integers, Sequences, FiniteSets

CONSTANTS
  MaxRequests,  \* bound: how many requests the run makes
  Refusals      \* the answers of status 403 and 429 that GitHub gives:
                \*   after      the seconds of its retry-after, or None
                \*   remaining  its x-ratelimit-remaining, or None
                \*   reset      how far off its x-ratelimit-reset is, or None
                \*   secondary  whether its text speaks of a secondary limit

None == -1
MaxAttempts == 5
MaxWait == 300

ConstantsAssumption ==
  /\ MaxRequests \in Nat
  /\ \A a \in Refusals : /\ a.status \in {403, 429}
                         /\ {a.after, a.remaining, a.reset} \subseteq Nat \cup {None}
                         /\ a.secondary \in BOOLEAN

ASSUME TransportAssumption == ConstantsAssumption

Request == 1 .. MaxRequests

VARIABLES
  pc,        \* of the client: "idle", "sending", "waiting", "answered"
  number,    \* the current request, numbered in the order they are made,
  retries,   \*   whether it is one that is tried again,
  attempt,   \*   its attempt, from 0,
  answer,    \*   the answer to that attempt,
  events,    \*   and the attempts that were refused (rate_events)
  wire,      \* <<request, attempt>> under way to GitHub
  effects,   \* how often GitHub has done each request
  outcome,   \* what each request returned: "none", "ok" or "error"
  ledger     \* github_rate_limit_events.jsonl of the run's artifacts

client == <<pc, number, retries, attempt, answer, events>>
vars == <<client, wire, effects, outcome, ledger>>

Plain(status) ==
  [status |-> status, after |-> None, remaining |-> None, reset |-> None, secondary |-> FALSE]
Success == Plain(200)

Init ==
  /\ pc = "idle" /\ number = 0 /\ retries = TRUE /\ attempt = 0 /\ answer = Success /\ events = {}
  /\ wire = {}
  /\ effects = [q \in Request |-> 0]
  /\ outcome = [q \in Request |-> "none"]
  /\ ledger = {}

-----------------------------------------------------------------------------
\* The seconds to wait before another attempt, None if there is to be none.

Backoff(n) == 60 * (IF n < 4 THEN 2^n ELSE 16)

\* Mutant: a fault of GitHub is tried again too.
RetriesFaults(a, n) ==
  IF a.status \in {403, 429, 502} THEN Backoff(n) ELSE None
RetryDecision(a, n) ==
  IF a.status \notin {403, 429}            THEN None
  ELSE IF a.after # None                   THEN a.after
  ELSE IF a.remaining = 0                  THEN IF a.reset = None THEN 60 ELSE a.reset
  ELSE IF a.status = 429 \/ a.secondary    THEN Backoff(n)
  ELSE None

-----------------------------------------------------------------------------
\* The client.

Begin(again) ==
  /\ pc = "idle" /\ number < MaxRequests
  /\ pc' = "sending" /\ number' = number + 1 /\ retries' = again /\ attempt' = 0 /\ events' = {}
  /\ UNCHANGED <<answer, wire, effects, outcome, ledger>>

Send ==
  /\ pc = "sending"
  /\ pc' = "waiting"
  /\ wire' = wire \cup {<<number, attempt>>}
  /\ UNCHANGED <<number, retries, attempt, answer, events, effects, outcome, ledger>>

Return(result) ==
  /\ pc' = "idle"
  /\ outcome' = [outcome EXCEPT ![number] = result]

\* send() or text() fails, after 30 seconds at the latest: `?`, and nothing is
\* written.
SendFails ==
  /\ pc = "waiting"
  /\ Return("error")
  /\ UNCHANGED <<number, retries, attempt, answer, events, wire, effects, ledger>>

\* write_github_rate_limit_artifacts replaces what an earlier request wrote.
WriteLedger(es) == ledger' = IF es = {} THEN ledger ELSE {<<number, n>> : n \in es}

Decided == IF retries THEN RetryDecision(answer, attempt) ELSE None

\* The answer refuses: the attempt is an event, and the client sleeps and
\* tries again.
Retry ==
  /\ pc = "answered" /\ Decided # None /\ Decided <= MaxWait /\ attempt + 1 < MaxAttempts
  /\ pc' = "sending" /\ attempt' = attempt + 1
  /\ events' = events \cup {attempt}
  /\ UNCHANGED <<number, retries, answer, wire, effects, outcome, ledger>>

\* The last attempt is refused, or the wait would be too long.
GiveUp ==
  /\ pc = "answered" /\ Decided # None
  /\ attempt + 1 >= MaxAttempts \/ Decided > MaxWait
  /\ events' = events \cup {attempt}
  /\ WriteLedger(events')
  /\ Return("error")
  /\ UNCHANGED <<number, retries, attempt, answer, wire, effects>>

\* Any other answer: the artifacts are written and the body is parsed.
Succeeded(a) == a.status \in 200 .. 299

Finish ==
  /\ pc = "answered" /\ Decided = None
  /\ \/ Succeeded(answer) /\ Return("ok") /\ WriteLedger(events)
     \/ ~Succeeded(answer) /\ Return("error") /\ WriteLedger(events)
     \/ Return("error") /\ (UNCHANGED ledger \/ WriteLedger(events))   \* a write or the parser fails
  /\ UNCHANGED <<number, retries, attempt, answer, events, wire, effects>>

-----------------------------------------------------------------------------
\* GitHub and the wire (external).

\* An answer reaches the client if it still waits for it.
Reply(m, a) ==
  IF pc = "waiting" /\ m = <<number, attempt>>
  THEN pc' = "answered" /\ answer' = a
  ELSE UNCHANGED <<pc, answer>>

Perform(m, a) ==
  /\ m \in wire /\ wire' = wire \ {m}
  /\ effects' = [effects EXCEPT ![m[1]] = @ + 1]
  /\ Reply(m, a)
  /\ UNCHANGED <<number, retries, attempt, events, outcome, ledger>>

Turned(m, a) ==
  /\ m \in wire /\ wire' = wire \ {m}
  /\ Reply(m, a)
  /\ UNCHANGED <<number, retries, attempt, events, effects, outcome, ledger>>

Lose(m) ==
  /\ m \in wire /\ wire' = wire \ {m}
  /\ UNCHANGED <<client, effects, outcome, ledger>>

Github ==
  \E m \in wire :
    \/ \E a \in {Success, Plain(502)} : Perform(m, a)
    \/ \E a \in Refusals \cup {Plain(422), Plain(502)} : Turned(m, a)
    \/ Lose(m)

Step == Send \/ Retry \/ GiveUp \/ Finish

Next == \/ \E again \in BOOLEAN : Begin(again)
        \/ Step
        \/ SendFails
        \/ Github

\* The client runs, and its timeout of 30 seconds ends a wait for an answer.
Spec == Init /\ [][Next]_vars /\ WF_vars(Step) /\ WF_vars(SendFails)

-----------------------------------------------------------------------------
Asked(q) ==
  IF q > number                   THEN "unasked"
  ELSE IF outcome[q] = "ok"       THEN "done"
  ELSE IF outcome[q] = "error"    THEN "failed"
  ELSE "open"

Exchange == INSTANCE GithubExchange WITH asked <- [q \in Request |-> Asked(q)]

\* A request of the adapter is an exchange: however often it is tried, refused,
\* lost or answered too late, it takes effect at most once, Ok is returned only
\* for what GitHub has done, and the caller gets an answer.
ImplementsExchange == Exchange!Spec
=============================================================================
