----------------------------- MODULE RetryBudget -----------------------------
(***************************************************************************)
(* One call of requestWithRetry against a server that throttles it every   *)
(* time: how many attempts the default budget buys and how long the call   *)
(* waits in all.  The round trip of an attempt is RetryCall's business;    *)
(* here an attempt is only its 429 and the Retry-After header it carries.  *)
(***************************************************************************)
EXTENDS Backoff

CONSTANTS
    MaxWaits,   \* the values of WithRetryMaxWait tried
    Headers     \* the Retry-After headers the server sends (-1: unreadable)

ASSUME MaxWaitsAssumption == MaxWaits \subseteq Duration
ASSUME HeadersAssumption == Headers \subseteq -1..MaxInt64

VARIABLES
    retryMaxWait,   \* the client's option
    attempts,       \* requests sent so far
    header,         \* the header of the last 429
    wait,           \* the last wait slept
    waited          \* the sum of the waits

budgetVars == <<retryMaxWait, attempts, header, wait, waited>>

DefaultMaxRetries == 10

BudgetInit ==
    /\ retryMaxWait \in MaxWaits
    /\ attempts = 0
    /\ header = -1
    /\ wait = 0
    /\ waited = 0

\* Mutant: the budget is not looked at.
ThrottledAndRetriedForever ==
    /\ \E h \in Headers :
         \E w \in RetryWait(attempts, ParseRetryAfter(h), retryMaxWait) :
           /\ header' = h
           /\ wait' = w
           /\ waited' = waited + Larger(w, 0)
    /\ attempts' = attempts + 1
    /\ UNCHANGED retryMaxWait

\* The attempt of number attempts (the code counts from 0) is throttled with
\* budget left: the call sleeps.  A negative wait returns at once.
ThrottledAndRetried ==
    /\ attempts < DefaultMaxRetries
    /\ \E h \in Headers :
         \E w \in RetryWait(attempts, ParseRetryAfter(h), retryMaxWait) :
           /\ header' = h
           /\ wait' = w
           /\ waited' = waited + Larger(w, 0)
    /\ attempts' = attempts + 1
    /\ UNCHANGED retryMaxWait

\* The last attempt of the budget is throttled too: the caller gets the 429.
ThrottledAndReturned ==
    /\ attempts = DefaultMaxRetries
    /\ attempts' = attempts + 1
    /\ UNCHANGED <<retryMaxWait, header, wait, waited>>

BudgetNext == ThrottledAndRetried \/ ThrottledAndReturned

BudgetSpec == BudgetInit /\ [][BudgetNext]_budgetVars

-----------------------------------------------------------------------------

Cap == MaxRetryWait(retryMaxWait)

\* A cap near the top of the word leaves no room for the padding on top.
CapLeavesRoom == Cap <= MaxInt64 - MaxRetryJitter

\* seconds * time.Second fits the word.
HeaderFits(h) == h * Second <= MaxInt64

Asked(h) == Larger(h, 0) * Second

\* The variables hold durations and counts of the call.
BudgetTypeOK ==
    /\ retryMaxWait \in MaxWaits
    /\ attempts \in 0..(DefaultMaxRetries + 1)
    /\ header \in Headers \cup {-1}
    /\ wait \in Duration
    /\ waited \in Nat

(* Retry-After is a floor: the call never sleeps less than the server asked,
   as far as the cap lets it (retryWait: the padding is added, never
   subtracted, and a header above the cap still gets the whole cap). *)
CappedFloor ==
    attempts > 0 /\ CapLeavesRoom /\ HeaderFits(header)
        => wait >= Lesser(Asked(header), Cap)

(* No wait overruns the cap by more than the padding: at most half as much
   again, and at most two seconds (retry_test.go:228 allows the same). *)
CapPlusJitter ==
    CapLeavesRoom => /\ wait <= Cap + MaxRetryJitter
                     /\ 2 * wait <= 3 * Cap

(* firezone.go:236: the default budget covers more than two minutes of
   sustained throttling before the 429 reaches the caller, whatever headers
   come with it. *)
BudgetCoversTwoMinutes ==
    attempts > DefaultMaxRetries /\ CapLeavesRoom /\ Cap >= DefaultMaxRetryWait
        => waited >= 120 * Second

(* Two callers throttled at the same attempt with the same header can always
   sleep for different durations (retry.go:18-23), once a second is divided
   finely enough for a padding to exist. *)
HerdSpreads ==
    \A h \in Headers :
        LET waits == RetryWait(attempts, ParseRetryAfter(h), retryMaxWait)
        IN  \E w1, w2 \in waits : w1 # w2

(* Waits escalate: unless an earlier header asked for more than the curve,
   every wait is longer than the one before until the cap is reached
   (retry_test.go:193-217). *)
EscalatesUntilCapped ==
    [][/\ attempts > 0 /\ attempts' <= DefaultMaxRetries
       /\ CapLeavesRoom
       /\ HeaderFits(header) /\ HeaderFits(header')
       /\ Asked(header) <= ExponentialBackoff(attempts - 1)
       => wait' > wait \/ wait' >= Cap]_budgetVars

-----------------------------------------------------------------------------
(* What the documentation says and the code does not do. *)

\* firezone.go:244: waits "never drop below the response's Retry-After".
RetryAfterIsAFloor ==
    attempts > 0 /\ HeaderFits(header) => wait >= Asked(header)

\* firezone.go:264: WithRetryMaxWait "caps how long any single retry waits".
MaxWaitIsACap == CapLeavesRoom => wait <= Cap

\* README.md:199: "10 attempts by default".
TenAttempts == attempts <= 10

=============================================================================
