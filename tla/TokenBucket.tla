----------------------------- MODULE TokenBucket -----------------------------
(***************************************************************************)
(* Many calls of one account competing for the tokens of the API's rate    *)
(* limiter: does the retry loop's patience outlast the queue ahead of it?  *)
(*                                                                         *)
(* The limiter is known only from firezone.go:228-233: a bucket of Burst   *)
(* tokens that gains about one a second.  A Terraform run is a set of      *)
(* calls that start whenever it likes.  Messages are not lost here and a   *)
(* round trip takes no time; that is RetryCall's business.                 *)
(***************************************************************************)
EXTENDS Backoff, FiniteSets

CONSTANTS
    Calls,          \* all the requests of the run
    Burst,          \* the bucket's size (20)
    MaxRetries,     \* the client's budget (10)
    RetryMaxWait    \* the client's WithRetryMaxWait option

ASSUME CallsAssumption == IsFiniteSet(Calls)
ASSUME BurstAssumption == Burst \in Nat \ {0}
ASSUME MaxRetriesAssumption == MaxRetries \in Nat
ASSUME RetryMaxWaitAssumption ==
    /\ RetryMaxWait \in Duration
    /\ MaxRetryWait(RetryMaxWait) <= MaxInt64 - MaxRetryJitter

VARIABLES
    pc,         \* where each call is
    attempt,    \* its loop counter
    timer,      \* what is left of its wait
    tokens,     \* tokens in the bucket
    refill      \* ticks until the bucket gains a token

vars == <<pc, attempt, timer, tokens, refill>>

Init ==
    /\ pc = [c \in Calls |-> "idle"]
    /\ attempt = [c \in Calls |-> 0]
    /\ timer = [c \in Calls |-> 0]
    /\ tokens = Burst
    /\ refill = Second

Start(c) ==
    /\ pc[c] = "idle"
    /\ pc' = [pc EXCEPT ![c] = "ready"]
    /\ UNCHANGED <<attempt, timer, tokens, refill>>

\* The request reaches the server while there is a token.
Win(c) ==
    /\ pc[c] = "ready"
    /\ tokens > 0
    /\ tokens' = tokens - 1
    /\ pc' = [pc EXCEPT ![c] = "won"]
    /\ UNCHANGED <<attempt, timer, refill>>

\* Mutant: the loop has no budget.
BackOffForever(c) ==
    /\ pc[c] = "ready"
    /\ tokens = 0
    /\ \E h \in {-1, 1} :
         \E w \in RetryWait(attempt[c], ParseRetryAfter(h), RetryMaxWait) :
             timer' = [timer EXCEPT ![c] = Larger(w, 0)]
    /\ pc' = [pc EXCEPT ![c] = "backoff"]
    /\ UNCHANGED <<attempt, tokens, refill>>

\* A 429 with budget left.  Its header is missing or says when one token
\* frees up.
BackOff(c) ==
    /\ pc[c] = "ready"
    /\ tokens = 0
    /\ attempt[c] # MaxRetries
    /\ \E h \in {-1, 1} :
         \E w \in RetryWait(attempt[c], ParseRetryAfter(h), RetryMaxWait) :
             timer' = [timer EXCEPT ![c] = Larger(w, 0)]
    /\ pc' = [pc EXCEPT ![c] = "backoff"]
    /\ UNCHANGED <<attempt, tokens, refill>>

Lose(c) ==
    /\ pc[c] = "ready"
    /\ tokens = 0
    /\ attempt[c] = MaxRetries
    /\ pc' = [pc EXCEPT ![c] = "lost"]
    /\ UNCHANGED <<attempt, timer, tokens, refill>>

Retry(c) ==
    /\ pc[c] = "backoff"
    /\ timer[c] = 0
    /\ attempt' = [attempt EXCEPT ![c] = @ + 1]
    /\ pc' = [pc EXCEPT ![c] = "ready"]
    /\ UNCHANGED <<timer, tokens, refill>>

\* A full bucket spills.
Refilled == Lesser(tokens + 1, Burst)

Tick ==
    /\ timer' = [c \in Calls |-> Larger(timer[c] - 1, 0)]
    /\ IF refill = 1
       THEN refill' = Second /\ tokens' = Refilled
       ELSE refill' = refill - 1 /\ UNCHANGED tokens
    /\ UNCHANGED <<pc, attempt>>

Next ==
    \/ \E c \in Calls :
           Start(c) \/ Win(c) \/ BackOff(c) \/ Lose(c) \/ Retry(c)
    \/ Tick

Spec == Init /\ [][Next]_vars

-----------------------------------------------------------------------------

\* The tokens a wait of the curve sees arriving, as many as the bucket holds.
Gained(a) == Lesser(BaseWait(a, 0, RetryMaxWait) \div Second, Burst)

\* The tokens others must have taken when a call is throttled at attempt a.
Patience[a \in Nat] ==
    IF a = 0 THEN Burst ELSE Patience[a - 1] + Gained(a - 1)

\* The variables hold what their names say.
TypeOK ==
    /\ pc \in [Calls -> {"idle", "ready", "backoff", "won", "lost"}]
    /\ attempt \in [Calls -> 0..MaxRetries]
    /\ timer \in [Calls -> Nat]
    /\ tokens \in 0..Burst
    /\ refill \in 1..Second

(* Backing off exponentially lets a call that keeps losing the token race
   wait long enough to win (retry.go:75-80): however the calls are scheduled,
   one that exhausts its budget has been outrun by as many others as its
   waits have patience for.  In a run of no more requests than
   Patience[MaxRetries] nobody loses. *)
LosersWereOutrun ==
    \A c \in Calls : pc[c] = "lost" =>
        Cardinality({d \in Calls : pc[d] = "won"}) >= Patience[MaxRetries]

=============================================================================
