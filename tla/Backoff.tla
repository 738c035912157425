------------------------------- MODULE Backoff -------------------------------
(***************************************************************************)
(* How long the SDK sleeps between two attempts of one call: the pure      *)
(* functions of retry.go and the Retry-After parsing of errors.go.         *)
(*                                                                         *)
(* A time.Duration is an integer number of ticks.  Go counts nanoseconds   *)
(* in an int64; here Second and MaxInt64 are parameters, so that TLC can   *)
(* work with a small word that overflows in the same places.  The jitter   *)
(* is random in the code, so a wait is a set of possible durations.        *)
(***************************************************************************)
EXTENDS Integers

CONSTANTS
    Second,     \* ticks per second (10^9 in Go)
    MaxInt64,   \* the largest time.Duration (2^63 - 1 in Go)
    BailOut     \* the attempt from which the curve is not computed (30)

ASSUME SecondAssumption == Second \in Nat \ {0}
\* The default cap and the largest padding fit the word together.
ASSUME MaxInt64Assumption == MaxInt64 \in Nat /\ 32 * Second <= MaxInt64
ASSUME BailOutAssumption == BailOut \in Nat \ {0}
\* What the bail-out is for: below it the curve fits the word.
ASSUME CurveAssumption ==
    \A n \in 0..(BailOut - 1) : 2^n \in Nat \ {0} /\ 2^n * Second <= MaxInt64

Lesser(a, b) == IF a <= b THEN a ELSE b
Larger(a, b) == IF a >= b THEN a ELSE b

Duration == -(MaxInt64 + 1)..MaxInt64

\* The fields of a Client that the retry loop reads, as it needs them.
Configurations ==
    [retryEnabled : BOOLEAN, maxRetries : Nat, requestTimeout : Nat,
     retryMaxWait : Duration]

\* int64 arithmetic wraps around.
Wrap(x) == ((x + MaxInt64 + 1) % (2 * (MaxInt64 + 1))) - (MaxInt64 + 1)

DefaultMaxRetryWait == 30 * Second

MaxRetryJitter == 2 * Second

\* A Retry-After header that is absent or is not a number is any negative
\* number here.
ParseRetryAfter(seconds) ==
    IF seconds < 0 THEN 0 ELSE Wrap(seconds * Second)

\* The option's zero value, or a value below it, restores the default.
MaxRetryWait(retryMaxWait) ==
    IF retryMaxWait > 0 THEN retryMaxWait ELSE DefaultMaxRetryWait

\* Mutant: every wait is one second.
ConstantBackoff(attempt) == Second

ExponentialBackoff(attempt) ==
    IF attempt >= BailOut THEN MaxInt64 ELSE 2^attempt * Second

\* Mutant: no padding.
NoJitter(base) == {0}

\* Mutant: a padding as long as the wait.
FullJitter(base) == 0..(base - 1)

\* The paddings rand.Int64N may return on top of base.
RetryJitter(base) ==
    LET window == Lesser(base \div 2, MaxRetryJitter)
    IN  IF window <= 0 THEN {0} ELSE 0..(window - 1)

\* Mutant: the header is taken for the wait, which then never grows.
HeaderOnlyWait(attempt, retryAfter, retryMaxWait) ==
    Lesser(Larger(retryAfter, Second), MaxRetryWait(retryMaxWait))

\* Mutant: the header is ignored.
CurveOnlyWait(attempt, retryAfter, retryMaxWait) ==
    Lesser(ExponentialBackoff(attempt), MaxRetryWait(retryMaxWait))

\* The wait before its jitter.
BaseWait(attempt, retryAfter, retryMaxWait) ==
    Lesser(Larger(retryAfter, ExponentialBackoff(attempt)),
           MaxRetryWait(retryMaxWait))

\* Mutant: the padding is taken off the wait.
RetryWaitLessJitter(attempt, retryAfter, retryMaxWait) ==
    LET wait == BaseWait(attempt, retryAfter, retryMaxWait)
    IN  {Wrap(wait - j) : j \in RetryJitter(wait)}

\* Mutant: as HeaderOnlyWait, with no padding.
RetryWaitHeaderOnly(attempt, retryAfter, retryMaxWait) ==
    {HeaderOnlyWait(attempt, retryAfter, retryMaxWait)}

\* The waits retryWait may return.
RetryWait(attempt, retryAfter, retryMaxWait) ==
    LET wait == BaseWait(attempt, retryAfter, retryMaxWait)
    IN  {Wrap(wait + j) : j \in RetryJitter(wait)}

=============================================================================
