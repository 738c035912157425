--------------------------- MODULE ThrottlingProofs ---------------------------
(***************************************************************************)
(* What throttling costs, for every word size, tick, option and header: a  *)
(* call of RetryBudget is throttled every time, and the calls of           *)
(* TokenBucket compete for the tokens of the rate limiter.                 *)
(***************************************************************************)
EXTENDS RetryBudget, TokenBucket, BackoffProofs, FiniteSetTheorems,
        WellFoundedInduction

-----------------------------------------------------------------------------
(* RetryBudget: the floor and the bound on every wait of a throttled call, how
   its waits grow and add up, and that two calls' waits may differ. *)

\* What a server can write into Retry-After parses to a Duration, and to the
\* time it names when that fits the word (errors.go:97-106).
LEMMA ParseRetryAfterType ==
    ASSUME NEW h \in -1..MaxInt64
    PROVE  /\ ParseRetryAfter(h) \in Duration
           /\ HeaderFits(h) => ParseRetryAfter(h) = Asked(h)
  <1>1. h * Second \in Int /\ (h >= 0 => h * Second >= 0)
    BY SecondAssumption, MaxInt64Assumption
  <1>2. CASE h < 0
    BY <1>2, SecondAssumption, MaxInt64Assumption
       DEF ParseRetryAfter, Asked, Larger, Duration
  <1>3. CASE ~(h < 0)
    <2>1. ParseRetryAfter(h) = Wrap(h * Second)
      BY <1>3 DEF ParseRetryAfter
    <2>2. ParseRetryAfter(h) \in Duration
      BY <1>1, <2>1, WrapType
    <2>3. ASSUME HeaderFits(h) PROVE ParseRetryAfter(h) = Asked(h)
      <3>1. h * Second \in Duration
        BY <1>1, <1>3, <2>3, MaxInt64Assumption DEF HeaderFits, Duration
      <3>2. Larger(h, 0) = h
        BY <1>3, MaxInt64Assumption DEF Larger
      <3> QED BY <2>1, <3>1, <3>2, WrapFits DEF Asked
    <2> QED BY <2>2, <2>3
  <1> QED BY <1>2, <1>3

\* Waits are durations, whatever the header and the option make of them; the
\* call gives up after its budget (retry.go:58-66).
THEOREM RetryBudgetTypeCorrect == BudgetSpec => []BudgetTypeOK
  <1>1. BudgetInit => BudgetTypeOK
    BY MaxInt64Assumption DEF BudgetInit, BudgetTypeOK, DefaultMaxRetries, Duration
  <1>2. BudgetTypeOK /\ [BudgetNext]_budgetVars => BudgetTypeOK'
    <2> SUFFICES ASSUME BudgetTypeOK, [BudgetNext]_budgetVars PROVE BudgetTypeOK'
      OBVIOUS
    <2> USE DEF BudgetTypeOK
    <2>1. CASE ThrottledAndRetried
      <3>1. PICK h \in Headers :
              \E w \in RetryWait(attempts, ParseRetryAfter(h), retryMaxWait) :
                 header' = h /\ wait' = w /\ waited' = waited + Larger(w, 0)
        BY <2>1 DEF ThrottledAndRetried
      <3>2. ParseRetryAfter(h) \in Duration /\ retryMaxWait \in Duration
        BY ParseRetryAfterType, HeadersAssumption, MaxWaitsAssumption
      <3>3. wait' \in Duration /\ waited' = waited + Larger(wait', 0)
        BY <3>1, <3>2, RetryWaitType DEF DefaultMaxRetries
      <3>4. waited' \in Nat
        <4>1. wait' \in Int
          BY <3>3, MaxInt64Assumption DEF Duration
        <4>2. Larger(wait', 0) \in Nat
          BY <4>1 DEF Larger
        <4> QED BY <3>3, <4>2
      <3> QED
        BY <2>1, <3>1, <3>3, <3>4 DEF ThrottledAndRetried, DefaultMaxRetries
    <2>2. CASE ThrottledAndReturned
      BY <2>2 DEF ThrottledAndReturned, DefaultMaxRetries
    <2>3. CASE UNCHANGED budgetVars
      BY <2>3 DEF budgetVars
    <2> QED BY <2>1, <2>2, <2>3 DEF BudgetNext
  <1> QED BY <1>1, <1>2, PTL DEF BudgetSpec

\* The last wait is the one that retryWait computed for the last attempt and
\* its header.
LastAttempt == Lesser(attempts, DefaultMaxRetries) - 1

WaitWasComputed ==
    attempts > 0 =>
        /\ header \in Headers
        /\ wait \in RetryWait(LastAttempt, ParseRetryAfter(header), retryMaxWait)

LEMMA WaitsAreComputed == BudgetSpec => []WaitWasComputed
  <1>1. BudgetInit => WaitWasComputed
    BY DEF BudgetInit, WaitWasComputed
  <1>2. BudgetTypeOK /\ WaitWasComputed /\ [BudgetNext]_budgetVars => WaitWasComputed'
    <2> SUFFICES ASSUME BudgetTypeOK, WaitWasComputed, [BudgetNext]_budgetVars
                 PROVE  WaitWasComputed'
      OBVIOUS
    <2>1. CASE ThrottledAndRetried
      <3>1. attempts \in Nat /\ attempts' = attempts + 1 /\ LastAttempt' = attempts
        BY <2>1 DEF ThrottledAndRetried, BudgetTypeOK, LastAttempt, Lesser,
                    DefaultMaxRetries
      <3> QED BY <2>1, <3>1 DEF ThrottledAndRetried, WaitWasComputed
    <2>2. CASE ThrottledAndReturned
      <3>1. LastAttempt' = LastAttempt /\ attempts > 0
        BY <2>2 DEF ThrottledAndReturned, BudgetTypeOK, LastAttempt, Lesser,
                    DefaultMaxRetries
      <3> QED BY <2>2, <3>1 DEF ThrottledAndReturned, WaitWasComputed
    <2>3. CASE UNCHANGED budgetVars
      BY <2>3 DEF budgetVars, WaitWasComputed, LastAttempt
    <2> QED BY <2>1, <2>2, <2>3 DEF BudgetNext
  <1> QED BY <1>1, <1>2, RetryBudgetTypeCorrect, PTL DEF BudgetSpec

\* A wait retryWait computed keeps both bounds.
LEMMA ComputedWaitIsBounded ==
    ASSUME BudgetTypeOK, WaitWasComputed, attempts > 0, CapLeavesRoom
    PROVE  /\ HeaderFits(header) => wait >= Lesser(Asked(header), Cap)
           /\ wait <= Cap + MaxRetryJitter
           /\ 2 * wait <= 3 * Cap
  <1>1. LastAttempt \in Nat
    BY DEF LastAttempt, Lesser, BudgetTypeOK, DefaultMaxRetries
  <1>2. header \in -1..MaxInt64 /\ retryMaxWait \in Duration
    BY HeadersAssumption, MaxWaitsAssumption DEF WaitWasComputed, BudgetTypeOK
  <1>3. /\ ParseRetryAfter(header) \in Duration
        /\ HeaderFits(header) => ParseRetryAfter(header) = Asked(header)
    BY <1>2, ParseRetryAfterType
  <1> QED
    BY <1>1, <1>2, <1>3, RetryWaitBounds DEF WaitWasComputed, CapLeavesRoom, Cap

\* Retry-After is a floor as far as the cap lets it, with any header and any
\* cap that leaves room for the padding.
THEOREM RetryAfterFloor == BudgetSpec => []CappedFloor
  <1>1. BudgetTypeOK /\ WaitWasComputed => CappedFloor
    BY ComputedWaitIsBounded DEF CappedFloor
  <1> QED BY <1>1, RetryBudgetTypeCorrect, WaitsAreComputed, PTL

\* Nothing the server sends makes the client sleep longer than its cap and
\* the padding; before the first 429 it has not slept at all.
NotSleptYet == attempts = 0 => wait = 0

THEOREM WaitBounded == BudgetSpec => []CapPlusJitter
  <1>1. BudgetInit => NotSleptYet
    BY DEF BudgetInit, NotSleptYet
  <1>2. BudgetTypeOK /\ NotSleptYet /\ [BudgetNext]_budgetVars => NotSleptYet'
    BY DEF BudgetTypeOK, NotSleptYet, BudgetNext, budgetVars, ThrottledAndRetried,
           ThrottledAndReturned, DefaultMaxRetries
  <1>3. BudgetTypeOK /\ WaitWasComputed /\ NotSleptYet => CapPlusJitter
    <2> SUFFICES ASSUME BudgetTypeOK, WaitWasComputed, NotSleptYet, CapLeavesRoom
                 PROVE  wait <= Cap + MaxRetryJitter /\ 2 * wait <= 3 * Cap
      BY DEF CapPlusJitter
    <2>1. CASE attempts > 0
      BY <2>1, ComputedWaitIsBounded
    <2>2. CASE attempts = 0
      <3>1. Cap \in 1..MaxInt64 /\ MaxRetryJitter \in Nat
        BY MaxRetryWaitType, MaxWaitsAssumption, SecondAssumption
           DEF Cap, BudgetTypeOK, MaxRetryJitter
      <3> QED BY <2>2, <3>1, MaxInt64Assumption DEF NotSleptYet
    <2> QED BY <2>1, <2>2 DEF BudgetTypeOK, DefaultMaxRetries
  <1> QED
    BY <1>1, <1>2, <1>3, RetryBudgetTypeCorrect, WaitsAreComputed, PTL
       DEF BudgetSpec

-----------------------------------------------------------------------------
(* The waits of one call grow, and add up. *)

\* The powers the curve takes within the budget.
LEMMA Powers ==
    ASSUME NEW a
    PROVE  /\ a = 0 => 2^a = 1
           /\ a = 1 => 2^a = 2
           /\ a = 2 => 2^a = 4
           /\ a = 3 => 2^a = 8
           /\ a = 4 => 2^a = 16
           /\ a = 5 => 2^a = 32
           /\ a = 6 => 2^a = 64
           /\ a = 7 => 2^a = 128
           /\ a = 8 => 2^a = 256
           /\ a = 9 => 2^a = 512
           /\ a = 10 => 2^a = 1024
  <1>1. a = 0 => 2^a = 1
    OBVIOUS
  <1>2. a = 1 => 2^a = 2
    OBVIOUS
  <1>3. a = 2 => 2^a = 4
    OBVIOUS
  <1>4. a = 3 => 2^a = 8
    OBVIOUS
  <1>5. a = 4 => 2^a = 16
    OBVIOUS
  <1>6. a = 5 => 2^a = 32
    OBVIOUS
  <1>7. a = 6 => 2^a = 64
    OBVIOUS
  <1>8. a = 7 => 2^a = 128
    OBVIOUS
  <1>9. a = 8 => 2^a = 256
    OBVIOUS
  <1>10. a = 9 => 2^a = 512
    OBVIOUS
  <1>11. a = 10 => 2^a = 1024
    OBVIOUS
  <1> QED
    BY <1>1, <1>2, <1>3, <1>4, <1>5, <1>6, <1>7, <1>8, <1>9, <1>10, <1>11

\* Within the budget the curve doubles, or has left the word.
LEMMA CurveDoubles ==
    ASSUME NEW a \in 1..DefaultMaxRetries
    PROVE  \/ ExponentialBackoff(a) = MaxInt64
           \/ ExponentialBackoff(a) = 2 * ExponentialBackoff(a - 1)
  <1>1. 2^a = 2 * 2^(a - 1) /\ 2^(a - 1) \in Nat
    <2> DEFINE p == 2^a
               q == 2^(a - 1)
    <2>1. a \in {1, 2, 3, 4, 5, 6, 7, 8, 9, 10}
      BY DEF DefaultMaxRetries
    <2>2. /\ (a = 1 => p = 2) /\ (a = 2 => p = 4) /\ (a = 3 => p = 8)
          /\ (a = 4 => p = 16) /\ (a = 5 => p = 32) /\ (a = 6 => p = 64)
          /\ (a = 7 => p = 128) /\ (a = 8 => p = 256) /\ (a = 9 => p = 512)
          /\ (a = 10 => p = 1024)
      BY Powers
    <2>3. /\ (a - 1 = 0 => q = 1) /\ (a - 1 = 1 => q = 2) /\ (a - 1 = 2 => q = 4)
          /\ (a - 1 = 3 => q = 8) /\ (a - 1 = 4 => q = 16) /\ (a - 1 = 5 => q = 32)
          /\ (a - 1 = 6 => q = 64) /\ (a - 1 = 7 => q = 128) /\ (a - 1 = 8 => q = 256)
          /\ (a - 1 = 9 => q = 512)
      BY Powers
    <2> HIDE DEF p, q
    <2>4. p = 2 * q /\ q \in Nat
      BY <2>1, <2>2, <2>3
    <2> QED BY <2>4 DEF p, q
  <1>2. \A k \in Nat : (2 * k) * Second = 2 * (k * Second)
    BY SecondAssumption
  <1>3. a >= BailOut \/ (~(a >= BailOut) /\ ~(a - 1 >= BailOut))
    BY BailOutAssumption DEF DefaultMaxRetries
  <1> QED BY <1>1, <1>2, <1>3 DEF ExponentialBackoff

\* A wait after one that no header lengthened is longer, or the whole cap.
LEMMA NextWaitIsLonger ==
    ASSUME NEW a \in 1..DefaultMaxRetries, NEW m \in Duration,
           MaxRetryWait(m) <= MaxInt64 - MaxRetryJitter,
           NEW asked \in Duration, asked <= ExponentialBackoff(a - 1),
           NEW after \in Duration,
           NEW w \in RetryWait(a - 1, asked, m), NEW v \in RetryWait(a, after, m)
    PROVE  v > w \/ v >= MaxRetryWait(m)
  <1> DEFINE base == BaseWait(a - 1, asked, m)
             cap == MaxRetryWait(m)
             curve == ExponentialBackoff(a - 1)
  <1>1. a \in Nat /\ a - 1 \in Nat
    BY DEF DefaultMaxRetries
  <1>2. w \in Nat /\ 2 * w <= 3 * base /\ base \in 1..MaxInt64
    BY <1>1, RetryWaitAroundBase, BaseWaitBounds
  <1>3. v \in Nat /\ v >= Lesser(ExponentialBackoff(a), cap)
    BY <1>1, RetryWaitBounds
  <1>4. curve \in 1..MaxInt64 /\ cap \in 1..MaxInt64
    BY <1>1, ExponentialBackoffType, MaxRetryWaitType
  <1>5. base <= curve
    BY <1>4, MaxInt64Assumption DEF BaseWait, Lesser, Larger, Duration
  <1>6. ExponentialBackoff(a) = MaxInt64 \/ ExponentialBackoff(a) = 2 * curve
    BY CurveDoubles
  <1> HIDE DEF base, curve, cap
  <1>7. v > w \/ v >= cap
    BY <1>2, <1>3, <1>4, <1>5, <1>6, MaxInt64Assumption DEF Lesser
  <1> QED BY <1>7 DEF cap

\* Unless an earlier header asked for more than the curve, every wait is longer
\* than the one before until the cap is reached (retry_test.go:193-217), for any
\* option and any headers.
THEOREM WaitsEscalate == BudgetSpec => EscalatesUntilCapped
  <1> DEFINE A == /\ attempts > 0 /\ attempts' <= DefaultMaxRetries
                  /\ CapLeavesRoom
                  /\ HeaderFits(header) /\ HeaderFits(header')
                  /\ Asked(header) <= ExponentialBackoff(attempts - 1)
                  => wait' > wait \/ wait' >= Cap
  <1>1. BudgetTypeOK /\ WaitWasComputed /\ [BudgetNext]_budgetVars => [A]_budgetVars
    <2> SUFFICES ASSUME BudgetTypeOK, WaitWasComputed, BudgetNext,
                        attempts > 0, attempts' <= DefaultMaxRetries, CapLeavesRoom,
                        HeaderFits(header),
                        Asked(header) <= ExponentialBackoff(attempts - 1)
                 PROVE  wait' > wait \/ wait' >= Cap
      OBVIOUS
    <2>1. ThrottledAndRetried
      BY DEF BudgetNext, ThrottledAndReturned, BudgetTypeOK, DefaultMaxRetries
    <2>2. /\ attempts \in 1..DefaultMaxRetries /\ LastAttempt = attempts - 1
          /\ attempts < DefaultMaxRetries
      BY <2>1 DEF ThrottledAndRetried, BudgetTypeOK, LastAttempt, Lesser, DefaultMaxRetries
    <2>3. /\ wait \in RetryWait(attempts - 1, ParseRetryAfter(header), retryMaxWait)
          /\ header \in -1..MaxInt64 /\ retryMaxWait \in Duration
      BY <2>2, HeadersAssumption, MaxWaitsAssumption DEF WaitWasComputed, BudgetTypeOK
    <2>4. PICK h \in Headers :
              wait' \in RetryWait(attempts, ParseRetryAfter(h), retryMaxWait)
      BY <2>1 DEF ThrottledAndRetried
    <2>5. /\ ParseRetryAfter(h) \in Duration /\ ParseRetryAfter(header) \in Duration
          /\ ParseRetryAfter(header) = Asked(header)
      BY <2>3, ParseRetryAfterType, HeadersAssumption
    <2> QED
      BY <2>2, <2>3, <2>4, <2>5, NextWaitIsLonger DEF CapLeavesRoom, Cap
  <1> HIDE DEF A
  <1>2. BudgetSpec => [][A]_budgetVars
    BY <1>1, RetryBudgetTypeCorrect, WaitsAreComputed, PTL DEF BudgetSpec
  <1> QED BY <1>2, PTL DEF EscalatesUntilCapped, A

\* What n waits add up to at least, in seconds, with the default cap or more: 1,
\* 2, 4, 8 and 16, and then 30 each.
SecondsAfter(n) == IF n <= 5 THEN 2^n - 1 ELSE 31 + 30 * (n - 5)

CoveredSoFar ==
    CapLeavesRoom /\ Cap >= DefaultMaxRetryWait
        => waited >= SecondsAfter(Lesser(attempts, DefaultMaxRetries)) * Second

\* Each wait of the budget makes up its part.
LEMMA SecondsAdded ==
    ASSUME NEW a \in 0..9
    PROVE  /\ SecondsAfter(a) \in Nat /\ SecondsAfter(a + 1) \in Nat
           /\ SecondsAfter(a + 1) - SecondsAfter(a) \in 0..30
           /\ SecondsAfter(a + 1) - SecondsAfter(a) <= 2^a
           /\ 2^a \in Nat
  <1> DEFINE p == 2^a
             q == 2^(a + 1)
  <1>1. a \in {0, 1, 2, 3, 4, 5, 6, 7, 8, 9}
    OBVIOUS
  <1>2. /\ (a = 0 => p = 1) /\ (a = 1 => p = 2) /\ (a = 2 => p = 4)
        /\ (a = 3 => p = 8) /\ (a = 4 => p = 16) /\ (a = 5 => p = 32)
        /\ (a = 6 => p = 64) /\ (a = 7 => p = 128) /\ (a = 8 => p = 256)
        /\ (a = 9 => p = 512)
    BY Powers
  <1>3. /\ (a + 1 = 1 => q = 2) /\ (a + 1 = 2 => q = 4) /\ (a + 1 = 3 => q = 8)
        /\ (a + 1 = 4 => q = 16) /\ (a + 1 = 5 => q = 32)
    BY Powers
  <1>4. /\ SecondsAfter(a) = IF a <= 5 THEN p - 1 ELSE 31 + 30 * (a - 5)
        /\ SecondsAfter(a + 1) =
               IF a + 1 <= 5 THEN q - 1 ELSE 31 + 30 * ((a + 1) - 5)
    BY DEF SecondsAfter
  <1> HIDE DEF p, q
  <1>5. /\ SecondsAfter(a) \in Nat /\ SecondsAfter(a + 1) \in Nat
        /\ SecondsAfter(a + 1) - SecondsAfter(a) \in 0..30
        /\ SecondsAfter(a + 1) - SecondsAfter(a) <= p
        /\ p \in Nat
    BY <1>1, <1>2, <1>3, <1>4
  <1> QED BY <1>5 DEF p

LEMMA WaitCovers ==
    ASSUME NEW a \in 0..(DefaultMaxRetries - 1), NEW m \in Duration,
           MaxRetryWait(m) <= MaxInt64 - MaxRetryJitter,
           MaxRetryWait(m) >= DefaultMaxRetryWait,
           NEW after \in Duration, NEW w \in RetryWait(a, after, m)
    PROVE  /\ w \in Nat
           /\ w >= (SecondsAfter(a + 1) - SecondsAfter(a)) * Second
  <1> DEFINE k == SecondsAfter(a + 1) - SecondsAfter(a)
             curve == ExponentialBackoff(a)
             cap == MaxRetryWait(m)
  <1>1. a \in Nat /\ a \in 0..9
    BY DEF DefaultMaxRetries
  <1>2. w \in Nat /\ w >= Lesser(curve, cap)
    BY <1>1, RetryWaitBounds
  <1>3. cap \in 1..MaxInt64 /\ curve \in 1..MaxInt64 /\ cap >= 30 * Second
    BY <1>1, MaxRetryWaitType, ExponentialBackoffType DEF DefaultMaxRetryWait
  <1>4. k \in 0..30 /\ k <= 2^a /\ 2^a \in Nat
    BY <1>1, SecondsAdded
  <1>5. curve = MaxInt64 \/ curve = 2^a * Second
    BY DEF ExponentialBackoff
  <1> DEFINE p == 2^a
  <1>6. k \in 0..30 /\ k <= p /\ p \in Nat /\ (curve = MaxInt64 \/ curve = p * Second)
    BY <1>4, <1>5
  <1> HIDE DEF k, curve, cap, p
  <1>7. /\ k * Second \in Nat
        /\ k * Second <= 30 * Second
        /\ k * Second <= p * Second
        /\ p * Second \in Nat
    <2>1. \A i, j, n \in Nat : i <= j => i * n <= j * n /\ i * n \in Nat /\ j * n \in Nat
      OBVIOUS
    <2>2. k \in Nat /\ k <= 30 /\ 30 \in Nat
      BY <1>6
    <2> QED BY <1>6, <2>1, <2>2, SecondAssumption
  <1>8. w >= k * Second
    BY <1>2, <1>3, <1>6, <1>7, MaxInt64Assumption, SecondAssumption DEF Lesser
  <1> QED BY <1>2, <1>8 DEF k

\* The default budget covers more than two minutes of sustained throttling before
\* the 429 reaches the caller (firezone.go:236), for any headers and any cap that
\* is not below the default and leaves room for the padding.
THEOREM TwoMinutesAreCovered == BudgetSpec => []BudgetCoversTwoMinutes
  <1>1. BudgetInit => CoveredSoFar
    <2> SUFFICES ASSUME BudgetInit PROVE waited >= SecondsAfter(0) * Second
      BY DEF BudgetInit, CoveredSoFar, Lesser, DefaultMaxRetries
    <2>1. SecondsAfter(0) = 0
      BY DEF SecondsAfter
    <2> QED BY <2>1, SecondAssumption DEF BudgetInit
  <1>2. BudgetTypeOK /\ CoveredSoFar /\ [BudgetNext]_budgetVars => CoveredSoFar'
    <2> SUFFICES ASSUME BudgetTypeOK, CoveredSoFar, [BudgetNext]_budgetVars,
                        CapLeavesRoom', (Cap >= DefaultMaxRetryWait)'
                 PROVE  waited' >= SecondsAfter(Lesser(attempts', DefaultMaxRetries))
                                       * Second
      BY DEF CoveredSoFar
    <2>1. Cap' = Cap /\ CapLeavesRoom /\ Cap >= DefaultMaxRetryWait
      BY DEF BudgetNext, ThrottledAndRetried, ThrottledAndReturned, budgetVars, Cap,
             CapLeavesRoom
    <2>2. CASE ThrottledAndRetried
      <3>1. /\ attempts \in 0..(DefaultMaxRetries - 1) /\ attempts' = attempts + 1
            /\ Lesser(attempts, DefaultMaxRetries) = attempts
            /\ Lesser(attempts', DefaultMaxRetries) = attempts + 1
        BY <2>2 DEF ThrottledAndRetried, BudgetTypeOK, DefaultMaxRetries, Lesser
      <3>2. PICK h \in Headers :
                /\ wait' \in RetryWait(attempts, ParseRetryAfter(h), retryMaxWait)
                /\ waited' = waited + Larger(wait', 0)
        BY <2>2 DEF ThrottledAndRetried
      <3>3. ParseRetryAfter(h) \in Duration /\ retryMaxWait \in Duration
        BY ParseRetryAfterType, HeadersAssumption, MaxWaitsAssumption DEF BudgetTypeOK
      <3>4. /\ wait' \in Nat
            /\ wait' >= (SecondsAfter(attempts + 1) - SecondsAfter(attempts)) * Second
        BY <2>1, <3>1, <3>2, <3>3, WaitCovers DEF CapLeavesRoom, Cap
      <3>5. waited' = waited + wait' /\ waited \in Nat
        BY <3>2, <3>4 DEF Larger, BudgetTypeOK
      <3>6. waited >= SecondsAfter(attempts) * Second
        BY <2>1, <3>1 DEF CoveredSoFar
      <3>7. SecondsAfter(attempts) \in Nat /\ SecondsAfter(attempts + 1) \in Nat
        BY <3>1, SecondsAdded DEF DefaultMaxRetries
      <3>8. \A k, n, x, y \in Nat : x >= n * Second /\ y >= (k - n) * Second
                                        => x + y >= k * Second
        BY SecondAssumption
      <3> QED BY <3>1, <3>4, <3>5, <3>6, <3>7, <3>8
    <2>3. CASE ThrottledAndReturned
      <3>1. /\ Lesser(attempts', DefaultMaxRetries)
                   = Lesser(attempts, DefaultMaxRetries)
            /\ waited' = waited
        BY <2>3 DEF ThrottledAndReturned, DefaultMaxRetries, Lesser
      <3> QED BY <2>1, <3>1 DEF CoveredSoFar
    <2>4. CASE UNCHANGED budgetVars
      BY <2>1, <2>4 DEF budgetVars, CoveredSoFar
    <2> QED BY <2>2, <2>3, <2>4 DEF BudgetNext
  <1>3. BudgetTypeOK /\ CoveredSoFar => BudgetCoversTwoMinutes
    <2> SUFFICES ASSUME BudgetTypeOK, CoveredSoFar, attempts > DefaultMaxRetries,
                        CapLeavesRoom, Cap >= DefaultMaxRetryWait
                 PROVE  waited >= 120 * Second
      BY DEF BudgetCoversTwoMinutes
    <2>1. Lesser(attempts, DefaultMaxRetries) = 10 /\ SecondsAfter(10) = 181
      BY DEF Lesser, DefaultMaxRetries, SecondsAfter, BudgetTypeOK
    <2>2. waited >= 181 * Second /\ waited \in Nat
      BY <2>1 DEF CoveredSoFar, BudgetTypeOK
    <2> QED BY <2>2, SecondAssumption
  <1> QED BY <1>1, <1>2, <1>3, RetryBudgetTypeCorrect, PTL DEF BudgetSpec

-----------------------------------------------------------------------------
(* The waits of two calls. *)

\* A wait of four ticks has a padding to spread over (retry.go:18-23, :105-116):
\* so has every wait once a second and the cap are at least that long.
THEOREM CallersSpread ==
    ASSUME Second >= 4, \A m \in MaxWaits : MaxRetryWait(m) >= 4
    PROVE  BudgetSpec => []HerdSpreads
  <1>1. BudgetTypeOK => HerdSpreads
    <2> SUFFICES ASSUME BudgetTypeOK, NEW h \in Headers
                 PROVE  LET waits == RetryWait(attempts, ParseRetryAfter(h),
                                               retryMaxWait)
                        IN  \E w1, w2 \in waits : w1 # w2
      BY DEF HerdSpreads
    <2> DEFINE base == BaseWait(attempts, ParseRetryAfter(h), retryMaxWait)
    <2>1. /\ attempts \in Nat /\ retryMaxWait \in Duration
          /\ ParseRetryAfter(h) \in Duration
      BY ParseRetryAfterType, HeadersAssumption, MaxWaitsAssumption DEF BudgetTypeOK
    <2>2. base \in 1..MaxInt64 /\ base >= 4
      <3>1. /\ ExponentialBackoff(attempts) \in Nat
            /\ ExponentialBackoff(attempts) >= 4
        BY <2>1, CurveFloor, ExponentialBackoffType, SecondAssumption,
           MaxInt64Assumption
      <3>2. MaxRetryWait(retryMaxWait) \in Nat /\ MaxRetryWait(retryMaxWait) >= 4
        BY <2>1, MaxRetryWaitType, MaxInt64Assumption DEF BudgetTypeOK
      <3>3. Lesser(ExponentialBackoff(attempts), MaxRetryWait(retryMaxWait)) >= 4
        BY <3>1, <3>2 DEF Lesser
      <3>4. /\ base \in 1..MaxInt64
            /\ base >= Lesser(ExponentialBackoff(attempts),
                              MaxRetryWait(retryMaxWait))
        BY <2>1, BaseWaitBounds
      <3>5. Lesser(ExponentialBackoff(attempts), MaxRetryWait(retryMaxWait)) \in Nat
        BY <3>1, <3>2 DEF Lesser
      <3> HIDE DEF base
      <3> QED BY <3>3, <3>4, <3>5, MaxInt64Assumption
    <2> HIDE DEF base
    <2>3. 0 \in RetryJitter(base) /\ 1 \in RetryJitter(base)
      BY <2>2, SecondAssumption, MaxInt64Assumption
         DEF RetryJitter, Lesser, MaxRetryJitter
    <2>4. Wrap(base + 0) # Wrap(base + 1)
      <3>1. Wrap(base + 0) = base
        BY <2>2, WrapFits, MaxInt64Assumption DEF Duration
      <3>2. CASE base < MaxInt64
        <4>1. Wrap(base + 1) = base + 1
          BY <2>2, <3>2, WrapFits, MaxInt64Assumption DEF Duration
        <4> QED BY <2>2, <3>1, <4>1
      <3>3. CASE base = MaxInt64
        <4>1. (2 * (MaxInt64 + 1)) % (2 * (MaxInt64 + 1)) = 0
          BY MaxInt64Assumption
        <4>2. Wrap(base + 1) = -(MaxInt64 + 1)
          BY <3>3, <4>1, MaxInt64Assumption DEF Wrap
        <4> QED BY <2>2, <3>1, <4>2, MaxInt64Assumption
      <3> QED BY <2>2, <3>2, <3>3, MaxInt64Assumption
    <2> QED BY <2>3, <2>4 DEF RetryWait, base
  <1> QED BY <1>1, RetryBudgetTypeCorrect, PTL

-----------------------------------------------------------------------------
(* TokenBucket: backing off outlasts the queue.  For any number of calls, any
   schedule, any bucket and any option, a call that exhausts its budget has been
   outrun by as many others as its waits have patience for.

   The argument is an account of the tokens.  Those taken and those in the
   bucket only grow together.  A call that is about to send has seen as many as
   its patience so far; while it waits, those that will have come by the end of
   its wait make up the next step of it, unless the bucket spills, and then a
   full bucket does. *)

-----------------------------------------------------------------------------
(* Patience is the sum it is meant to be. *)

\* Every set of naturals that is not empty has a least element.
LEMMA LeastNumber ==
    ASSUME NEW T \in SUBSET Nat, T # {}
    PROVE  \E x \in T : \A y \in T : x <= y
  <1> DEFINE R == OpToRel(<, Nat)
  <1>1. \E x \in T : \A y \in T : ~ (<<y, x>> \in R)
    <2>1. IsWellFoundedOn(R, Nat)
      BY NatLessThanWellFounded
    <2> HIDE DEF R
    <2> QED BY <2>1, WFMin
  <1>2. \A x, y \in Nat : y < x => <<y, x>> \in R
    BY DEF OpToRel
  <1>3. \A x, y \in Nat : ~(y < x) => x <= y
    OBVIOUS
  <1> HIDE DEF R
  <1> QED BY <1>1, <1>2, <1>3

\* The sums of G up to n, from b.
IsSum(f, n, b, G) ==
    /\ f \in [0..n -> Int]
    /\ \A i \in 0..n : f[i] = IF i = 0 THEN b ELSE f[i - 1] + G[i - 1]

LEMMA SumsExist ==
    ASSUME NEW b \in Int, NEW G \in [Nat -> Int], NEW n \in Nat
    PROVE  \E f : IsSum(f, n, b, G)
  <1> DEFINE T == {m \in Nat : ~\E f : IsSum(f, m, b, G)}
  <1>1. SUFFICES ASSUME T # {} PROVE FALSE
    OBVIOUS
  <1>2. PICK m \in T : \A k \in T : m <= k
    BY <1>1, LeastNumber
  <1>3. CASE m = 0
    <2>1. IsSum([i \in 0..m |-> b], m, b, G)
      BY <1>3 DEF IsSum
    <2> QED BY <2>1
  <1>4. CASE m # 0
    <2>1. m - 1 \in Nat /\ ~(m <= m - 1)
      BY <1>4
    <2>2. PICK f : IsSum(f, m - 1, b, G)
      BY <1>2, <2>1
    <2> DEFINE g == [i \in 0..m |-> IF i = m THEN f[m - 1] + G[m - 1] ELSE f[i]]
    <2>3. m \in Nat /\ m - 1 \in 0..(m - 1) /\ \A i \in 0..m : i # m => i \in 0..(m - 1)
      BY <1>4
    <2>4. g \in [0..m -> Int]
      BY <2>1, <2>2, <2>3 DEF IsSum
    <2>5. \A i \in 0..m : g[i] = IF i = 0 THEN b ELSE g[i - 1] + G[i - 1]
      BY <1>4, <2>2, <2>3 DEF IsSum
    <2>6. IsSum(g, m, b, G)
      BY <2>4, <2>5 DEF IsSum
    <2> QED BY <2>6
  <1> QED BY <1>3, <1>4

LEMMA SumsAgree ==
    ASSUME NEW b \in Int, NEW G \in [Nat -> Int], NEW m \in Nat, NEW n \in Nat,
           NEW f, NEW g, IsSum(f, m, b, G), IsSum(g, n, b, G),
           NEW i \in Nat, i <= m, i <= n
    PROVE  f[i] = g[i]
  <1> DEFINE T == {k \in Nat : k <= m /\ k <= n /\ f[k] # g[k]}
  <1>1. SUFFICES ASSUME T # {} PROVE FALSE
    OBVIOUS
  <1>2. PICK k \in T : \A j \in T : k <= j
    BY <1>1, LeastNumber
  <1>3. k # 0 /\ k - 1 \in Nat /\ ~(k <= k - 1)
    BY <1>2 DEF IsSum
  <1>4. f[k - 1] = g[k - 1]
    BY <1>2, <1>3
  <1>5. f[k] = f[k - 1] + G[k - 1] /\ g[k] = g[k - 1] + G[k - 1]
    BY <1>2, <1>3 DEF IsSum
  <1> QED BY <1>2, <1>4, <1>5

LEMMA SumExists ==
    ASSUME NEW b \in Int, NEW G \in [Nat -> Int]
    PROVE  \E f : f = [a \in Nat |-> IF a = 0 THEN b ELSE f[a - 1] + G[a - 1]]
  <1> DEFINE S(n) == CHOOSE f : IsSum(f, n, b, G)
             F == [a \in Nat |-> S(a)[a]]
  <1>1. \A n \in Nat : IsSum(S(n), n, b, G)
    BY SumsExist
  <1> HIDE DEF S
  <1>2. ASSUME NEW a \in Nat
        PROVE  F[a] = IF a = 0 THEN b ELSE F[a - 1] + G[a - 1]
    <2>1. CASE a = 0
      BY <1>1, <2>1 DEF IsSum
    <2>2. CASE a # 0
      <3>1. a - 1 \in Nat /\ a - 1 <= a /\ a \in 0..a
        BY <2>2
      <3>2. S(a)[a] = S(a)[a - 1] + G[a - 1]
        BY <1>1, <2>2, <3>1 DEF IsSum
      <3>3. S(a)[a - 1] = S(a - 1)[a - 1]
        BY <1>1, <3>1, SumsAgree
      <3> QED BY <2>2, <3>1, <3>2, <3>3
    <2> QED BY <2>1, <2>2
  <1>3. F = [a \in Nat |-> IF a = 0 THEN b ELSE F[a - 1] + G[a - 1]]
    BY <1>2
  <1> QED BY <1>3

\* What a wait of the curve sees arriving is a number of tokens.
LEMMA GainedType ==
    ASSUME NEW a \in Nat
    PROVE  /\ BaseWait(a, 0, RetryMaxWait) \in Nat
           /\ Gained(a) \in Nat /\ Gained(a) <= Burst
           /\ Gained(a) <= BaseWait(a, 0, RetryMaxWait) \div Second
  <1>1. RetryMaxWait \in Duration /\ 0 \in Duration
    BY RetryMaxWaitAssumption, MaxInt64Assumption DEF Duration
  <1>2. BaseWait(a, 0, RetryMaxWait) \in Nat
    BY <1>1, BaseWaitBounds, MaxInt64Assumption
  <1>3. BaseWait(a, 0, RetryMaxWait) \div Second \in Nat
    BY <1>2, SecondAssumption
  <1> QED BY <1>2, <1>3, BurstAssumption DEF Gained, Lesser

LEMMA PatienceSums ==
    /\ Patience[0] = Burst
    /\ \A a \in Nat : Patience[a + 1] = Patience[a] + Gained(a)
    /\ \A a \in Nat : Patience[a] \in Int
  <1> DEFINE G == [a \in Nat |-> Gained(a)]
  <1>1. G \in [Nat -> Int] /\ Burst \in Int
    BY GainedType, BurstAssumption
  <1>2. \E f : f = [a \in Nat |-> IF a = 0 THEN Burst ELSE f[a - 1] + G[a - 1]]
    <2> HIDE DEF G
    <2> QED BY <1>1, SumExists
  <1>3. \A a \in Nat : a # 0 => a - 1 \in Nat /\ G[a - 1] = Gained(a - 1)
    OBVIOUS
  <1>4. \A f : [a \in Nat |-> IF a = 0 THEN Burst ELSE f[a - 1] + G[a - 1]]
             = [a \in Nat |-> IF a = 0 THEN Burst ELSE f[a - 1] + Gained(a - 1)]
    BY <1>3
  <1> HIDE DEF G
  <1>5. \E f : f = [a \in Nat |-> IF a = 0 THEN Burst ELSE f[a - 1] + Gained(a - 1)]
    BY <1>2, <1>4
  <1>6. Patience = [a \in Nat |-> IF a = 0 THEN Burst
                                  ELSE Patience[a - 1] + Gained(a - 1)]
    BY <1>5, Zenon DEF Patience
  <1>7. \A a \in Nat : Patience[a] = IF a = 0 THEN Burst
                                     ELSE Patience[a - 1] + Gained(a - 1)
    BY <1>6
  <1>8. \A a \in Nat : Patience[a + 1] = Patience[a] + Gained(a)
    <2> TAKE a \in Nat
    <2>1. a + 1 \in Nat /\ a + 1 # 0 /\ (a + 1) - 1 = a
      OBVIOUS
    <2> QED BY <1>7, <2>1
  <1>9. \A a \in Nat : Patience[a] \in Int
    <2> DEFINE T == {k \in Nat : Patience[k] \notin Int}
    <2>1. SUFFICES ASSUME T # {} PROVE FALSE
      OBVIOUS
    <2>2. PICK k \in T : \A j \in T : k <= j
      BY <2>1, LeastNumber
    <2>3. k # 0 /\ k - 1 \in Nat /\ ~(k <= k - 1)
      BY <1>1, <1>7, <2>2
    <2>4. Patience[k] = Patience[k - 1] + Gained(k - 1)
      BY <1>7, <2>2, <2>3
    <2>5. Gained(k - 1) \in Nat /\ Patience[k - 1] \in Int
      BY <2>2, <2>3, GainedType
    <2> QED BY <2>2, <2>4, <2>5
  <1> QED BY <1>7, <1>8, <1>9

-----------------------------------------------------------------------------
(* Types. *)

\* A 429 with a header of a second, or none, makes the call wait at least as long
\* as the curve.
LEMMA BackOffWaits ==
    ASSUME NEW a \in Nat, NEW h \in {-1, 1},
           NEW w \in RetryWait(a, ParseRetryAfter(h), RetryMaxWait)
    PROVE  w \in Nat /\ w >= BaseWait(a, 0, RetryMaxWait)
  <1>1. ParseRetryAfter(h) \in Duration /\ ParseRetryAfter(h) >= 0
    <2>1. CASE h = -1
      BY <2>1, MaxInt64Assumption DEF ParseRetryAfter, Duration
    <2>2. CASE h = 1
      <3>1. Second \in Duration /\ 1 * Second = Second
        BY SecondAssumption, MaxInt64Assumption DEF Duration
      <3> QED BY <2>2, <3>1, WrapFits, SecondAssumption DEF ParseRetryAfter
    <2> QED BY <2>1, <2>2
  <1>2. RetryMaxWait \in Duration /\ 0 \in Duration
    BY RetryMaxWaitAssumption, MaxInt64Assumption DEF Duration
  <1>3. w \in Nat /\ BaseWait(a, ParseRetryAfter(h), RetryMaxWait) <= w
    BY <1>1, <1>2, RetryWaitAroundBase, RetryMaxWaitAssumption
  <1>4. /\ ExponentialBackoff(a) \in 1..MaxInt64
        /\ MaxRetryWait(RetryMaxWait) \in 1..MaxInt64
        /\ ParseRetryAfter(h) \in Int
    BY <1>1, <1>2, ExponentialBackoffType, MaxRetryWaitType, MaxInt64Assumption
       DEF Duration
  <1>5. BaseWait(a, 0, RetryMaxWait) <= BaseWait(a, ParseRetryAfter(h), RetryMaxWait)
    BY <1>1, <1>4, MaxInt64Assumption DEF BaseWait, Lesser, Larger
  <1>6. /\ BaseWait(a, 0, RetryMaxWait) \in Int
        /\ BaseWait(a, ParseRetryAfter(h), RetryMaxWait) \in Int
    BY <1>4, MaxInt64Assumption DEF BaseWait, Lesser, Larger
  <1> QED BY <1>3, <1>5, <1>6

\* TypeOK, and no call waits for an attempt beyond its budget (retry.go:58-66).
Typed == TypeOK /\ \A c \in Calls : pc[c] = "backoff" => attempt[c] < MaxRetries

LEMMA TypedStep ==
    ASSUME Typed, [Next]_vars
    PROVE  Typed'
  <1> USE MaxRetriesAssumption, BurstAssumption, SecondAssumption
  <1>1. ASSUME NEW c \in Calls, Start(c) PROVE Typed'
    BY <1>1 DEF Start, Typed, TypeOK
  <1>2. ASSUME NEW c \in Calls, Win(c) PROVE Typed'
    BY <1>2 DEF Win, Typed, TypeOK
  <1>3. ASSUME NEW c \in Calls, BackOff(c) PROVE Typed'
    <2>1. attempt[c] \in 0..MaxRetries /\ attempt[c] < MaxRetries /\ attempt[c] \in Nat
      BY <1>3 DEF BackOff, Typed, TypeOK
    <2>2. PICK h \in {-1, 1} :
              \E w \in RetryWait(attempt[c], ParseRetryAfter(h), RetryMaxWait) :
                  timer' = [timer EXCEPT ![c] = Larger(w, 0)]
      BY <1>3 DEF BackOff
    <2>3. PICK w \in RetryWait(attempt[c], ParseRetryAfter(h), RetryMaxWait) :
                  timer' = [timer EXCEPT ![c] = Larger(w, 0)]
      BY <2>2
    <2>4. Larger(w, 0) \in Nat
      BY <2>1, BackOffWaits DEF Larger
    <2> QED BY <1>3, <2>1, <2>3, <2>4 DEF BackOff, Typed, TypeOK
  <1>4. ASSUME NEW c \in Calls, Lose(c) PROVE Typed'
    BY <1>4 DEF Lose, Typed, TypeOK
  <1>5. ASSUME NEW c \in Calls, Retry(c) PROVE Typed'
    BY <1>5 DEF Retry, Typed, TypeOK
  <1>6. ASSUME Tick PROVE Typed'
    <2>1. \A c \in Calls : Larger(timer[c] - 1, 0) \in Nat
      BY DEF Typed, TypeOK, Larger
    <2>2. tokens' \in 0..Burst /\ refill' \in 1..Second
      BY <1>6 DEF Tick, Refilled, Lesser, Typed, TypeOK
    <2> QED BY <1>6, <2>1, <2>2 DEF Tick, Typed, TypeOK
  <1>7. CASE UNCHANGED vars
    BY <1>7 DEF vars, Typed, TypeOK
  <1> QED BY <1>1, <1>2, <1>3, <1>4, <1>5, <1>6, <1>7 DEF Next

LEMMA SpecTyped == Spec => []Typed
  <1>1. Init => Typed
    BY MaxRetriesAssumption, BurstAssumption, SecondAssumption
       DEF Init, Typed, TypeOK
  <1> QED BY <1>1, TypedStep, PTL DEF Spec

\* The bucket never overflows nor runs into debt, and no call overruns its budget,
\* however many there are and however they are scheduled.
THEOREM BucketTypeCorrect == Spec => []TypeOK
  <1>1. Typed => TypeOK
    BY DEF Typed
  <1> QED BY <1>1, SpecTyped, PTL

-----------------------------------------------------------------------------
(* The account of the tokens. *)

Won == {d \in Calls : pc[d] = "won"}

Spent == Cardinality(Won)

\* What was taken, and what there is to take.
Supplied == Spent + tokens

\* The tokens that arrive within t ticks.
Arriving(t) == (t + Second - refill) \div Second

Promised(c) ==
    /\ pc[c] = "idle" => attempt[c] = 0
    /\ pc[c] = "ready" => Supplied >= Patience[attempt[c]]
    /\ pc[c] = "backoff" =>
           /\ Spent >= Patience[attempt[c]]
           /\ Supplied + Arriving(timer[c])
                  >= Patience[attempt[c]] + Gained(attempt[c])
    /\ pc[c] = "lost" => Spent >= Patience[MaxRetries]

Account == Supplied >= Burst /\ \A c \in Calls : Promised(c)

\* Full seconds.
LEMMA Seconds ==
    /\ \A t \in 0..(Second - 1) : t \div Second = 0
    /\ \A t \in Nat : /\ t \div Second \in Nat
                      /\ (t + Second) \div Second = (t \div Second) + 1
    /\ \A s, t \in Nat : s <= t => s \div Second <= t \div Second
  <1>1. \A t \in 0..(Second - 1) : t \div Second = 0
    BY SecondAssumption
  <1>2. \A t \in Nat : t \div Second \in Nat
    BY SecondAssumption
  <1>3. \A t \in Nat : (t + Second) \div Second = (t \div Second) + 1
    BY SecondAssumption
  <1>4. \A s, t \in Nat : s <= t => s \div Second <= t \div Second
    BY SecondAssumption
  <1> QED BY <1>1, <1>2, <1>3, <1>4

\* The calls that won are no more than there are.
LEMMA SpentType ==
    IsFiniteSet(Won) /\ Spent \in Nat
  BY CallsAssumption, FS_Subset, FS_CardinalityType DEF Won, Spent

\* What arrives is a number of tokens, one for each full second at least.
LEMMA ArrivingType ==
    ASSUME Typed, NEW t \in Nat
    PROVE  Arriving(t) \in Nat /\ Arriving(t) >= t \div Second /\ Arriving(0) = 0
  <1>1. /\ t + Second - refill \in Nat /\ t <= t + Second - refill
        /\ 0 + Second - refill \in 0..(Second - 1)
    BY SecondAssumption DEF Typed, TypeOK
  <1>2. (t + Second - refill) \div Second \in Nat
    BY <1>1, Seconds
  <1>3. t \div Second <= (t + Second - refill) \div Second
    BY <1>1, Seconds
  <1>4. t \div Second \in Nat
    BY Seconds
  <1>5. (0 + Second - refill) \div Second = 0
    BY <1>1, Seconds
  <1> QED BY <1>2, <1>3, <1>4, <1>5 DEF Arriving

\* A tick brings the token that was due, or spills it on a full bucket.
LEMMA TickSupplies ==
    ASSUME Typed, Tick, NEW t \in Nat
    PROVE  /\ Supplied' >= Supplied /\ Supplied' \in Nat
           /\ \/ Supplied' + Arriving(Larger(t - 1, 0))' >= Supplied + Arriving(t)
              \/ tokens' = Burst
  <1> DEFINE u == Larger(t - 1, 0)
  <1>0. /\ Spent' = Spent /\ Spent \in Nat /\ tokens \in Nat /\ tokens <= Burst
        /\ refill \in Nat /\ 1 <= refill /\ refill <= Second
    BY SpentType, BurstAssumption, SecondAssumption
       DEF Tick, Spent, Won, Typed, TypeOK
  <1>1. u \in Nat /\ (t = 0 => u = 0) /\ (t # 0 => u = t - 1)
    BY DEF Larger
  <1>2. Arriving(t) = (t + Second - refill) \div Second
    BY DEF Arriving
  <1>3. Arriving(u)' = (u + Second - refill') \div Second
    BY DEF Arriving
  <1> HIDE DEF u
  <1>4. CASE refill # 1
    <2>1. refill' = refill - 1 /\ tokens' = tokens
      BY <1>4 DEF Tick
    <2>2. /\ t + Second - refill \in Nat /\ u + Second - refill' \in Nat
          /\ t + Second - refill <= u + Second - refill'
      BY <1>0, <1>1, <1>4, <2>1, SecondAssumption
    <2>3. Arriving(t) <= Arriving(u)' /\ Arriving(t) \in Nat /\ Arriving(u)' \in Nat
      BY <1>2, <1>3, <2>2, Seconds
    <2>4. Supplied' = Supplied /\ Supplied \in Nat
      BY <1>0, <2>1 DEF Supplied
    <2> QED BY <2>3, <2>4 DEF u
  <1>5. CASE refill = 1
    <2>1. refill' = Second /\ tokens' = Lesser(tokens + 1, Burst)
      BY <1>5 DEF Tick, Refilled
    <2>2. CASE tokens = Burst
      <3>1. tokens' = Burst
        BY <1>0, <2>1, <2>2, BurstAssumption DEF Lesser
      <3> QED BY <1>0, <2>2, <3>1, BurstAssumption DEF Supplied
    <2>3. CASE tokens # Burst
      <3>1. /\ tokens' = tokens + 1
            /\ Supplied' = Supplied + 1 /\ Supplied \in Nat
        BY <1>0, <2>1, <2>3, BurstAssumption DEF Lesser, Supplied
      <3>2. u + Second - refill' = u
        BY <1>1, <2>1, SecondAssumption
      <3>3. Arriving(u)' = u \div Second /\ u \div Second \in Nat
        BY <1>1, <1>3, <3>2, Seconds
      <3>4. Arriving(t) <= (u \div Second) + 1 /\ Arriving(t) \in Nat
        <4>1. /\ t + Second - refill <= u + Second
              /\ t + Second - refill \in Nat /\ u + Second \in Nat
          BY <1>0, <1>1, <1>5, SecondAssumption
        <4>2. (u + Second) \div Second = (u \div Second) + 1
          BY <1>1, Seconds
        <4> QED BY <1>2, <4>1, <4>2, Seconds
      <3> QED BY <3>1, <3>3, <3>4 DEF u
    <2> QED BY <2>2, <2>3
  <1> QED BY <1>4, <1>5

\* The account is kept in natural numbers, before a step and after it.
LEMMA AccountTypes ==
    ASSUME Typed
    PROVE  /\ Spent \in Nat /\ Supplied \in Nat /\ Spent <= Supplied
           /\ tokens = 0 => Supplied = Spent
           /\ \A c \in Calls : /\ attempt[c] \in Nat /\ timer[c] \in Nat
                               /\ Patience[attempt[c]] \in Int
                               /\ Gained(attempt[c]) \in Nat
                               /\ Arriving(timer[c]) \in Nat
           /\ Patience[MaxRetries] \in Int
  <1>1. tokens \in Nat /\ MaxRetries \in Nat
    BY BurstAssumption, MaxRetriesAssumption DEF Typed, TypeOK
  <1>2. Spent \in Nat /\ Supplied \in Nat /\ Spent <= Supplied
        /\ (tokens = 0 => Supplied = Spent)
    BY <1>1, SpentType DEF Supplied
  <1>3. ASSUME NEW c \in Calls
        PROVE  /\ attempt[c] \in Nat /\ timer[c] \in Nat
               /\ Patience[attempt[c]] \in Int
               /\ Gained(attempt[c]) \in Nat
               /\ Arriving(timer[c]) \in Nat
    <2>1. attempt[c] \in Nat /\ timer[c] \in Nat
      BY <1>1 DEF Typed, TypeOK
    <2> QED BY <2>1, PatienceSums, GainedType, ArrivingType
  <1> QED BY <1>1, <1>2, <1>3, PatienceSums

LEMMA AccountTypesAfter ==
    ASSUME Typed'
    PROVE  /\ Spent' \in Nat /\ Supplied' \in Nat
           /\ \A c \in Calls : Arriving(timer[c])' \in Nat
  <1>1. /\ tokens' \in Nat /\ refill' \in 1..Second
        /\ \A c \in Calls : timer'[c] \in Nat
    BY BurstAssumption DEF Typed, TypeOK
  <1>2. Won' \in SUBSET Calls
    BY DEF Won
  <1>3. Spent' \in Nat
    BY <1>2, CallsAssumption, FS_Subset, FS_CardinalityType DEF Spent
  <1>4. ASSUME NEW c \in Calls PROVE Arriving(timer[c])' \in Nat
    <2>1. timer'[c] + Second - refill' \in Nat
      BY <1>1, SecondAssumption
    <2> QED BY <2>1, Seconds DEF Arriving
  <1>5. Supplied' = Spent' + tokens'
    BY DEF Supplied
  <1>6. Supplied' \in Nat
    <2>1. \A x, y \in Nat : x + y \in Nat
      OBVIOUS
    <2> QED BY <1>1, <1>3, <1>5, <2>1, Zenon
  <1> QED BY <1>3, <1>4, <1>6

\* What a call was promised still stands when others have acted.
LEMMA StillPromised ==
    ASSUME Typed, Typed', NEW d \in Calls, Promised(d),
           UNCHANGED <<pc[d], attempt[d], timer[d], refill>>,
           Spent' >= Spent, Supplied' >= Supplied
    PROVE  Promised(d)'
  <1>1. /\ Spent \in Nat /\ Supplied \in Nat /\ Spent' \in Nat /\ Supplied' \in Nat
        /\ Patience[attempt[d]] \in Int /\ Gained(attempt[d]) \in Nat
        /\ Arriving(timer[d]) \in Nat /\ Patience[MaxRetries] \in Int
    BY AccountTypes, AccountTypesAfter
  <1>2. Arriving(timer[d])' = Arriving(timer[d])
    BY DEF Arriving
  <1> QED BY <1>1, <1>2 DEF Promised

\* A call that is throttled waits for what its patience is about to grow by.
LEMMA BackOffPromised ==
    ASSUME Typed, Account, NEW c \in Calls, BackOff(c)
    PROVE  Promised(c)'
  <1>1. /\ pc[c] = "ready" /\ tokens = 0 /\ pc'[c] = "backoff"
        /\ UNCHANGED <<attempt, tokens, refill>> /\ Won' = Won
    BY DEF BackOff, Won, Typed, TypeOK
  <1>2. PICK h \in {-1, 1} :
            \E w \in RetryWait(attempt[c], ParseRetryAfter(h), RetryMaxWait) :
                timer' = [timer EXCEPT ![c] = Larger(w, 0)]
    BY DEF BackOff
  <1>3. PICK w \in RetryWait(attempt[c], ParseRetryAfter(h), RetryMaxWait) :
                timer' = [timer EXCEPT ![c] = Larger(w, 0)]
    BY <1>2
  <1>4. /\ attempt[c] \in Nat
        /\ w \in Nat /\ w >= BaseWait(attempt[c], 0, RetryMaxWait)
    BY AccountTypes, BackOffWaits
  <1>5. timer'[c] = w
    BY <1>3, <1>4 DEF Larger, Typed, TypeOK
  <1>6. Arriving(timer[c])' = Arriving(w)
    BY <1>1, <1>5 DEF Arriving
  <1>7. Arriving(w) \in Nat /\ Arriving(w) >= w \div Second /\ w \div Second \in Nat
    BY <1>4, ArrivingType, Seconds
  <1>8. /\ Gained(attempt[c]) \in Nat
        /\ BaseWait(attempt[c], 0, RetryMaxWait) \in Nat
        /\ Gained(attempt[c]) <= BaseWait(attempt[c], 0, RetryMaxWait) \div Second
    BY <1>4, GainedType
  <1>9. /\ BaseWait(attempt[c], 0, RetryMaxWait) \div Second <= w \div Second
        /\ BaseWait(attempt[c], 0, RetryMaxWait) \div Second \in Nat
    BY <1>4, <1>8, Seconds
  <1>10. Gained(attempt[c]) <= Arriving(w)
    BY <1>7, <1>8, <1>9
  <1>11. /\ Supplied >= Patience[attempt[c]] /\ Supplied = Spent /\ Spent \in Nat
         /\ Patience[attempt[c]] \in Int
         /\ Spent' = Spent /\ Supplied' = Supplied
    BY <1>1, AccountTypes DEF Account, Promised, Spent, Supplied
  <1>12. /\ Spent' >= Patience[attempt[c]]
         /\ Supplied' + Arriving(timer[c])'
                >= Patience[attempt[c]] + Gained(attempt[c])
    BY <1>6, <1>7, <1>8, <1>10, <1>11
  <1> QED BY <1>1, <1>12 DEF Promised

LEMMA AccountStep ==
    ASSUME Typed, Typed', Account, [Next]_vars
    PROVE  Account'
  <1>1. /\ Spent \in Nat /\ Supplied \in Nat /\ Spent <= Supplied
        /\ Supplied >= Burst /\ Burst \in Nat
        /\ \A c \in Calls : Promised(c)
    BY AccountTypes, BurstAssumption DEF Account
  <1>2. ASSUME NEW c \in Calls,
               Spent' >= Spent, Supplied' >= Supplied, Promised(c)',
               \A d \in Calls \ {c} :
                   UNCHANGED <<pc[d], attempt[d], timer[d], refill>>
        PROVE  Account'
    <2>1. Supplied' >= Burst
      BY <1>1, <1>2, AccountTypesAfter
    <2>2. \A d \in Calls \ {c} : Promised(d)'
      BY <1>1, <1>2, StillPromised
    <2> QED BY <1>2, <2>1, <2>2 DEF Account
  <1>3. ASSUME NEW c \in Calls, Start(c) PROVE Account'
    <2>1. /\ pc'[c] = "ready" /\ attempt[c] = 0 /\ Won' = Won
          /\ UNCHANGED <<attempt, timer, tokens, refill>>
          /\ \A d \in Calls \ {c} : pc'[d] = pc[d]
      BY <1>1, <1>3 DEF Start, Won, Promised, Typed, TypeOK
    <2>2. Spent' = Spent /\ Supplied' = Supplied
      BY <2>1 DEF Spent, Supplied
    <2>3. Promised(c)'
      BY <1>1, <2>1, <2>2, PatienceSums DEF Promised
    <2> QED BY <1>1, <1>2, <2>1, <2>2, <2>3
  <1>4. ASSUME NEW c \in Calls, Win(c) PROVE Account'
    <2>1. /\ pc'[c] = "won" /\ c \notin Won /\ Won' = Won \cup {c}
          /\ tokens' = tokens - 1 /\ UNCHANGED <<attempt, timer, refill>>
          /\ \A d \in Calls \ {c} : pc'[d] = pc[d]
          /\ tokens \in Nat
      BY <1>4, BurstAssumption DEF Win, Won, Typed, TypeOK
    <2>2. Spent' = Spent + 1
      BY <2>1, SpentType, FS_AddElement DEF Spent
    <2>3. Supplied' = Supplied
      BY <1>1, <2>1, <2>2 DEF Supplied
    <2>4. Promised(c)'
      BY <2>1 DEF Promised
    <2> QED BY <1>1, <1>2, <2>1, <2>2, <2>3, <2>4
  <1>5. ASSUME NEW c \in Calls, BackOff(c) PROVE Account'
    <2>1. /\ Won' = Won /\ UNCHANGED <<attempt, tokens, refill>>
          /\ \A d \in Calls \ {c} : UNCHANGED <<pc[d], timer[d]>>
      BY <1>5 DEF BackOff, Won, Typed, TypeOK
    <2>2. Spent' = Spent /\ Supplied' = Supplied
      BY <2>1 DEF Spent, Supplied
    <2> QED BY <1>1, <1>2, <1>5, <2>1, <2>2, BackOffPromised
  <1>6. ASSUME NEW c \in Calls, Lose(c) PROVE Account'
    <2>1. /\ pc[c] = "ready" /\ tokens = 0 /\ attempt[c] = MaxRetries
          /\ pc'[c] = "lost" /\ Won' = Won
          /\ UNCHANGED <<attempt, timer, tokens, refill>>
          /\ \A d \in Calls \ {c} : pc'[d] = pc[d]
      BY <1>6 DEF Lose, Won, Typed, TypeOK
    <2>2. Spent' = Spent /\ Supplied' = Supplied /\ Supplied = Spent
      BY <2>1, AccountTypes DEF Spent, Supplied
    <2>3. Promised(c)'
      BY <1>1, <2>1, <2>2 DEF Promised
    <2> QED BY <1>1, <1>2, <2>1, <2>2, <2>3
  <1>7. ASSUME NEW c \in Calls, Retry(c) PROVE Account'
    <2>1. /\ pc[c] = "backoff" /\ timer[c] = 0
          /\ pc'[c] = "ready" /\ attempt'[c] = attempt[c] + 1 /\ Won' = Won
          /\ UNCHANGED <<timer, tokens, refill>>
          /\ \A d \in Calls \ {c} : UNCHANGED <<pc[d], attempt[d]>>
      BY <1>7 DEF Retry, Won, Typed, TypeOK
    <2>2. Spent' = Spent /\ Supplied' = Supplied
      BY <2>1 DEF Spent, Supplied
    <2>3. /\ attempt[c] \in Nat
          /\ Patience[attempt[c] + 1] = Patience[attempt[c]] + Gained(attempt[c])
          /\ Patience[attempt[c]] \in Int /\ Gained(attempt[c]) \in Nat
      BY AccountTypes, PatienceSums
    <2>4. Supplied + Arriving(0) >= Patience[attempt[c]] + Gained(attempt[c])
      BY <1>1, <2>1 DEF Promised
    <2>5. Arriving(0) = 0
      BY ArrivingType
    <2>6. Supplied' >= Patience[attempt'[c]]
      BY <1>1, <2>1, <2>2, <2>3, <2>4, <2>5
    <2>7. Promised(c)'
      BY <2>1, <2>6 DEF Promised
    <2> QED BY <1>1, <1>2, <2>1, <2>2, <2>7
  <1>8. ASSUME Tick PROVE Account'
    <2>1. /\ pc' = pc /\ attempt' = attempt /\ Won' = Won /\ Spent' = Spent
          /\ \A d \in Calls : timer'[d] = Larger(timer[d] - 1, 0)
      BY <1>8 DEF Tick, Won, Spent
    <2>2. Supplied' >= Supplied /\ Supplied' \in Nat
      BY <1>8, TickSupplies
    <2>3. ASSUME NEW d \in Calls PROVE Promised(d)'
      <3>1. /\ Patience[attempt[d]] \in Int /\ Gained(attempt[d]) \in Nat
            /\ Gained(attempt[d]) <= Burst
            /\ Patience[MaxRetries] \in Int
            /\ timer[d] \in Nat /\ Arriving(timer[d]) \in Nat
        BY AccountTypes, GainedType
      <3>2. Arriving(timer[d])' \in Nat
        BY AccountTypesAfter
      <3>3. \/ Supplied' + Arriving(timer[d])' >= Supplied + Arriving(timer[d])
            \/ tokens' = Burst
        <4>1. Arriving(Larger(timer[d] - 1, 0))
                  = (Larger(timer[d] - 1, 0) + Second - refill) \div Second
          BY DEF Arriving
        <4> QED BY <1>8, <2>1, <3>1, TickSupplies DEF Arriving
      <3>4. ASSUME pc[d] = "backoff"
            PROVE  Supplied' + Arriving(timer[d])'
                       >= Patience[attempt[d]] + Gained(attempt[d])
        <4>1. /\ Spent >= Patience[attempt[d]]
              /\ Supplied + Arriving(timer[d])
                     >= Patience[attempt[d]] + Gained(attempt[d])
          BY <1>1, <3>4 DEF Promised
        <4>2. CASE tokens' = Burst
          <5>1. Supplied' = Spent + Burst
            BY <2>1, <4>2 DEF Supplied
          <5> QED BY <1>1, <3>1, <3>2, <4>1, <5>1
        <4>3. CASE Supplied' + Arriving(timer[d])' >= Supplied + Arriving(timer[d])
          BY <1>1, <2>2, <3>1, <3>2, <4>1, <4>3
        <4> QED BY <3>3, <4>2, <4>3
      <3> QED BY <1>1, <2>1, <2>2, <3>1, <3>4 DEF Promised
    <2> QED BY <1>1, <2>2, <2>3 DEF Account
  <1>9. CASE UNCHANGED vars
    BY <1>9 DEF vars, Account, Promised, Supplied, Spent, Won, Arriving
  <1> QED BY <1>3, <1>4, <1>5, <1>6, <1>7, <1>8, <1>9 DEF Next

LEMMA SpecAccount == Spec => []Account
  <1>1. Init => Account
    <2> SUFFICES ASSUME Init PROVE Account
      OBVIOUS
    <2>1. Won = {} /\ tokens = Burst
      BY DEF Init, Won
    <2>2. Supplied = Burst
      BY <2>1, FS_EmptySet, BurstAssumption DEF Supplied, Spent
    <2> QED BY <2>2, BurstAssumption DEF Init, Account, Promised
  <1>2. Typed /\ Typed' /\ Account /\ [Next]_vars => Account'
    BY AccountStep
  <1> QED BY <1>1, <1>2, SpecTyped, PTL DEF Spec

\* A call that exhausts its budget (retry.go:58-66) was outrun by as many others
\* as its waits (retry.go:75-103) have patience for, however the calls of the
\* account are scheduled, whatever the bucket's size, the budget and the cap.
THEOREM LosersAreOutrun == Spec => []LosersWereOutrun
  <1>1. Account => LosersWereOutrun
    BY DEF Account, Promised, LosersWereOutrun, Spent, Won
  <1> QED BY <1>1, SpecAccount, PTL

\* So a run of no more requests than that patience loses none of them.
THEOREM NobodyLoses ==
    ASSUME Cardinality(Calls) <= Patience[MaxRetries]
    PROVE  Spec => [](\A c \in Calls : pc[c] # "lost")
  <1>1. Typed /\ Account => \A c \in Calls : pc[c] # "lost"
    <2> SUFFICES ASSUME Typed, Account, NEW c \in Calls, pc[c] = "lost"
                 PROVE  FALSE
      OBVIOUS
    <2>1. Spent >= Patience[MaxRetries] /\ Patience[MaxRetries] \in Int
      BY AccountTypes DEF Account, Promised
    <2>2. Won \in SUBSET (Calls \ {c})
      BY DEF Won
    <2>3. /\ IsFiniteSet(Calls \ {c}) /\ Cardinality(Calls) \in Nat
          /\ Cardinality(Calls \ {c}) = Cardinality(Calls) - 1
      BY CallsAssumption, FS_RemoveElement, FS_CardinalityType
    <2>4. Spent <= Cardinality(Calls \ {c}) /\ Spent \in Nat
      BY <2>2, <2>3, FS_Subset, SpentType DEF Spent
    <2> QED BY <2>1, <2>3, <2>4
  <1> QED BY <1>1, SpecTyped, SpecAccount, PTL
=============================================================================
