---------------------------- MODULE BackoffProofs ----------------------------
(***************************************************************************)
(* Lemmas about the wait functions of Backoff, for every word size, every  *)
(* tick and every option: what retryWait returns and how it is bounded.    *)
(***************************************************************************)
EXTENDS Backoff, TLAPS

\* The curve never leaves the positive durations (retry.go:96-103).
LEMMA ExponentialBackoffType ==
    ASSUME NEW attempt \in Nat
    PROVE  ExponentialBackoff(attempt) \in 1..MaxInt64
  <1>1. CASE attempt >= BailOut
    BY <1>1, MaxInt64Assumption, SecondAssumption DEF ExponentialBackoff
  <1>2. CASE ~(attempt >= BailOut)
    <2>1. attempt \in 0..(BailOut - 1)
      BY <1>2, BailOutAssumption
    <2>2. 2^attempt \in Nat \ {0} /\ 2^attempt * Second <= MaxInt64
      BY <2>1, CurveAssumption
    <2>3. \A k \in Nat \ {0} : k * Second \in Nat \ {0}
      BY SecondAssumption
    <2> QED
      BY <1>2, <2>2, <2>3, MaxInt64Assumption DEF ExponentialBackoff
  <1> QED BY <1>1, <1>2

\* WithRetryMaxWait accepts any duration; the cap in force is positive.
LEMMA MaxRetryWaitType ==
    ASSUME NEW retryMaxWait \in Duration
    PROVE  MaxRetryWait(retryMaxWait) \in 1..MaxInt64
  BY SecondAssumption, MaxInt64Assumption
     DEF MaxRetryWait, DefaultMaxRetryWait, Duration

\* Arithmetic that fits the word is not disturbed by it.
LEMMA WrapFits ==
    ASSUME NEW x \in Duration
    PROVE  Wrap(x) = x
  BY MaxInt64Assumption DEF Wrap, Duration

LEMMA WrapType ==
    ASSUME NEW x \in Int
    PROVE  Wrap(x) \in Duration
  <1> DEFINE w == 2 * (MaxInt64 + 1)
  <1>1. w \in Nat \ {0}
    BY MaxInt64Assumption
  <1>2. (x + MaxInt64 + 1) % w \in 0..(w - 1)
    BY <1>1, MaxInt64Assumption
  <1> QED BY <1>2, MaxInt64Assumption DEF Wrap, Duration

\* The padding is never negative and stays within both its bounds.
LEMMA RetryJitterBounds ==
    ASSUME NEW base \in Nat, NEW j \in RetryJitter(base)
    PROVE  /\ j \in Nat
           /\ 2 * j <= base
           /\ j <= MaxRetryJitter
  BY SecondAssumption DEF RetryJitter, Lesser, MaxRetryJitter

LEMMA BaseWaitBounds ==
    ASSUME NEW attempt \in Nat, NEW retryAfter \in Duration,
           NEW retryMaxWait \in Duration
    PROVE  LET wait == BaseWait(attempt, retryAfter, retryMaxWait)
               cap == MaxRetryWait(retryMaxWait)
           IN  /\ wait \in 1..MaxInt64
               /\ wait <= cap
               /\ wait >= Lesser(retryAfter, cap)
               /\ wait >= Lesser(ExponentialBackoff(attempt), cap)
  BY ExponentialBackoffType, MaxRetryWaitType, MaxInt64Assumption
     DEF BaseWait, Lesser, Larger, Duration

\* Whatever the option, a wait is a time.Duration.
LEMMA RetryWaitType ==
    ASSUME NEW attempt \in Nat, NEW retryAfter \in Duration,
           NEW retryMaxWait \in Duration
    PROVE  RetryWait(attempt, retryAfter, retryMaxWait) \subseteq Duration
  <1> DEFINE wait == BaseWait(attempt, retryAfter, retryMaxWait)
  <1>1. wait \in Nat
    BY BaseWaitBounds, MaxInt64Assumption
  <1>2. \A j \in RetryJitter(wait) : wait + j \in Int
    BY <1>1, RetryJitterBounds
  <1> QED BY <1>2, WrapType DEF RetryWait

\* A cap that leaves room for the padding: the wait is its base and a padding of
\* at most half as much.
LEMMA RetryWaitAroundBase ==
    ASSUME NEW attempt \in Nat, NEW retryAfter \in Duration,
           NEW retryMaxWait \in Duration,
           MaxRetryWait(retryMaxWait) <= MaxInt64 - MaxRetryJitter,
           NEW w \in RetryWait(attempt, retryAfter, retryMaxWait)
    PROVE  LET base == BaseWait(attempt, retryAfter, retryMaxWait)
           IN  /\ w \in Nat
               /\ base <= w
               /\ w <= base + MaxRetryJitter
               /\ 2 * w <= 3 * base
  <1> DEFINE base == BaseWait(attempt, retryAfter, retryMaxWait)
             cap == MaxRetryWait(retryMaxWait)
  <1>1. base \in 1..MaxInt64 /\ base <= cap
    BY BaseWaitBounds
  <1>2. PICK j \in RetryJitter(base) : w = Wrap(base + j)
    BY DEF RetryWait
  <1>3. j \in Nat /\ 2 * j <= base /\ j <= MaxRetryJitter
    BY <1>1, RetryJitterBounds, MaxInt64Assumption
  <1>4. cap \in 1..MaxInt64 /\ MaxRetryJitter \in Nat
    BY MaxRetryWaitType, SecondAssumption DEF MaxRetryJitter
  <1>5. base + j \in Duration
    BY <1>1, <1>3, <1>4, MaxInt64Assumption DEF Duration
  <1>6. w = base + j
    BY <1>2, <1>5, WrapFits
  <1> HIDE DEF base, cap
  <1>7. w \in Nat /\ base <= w /\ w <= base + MaxRetryJitter /\ 2 * w <= 3 * base
    BY <1>1, <1>3, <1>4, <1>6, MaxInt64Assumption
  <1> QED BY <1>7 DEF base

\* retryWait returns the cap or the larger of the header and the curve, and
\* a padding on top of it: a floor, an escalation and a bound.  A cap within
\* MaxRetryJitter of the top of the word would wrap (retry.go:81-85).
THEOREM RetryWaitBounds ==
    ASSUME NEW attempt \in Nat, NEW retryAfter \in Duration,
           NEW retryMaxWait \in Duration,
           MaxRetryWait(retryMaxWait) <= MaxInt64 - MaxRetryJitter,
           NEW w \in RetryWait(attempt, retryAfter, retryMaxWait)
    PROVE  LET cap == MaxRetryWait(retryMaxWait)
           IN  /\ w \in Nat
               /\ w >= Lesser(retryAfter, cap)
               /\ w >= Lesser(ExponentialBackoff(attempt), cap)
               /\ w <= cap + MaxRetryJitter
               /\ 2 * w <= 3 * cap
  <1> DEFINE wait == BaseWait(attempt, retryAfter, retryMaxWait)
             cap == MaxRetryWait(retryMaxWait)
  <1>1. /\ wait \in 1..MaxInt64
        /\ wait <= cap
        /\ wait >= Lesser(retryAfter, cap)
        /\ wait >= Lesser(ExponentialBackoff(attempt), cap)
    BY BaseWaitBounds
  <1>2. /\ w \in Nat /\ wait <= w
        /\ w <= wait + MaxRetryJitter /\ 2 * w <= 3 * wait
    BY RetryWaitAroundBase
  <1>3. cap \in 1..MaxInt64 /\ MaxRetryJitter \in Nat
    BY MaxRetryWaitType, SecondAssumption DEF MaxRetryJitter
  <1>4. Lesser(retryAfter, cap) \in Int
        /\ Lesser(ExponentialBackoff(attempt), cap) \in Int
    BY <1>3, ExponentialBackoffType, MaxInt64Assumption DEF Lesser, Duration
  <1> HIDE DEF wait, cap
  <1>5. /\ w \in Nat
        /\ w >= Lesser(retryAfter, cap)
        /\ w >= Lesser(ExponentialBackoff(attempt), cap)
        /\ w <= cap + MaxRetryJitter
        /\ 2 * w <= 3 * cap
    BY <1>1, <1>2, <1>3, <1>4, MaxInt64Assumption
  <1> QED BY <1>5 DEF cap

\* The curve is never shorter than a second.
LEMMA CurveFloor ==
    ASSUME NEW attempt \in Nat
    PROVE  ExponentialBackoff(attempt) >= Second
  <1>1. CASE attempt >= BailOut
    BY <1>1, MaxInt64Assumption, SecondAssumption DEF ExponentialBackoff
  <1>2. CASE ~(attempt >= BailOut)
    <2>1. attempt \in 0..(BailOut - 1)
      BY <1>2, BailOutAssumption
    <2>2. 2^attempt \in Nat \ {0}
      BY <2>1, CurveAssumption
    <2>3. \A k \in Nat \ {0} : k * Second >= Second
      BY SecondAssumption
    <2> QED BY <1>2, <2>2, <2>3 DEF ExponentialBackoff
  <1> QED BY <1>1, <1>2

=============================================================================
