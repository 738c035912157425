----------------------------- MODULE MCRetryCall -----------------------------
(* Two concurrent calls, four clients, one tick per second. *)
EXTENDS RetryCall

CONSTANTS c1, c2, b1, b2

MCCalls == {c1, c2}
MCBody == [c \in MCCalls |-> IF c = c1 THEN b1 ELSE b2]

\* Retries within a budget of one and two; no attempt timeout; no retries.
MCClients == {
    [retryEnabled |-> TRUE, maxRetries |-> 2,
     requestTimeout |-> 1, retryMaxWait |-> 4],
    [retryEnabled |-> TRUE, maxRetries |-> 1,
     requestTimeout |-> 0, retryMaxWait |-> 2],
    [retryEnabled |-> FALSE, maxRetries |-> 1,
     requestTimeout |-> 1, retryMaxWait |-> 0]}

\* A header that wrapped, none, and one above the cap.
MCRetryAfters == {-3, 0, 5}
=============================================================================
