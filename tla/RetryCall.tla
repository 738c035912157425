------------------------------ MODULE RetryCall ------------------------------
(***************************************************************************)
(* Concurrent calls through one Client: do, requestWithRetry and           *)
(* rawRequest, from the moment a service method hands them a request to    *)
(* the moment they return.                                                 *)
(*                                                                         *)
(* Each call is a goroutine with its own context.  It shares nothing with  *)
(* the others but the read-only Client, the network and the server.  The   *)
(* network loses and delays messages; a request whose caller has given up  *)
(* is still on its way and may still be applied.  net/http replays neither *)
(* a POST, PATCH, PUT nor DELETE, so it duplicates none.                   *)
(*                                                                         *)
(* Time is a set of countdowns that Tick lowers together.  A countdown at  *)
(* zero is due, not taken: a late answer and the timer may race, and the   *)
(* scheduler may run a goroutine long after its timer has fired.           *)
(***************************************************************************)
EXTENDS Backoff, Sequences

CONSTANTS
    Calls,          \* the calls made through one client
    Body,           \* the request body of each call
    Clients,        \* the configurations NewClient may have returned
    RetryAfters     \* the Retry-After durations of the server's 429s

ASSUME ClientsAssumption == Clients \subseteq Configurations
\* A header of absurd length wraps, and may come out negative.
ASSUME RetryAftersAssumption == RetryAfters \subseteq Duration

VARIABLES
    client,     \* the configuration of the Client, fixed by NewClient
    pc,         \* where each call is
    attempt,    \* its loop counter
    timer,      \* its attempt timeout, or its retry wait, still to run
    ctx,        \* the caller's context: "live" or "done"
    outcome,    \* what it returned
    requests,   \* requests on their way to the server
    responses,  \* answers on their way back
    effects,    \* the bodies the server has applied for each call, in order
    ask         \* how long the server still wants each call to stay away

callVars == <<pc, attempt, timer, ctx, outcome>>
netVars == <<requests, responses>>
serverVars == <<effects, ask>>
vars == <<client, callVars, netVars, serverVars>>

Contract == INSTANCE CallContract

Requests == [call : Calls, attempt : Nat, body : {Body[c] : c \in Calls}]

Statuses == {"ok", "throttled", "rejected", "failed"}
Responses == [call : Calls, attempt : Nat, status : Statuses,
              retryAfter : RetryAfters \cup {0}]

Init ==
    /\ client \in Clients
    /\ pc = [c \in Calls |-> "idle"]
    /\ attempt = [c \in Calls |-> 0]
    /\ timer = [c \in Calls |-> 0]
    /\ ctx = [c \in Calls |-> "live"]
    /\ outcome = [c \in Calls |-> "none"]
    /\ requests = {}
    /\ responses = {}
    /\ effects = [c \in Calls |-> <<>>]
    /\ ask = [c \in Calls |-> 0]

-----------------------------------------------------------------------------
(* The caller. *)

Call(c) ==
    /\ pc[c] = "idle"
    /\ pc' = [pc EXCEPT ![c] = "ready"]
    /\ UNCHANGED <<client, attempt, timer, ctx, outcome, netVars, serverVars>>

\* The caller cancels the context it passed in, or its deadline expires:
\* before the call starts, or at any time while it runs.
Cancel(c) ==
    /\ pc[c] # "done"
    /\ ctx[c] = "live"
    /\ ctx' = [ctx EXCEPT ![c] = "done"]
    /\ UNCHANGED <<client, pc, attempt, timer, outcome, netVars, serverVars>>

-----------------------------------------------------------------------------
(* One attempt: rawRequest. *)

Return(c, o) ==
    /\ pc' = [pc EXCEPT ![c] = "done"]
    /\ outcome' = [outcome EXCEPT ![c] = o]
    /\ timer' = [timer EXCEPT ![c] = 0]
    /\ UNCHANGED <<client, attempt, ctx, serverVars>>

\* Mutant: one reader for all attempts, drained by the first.
DrainedReader(c, n) == IF n = 0 THEN Body[c] ELSE "drained"

\* Every attempt reads the captured bytes from the start.
Reader(c, n) == Body[c]

\* Zero imposes no timeout.
AttemptTimer == client.requestTimeout

Send(c) ==
    /\ pc[c] = "ready"
    /\ ctx[c] = "live"
    /\ requests' = requests \cup
           {[call |-> c, attempt |-> attempt[c],
             body |-> Reader(c, attempt[c])]}
    /\ pc' = [pc EXCEPT ![c] = "waiting"]
    /\ timer' = [timer EXCEPT ![c] = AttemptTimer]
    /\ UNCHANGED <<client, attempt, ctx, outcome, responses, serverVars>>

\* Do looks at the context before it sends anything.
SendOnDoneContext(c) ==
    /\ pc[c] = "ready"
    /\ ctx[c] = "done"
    /\ Return(c, "transport")
    /\ UNCHANGED netVars

\* Mutant: a network error is retried like a 429.
NetworkErrorRetried(c) ==
    LET again == attempt[c] < client.maxRetries
    IN  /\ pc[c] = "waiting"
        /\ pc' = [pc EXCEPT ![c] = IF again THEN "backoff" ELSE "done"]
        /\ outcome' = [outcome EXCEPT ![c] = IF again THEN @ ELSE "transport"]
        /\ timer' = [timer EXCEPT ![c] = Second]
        /\ UNCHANGED <<client, attempt, ctx, netVars, serverVars>>

\* No connection, a broken one, or a response body that ends early.
NetworkError(c) ==
    /\ pc[c] = "waiting"
    /\ Return(c, "transport")
    /\ UNCHANGED netVars

\* Mutant: the timeout is set up once for the call, not for each attempt.
FirstAttemptTimesOut(c) ==
    /\ pc[c] = "waiting"
    /\ client.requestTimeout > 0
    /\ attempt[c] = 0
    /\ timer[c] = 0
    /\ Return(c, "transport")
    /\ UNCHANGED netVars

AttemptTimesOut(c) ==
    /\ pc[c] = "waiting"
    /\ client.requestTimeout > 0
    /\ timer[c] = 0
    /\ Return(c, "transport")
    /\ UNCHANGED netVars

\* Mutant: an aborted attempt returns the bare context error, as an aborted
\* wait does.
AbortAttemptBare(c) ==
    /\ pc[c] = "waiting"
    /\ ctx[c] = "done"
    /\ Return(c, "context")
    /\ UNCHANGED netVars

\* Mutant: the request carries the context only when a timeout derives one.
AbortAttemptWithTimeout(c) ==
    /\ pc[c] = "waiting"
    /\ ctx[c] = "done"
    /\ client.requestTimeout > 0
    /\ Return(c, "transport")
    /\ UNCHANGED netVars

AbortAttempt(c) ==
    /\ pc[c] = "waiting"
    /\ ctx[c] = "done"
    /\ Return(c, "transport")
    /\ UNCHANGED netVars
-----------------------------------------------------------------------------
(* What the call does with the answer: requestWithRetry and do. *)

\* p is the answer to the attempt the call is waiting for.
Answers(p, c) ==
    /\ pc[c] = "waiting"
    /\ p.call = c
    /\ p.attempt = attempt[c]

IsRateLimited(status) == status = "throttled"

\* Mutant: a 5xx is retried too.
MayRetryServerErrors(c, status) ==
    /\ client.retryEnabled
    /\ IsRateLimited(status) \/ status = "failed"
    /\ attempt[c] # client.maxRetries

\* Mutant: one retry too many.
MayRetryOnceMore(c, status) ==
    /\ client.retryEnabled
    /\ IsRateLimited(status)
    /\ attempt[c] <= client.maxRetries

\* Only a 429 is worth another attempt, and only within the budget.
MayRetry(c, status) ==
    /\ client.retryEnabled
    /\ IsRateLimited(status)
    /\ attempt[c] # client.maxRetries

\* A 2xx whose body do can decode.
ReceiveResult(c) ==
    \E p \in responses :
        /\ Answers(p, c)
        /\ p.status = "ok"
        /\ responses' = responses \ {p}
        /\ Return(c, "ok")
        /\ UNCHANGED requests

\* A 2xx whose body do cannot decode: an error, though the call took effect.
ReceiveUndecodable(c) ==
    \E p \in responses :
        /\ Answers(p, c)
        /\ p.status = "ok"
        /\ responses' = responses \ {p}
        /\ Return(c, "undecodable")
        /\ UNCHANGED requests

\* Mutant: a 5xx is reported as a refusal.
RefusalOf(status) ==
    IF IsRateLimited(status) THEN "rateLimited" ELSE "rejected"

ErrorOf(status) == IF IsRateLimited(status) THEN "rateLimited" ELSE status

\* An APIError that is not retried.
ReceiveError(c) ==
    \E p \in responses :
        /\ Answers(p, c)
        /\ p.status # "ok"
        /\ ~MayRetry(c, p.status)
        /\ responses' = responses \ {p}
        /\ Return(c, ErrorOf(p.status))
        /\ UNCHANGED requests

\* A wait that wrapped below zero is over at once.
BackOff(c) ==
    \E p \in responses :
        /\ Answers(p, c)
        /\ p.status # "ok"
        /\ MayRetry(c, p.status)
        /\ responses' = responses \ {p}
        /\ \E w \in RetryWait(attempt[c], p.retryAfter, client.retryMaxWait) :
               timer' = [timer EXCEPT ![c] = Larger(w, 0)]
        /\ pc' = [pc EXCEPT ![c] = "backoff"]
        /\ UNCHANGED <<client, attempt, ctx, outcome, requests, serverVars>>

\* The wait is over.  When the context is done too, select picks either case.
Retry(c) ==
    /\ pc[c] = "backoff"
    /\ timer[c] = 0
    /\ attempt' = [attempt EXCEPT ![c] = @ + 1]
    /\ pc' = [pc EXCEPT ![c] = "ready"]
    /\ UNCHANGED <<client, timer, ctx, outcome, netVars, serverVars>>

AbortBackoff(c) ==
    /\ pc[c] = "backoff"
    /\ ctx[c] = "done"
    /\ Return(c, "context")
    /\ UNCHANGED netVars

-----------------------------------------------------------------------------
(* The server and the network. *)

Answer(r, status, after) ==
    /\ requests' = requests \ {r}
    /\ responses' = responses \cup
           {[call |-> r.call, attempt |-> r.attempt,
             status |-> status, retryAfter |-> after]}
    /\ UNCHANGED <<client, callVars>>

Applied(r) == effects' = [effects EXCEPT ![r.call] = Append(@, r.body)]

Serve(r) ==
    /\ Answer(r, "ok", 0)
    /\ Applied(r)
    /\ UNCHANGED ask

\* The bucket is empty: the request is turned away before it is looked at.
\* The floor the client promises is the header's, as far as its cap lets it.
Throttle(r) ==
    \E after \in RetryAfters :
        /\ Answer(r, "throttled", after)
        /\ ask' = [ask EXCEPT ![r.call] =
               Larger(Lesser(after, MaxRetryWait(client.retryMaxWait)), 0)]
        /\ UNCHANGED effects

\* A 4xx other than 429.
Reject(r) ==
    /\ Answer(r, "rejected", 0)
    /\ UNCHANGED serverVars

\* A 5xx, before or after the request took effect.
Fail(r) ==
    /\ Answer(r, "failed", 0)
    /\ Applied(r) \/ UNCHANGED effects
    /\ UNCHANGED ask

LoseRequest(r) ==
    /\ requests' = requests \ {r}
    /\ UNCHANGED <<client, callVars, responses, serverVars>>

LoseResponse(p) ==
    /\ responses' = responses \ {p}
    /\ UNCHANGED <<client, callVars, requests, serverVars>>

Tick ==
    /\ \E c \in Calls : timer[c] > 0 \/ ask[c] > 0
    /\ timer' = [c \in Calls |-> Larger(timer[c] - 1, 0)]
    /\ ask' = [c \in Calls |-> Larger(ask[c] - 1, 0)]
    /\ UNCHANGED <<client, pc, attempt, ctx, outcome, netVars, effects>>

-----------------------------------------------------------------------------

\* What the SDK itself does, once the runtime schedules the goroutine.
ClientStep(c) ==
    \/ Send(c)
    \/ SendOnDoneContext(c)
    \/ AttemptTimesOut(c)
    \/ AbortAttempt(c)
    \/ ReceiveResult(c)
    \/ ReceiveUndecodable(c)
    \/ ReceiveError(c)
    \/ BackOff(c)
    \/ Retry(c)
    \/ AbortBackoff(c)

CallerStep(c) == Call(c) \/ Cancel(c) \/ NetworkError(c)

ServerStep(r) == Serve(r) \/ Throttle(r) \/ Reject(r) \/ Fail(r)

\* Every call has returned and nothing is left on the wire.
AllReturned ==
    /\ \A c \in Calls : pc[c] = "done"
    /\ UNCHANGED vars

Next ==
    \/ \E c \in Calls : ClientStep(c) \/ CallerStep(c)
    \/ \E r \in requests : ServerStep(r) \/ LoseRequest(r)
    \/ \E p \in responses : LoseResponse(p)
    \/ Tick
    \/ AllReturned

\* Time passes and goroutines run.  Nothing is promised of the server, of
\* the network or of the caller.
Fairness == WF_vars(Tick) /\ \A c \in Calls : WF_vars(ClientStep(c))

Spec == Init /\ [][Next]_vars /\ Fairness

-----------------------------------------------------------------------------
(* Properties. *)

\* The variables hold what their names say.
TypeOK ==
    /\ client \in Clients
    /\ pc \in [Calls -> {"idle", "ready", "waiting", "backoff", "done"}]
    /\ attempt \in [Calls -> Nat]
    /\ timer \in [Calls -> Nat]
    /\ ctx \in [Calls -> {"live", "done"}]
    /\ outcome \in [Calls -> Contract!Outcomes]
    /\ requests \subseteq Requests
    /\ responses \subseteq Responses
    /\ effects \in [Calls -> Seq({Body[c] : c \in Calls})]
    /\ ask \in [Calls -> Nat]

(* A call's mutation is applied at most once, with the whole body, however
   often the call is retried and however late a request arrives
   (README.md:198-201, firezone.go:39-42). *)
AtMostOnce == \A c \in Calls : effects[c] \in {<<>>, <<Body[c]>>}

(* A call that returned "rate limited", "rejected" or the bare context error
   was not applied, and nothing of it is left that could still be applied:
   the caller may issue it again. *)
SafeToReissue ==
    \A c \in Calls : outcome[c] \in Contract!Effectless =>
        /\ effects[c] = <<>>
        /\ \A r \in requests : r.call # c

\* Something of call c may be on the wire.
Outstanding(c) == pc[c] = "waiting" \/ outcome[c] = "transport"

(* The fate of a call is in one place only: a request that has not been
   applied, or the one answer to it, never both and never two, and nothing
   at all before the call is sent, between its attempts, or after it
   returned an answer of the server. *)
OneInFlight ==
    /\ \A r \in requests : /\ Outstanding(r.call)
                           /\ r.body = Body[r.call]
                           /\ effects[r.call] = <<>>
    /\ \A p \in responses :
           /\ Outstanding(p.call)
           /\ p.status = "ok" => effects[p.call] = <<Body[p.call]>>
           /\ p.status \in {"throttled", "rejected"} => effects[p.call] = <<>>
    /\ \A r1, r2 \in requests : r1.call = r2.call => r1 = r2
    /\ \A p1, p2 \in responses : p1.call = p2.call => p1 = p2
    /\ \A r \in requests, p \in responses : r.call # p.call

Budget == IF client.retryEnabled THEN client.maxRetries ELSE 0

(* What the client knows of a call agrees with what the server did: nothing
   has taken effect while the call is about to send or waits to retry, and
   what it returned is true.  It never overruns its budget. *)
Ledger ==
    \A c \in Calls :
        /\ outcome[c] = "none" <=> pc[c] # "done"
        /\ pc[c] \in {"idle", "ready", "backoff"} => effects[c] = <<>>
        /\ outcome[c] \in Contract!Effectless => effects[c] = <<>>
        /\ outcome[c] \in Contract!Effective => effects[c] = <<Body[c]>>
        /\ attempt[c] <= Budget
        /\ pc[c] = "backoff" => attempt[c] < Budget

(* What a call returns agrees with what the server did, at every step: the
   detailed system implements the contract. *)
ImplementsContract == Contract!Spec

(* No attempt reaches the network before the time the server asked for, as
   far as the cap allows, counted from the server's own answer (retry.go:71):
   the client only learns of it later, and neither delays nor the other calls
   shorten its wait.  A cap within the padding of the largest duration would
   wrap the wait. *)
RespectsAsk ==
    [][MaxRetryWait(client.retryMaxWait) <= MaxInt64 - MaxRetryJitter
         => \A r \in requests' \ requests : ask[r.call] = 0]_vars

(* With an attempt timeout every call returns, even if the server never
   answers and every message is lost (firezone.go:174-183). *)
EveryCallReturns ==
    \A c \in Calls :
        (pc[c] = "ready" /\ client.requestTimeout > 0) ~> (pc[c] = "done")

(* Without one, the caller's context still ends the call, wherever it is. *)
CancelledCallReturns ==
    \A c \in Calls :
        (pc[c] = "ready" \/ pc[c] = "waiting" \/ pc[c] = "backoff")
            /\ ctx[c] = "done" ~> pc[c] = "done"

=============================================================================
