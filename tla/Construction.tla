----------------------------- MODULE Construction -----------------------------
(***************************************************************************)
(* NewClient: the checks of the base URL, the options in the order given,  *)
(* and what the client it returns then does with a call.  An option that   *)
(* is accepted by mistake fails much later, in rawRequest or in the retry  *)
(* loop, so the model goes on to the first call made through the client.   *)
(*                                                                         *)
(* An option is the assignment it makes: a record of the client's fields   *)
(* it writes.                                                              *)
(***************************************************************************)
EXTENDS Backoff, Sequences

CONSTANTS
    URLs,           \* what url.Parse makes of the base URLs
    Options,        \* the options a caller may pass
    MaxOptions      \* the most options it passes: a bound of the model

HTTPClients == {"nil", "default", "custom"}
UserAgents == {"", "default", "custom"}

OptionKinds ==
    [httpClient : HTTPClients \ {"default"}]
    \cup [userAgent : UserAgents \ {"default"}]
    \cup [requestTimeout : Duration]
    \cup [retryEnabled : BOOLEAN, maxRetries : Int]
    \cup [retryMaxWait : Duration]

ASSUME OptionsAssumption == Options \subseteq OptionKinds
ASSUME URLsAssumption ==
    URLs \subseteq [parses : BOOLEAN, scheme : {"http", "https", "other"},
                    host : {"", "host"}, query : {"", "base"},
                    forceQuery : BOOLEAN, fragment : {"", "base"}]
ASSUME MaxOptionsAssumption == MaxOptions \in Nat

VARIABLES
    url,        \* the base URL
    opts,       \* the options passed to NewClient
    pc,         \* how far NewClient, or the call, has come
    next,       \* the index of the option to apply next
    client,     \* the client under construction
    query,      \* the query the method of the call asks for, or "none"
    wire,       \* the queries of the requests the call has sent
    result      \* what the call returned

vars == <<url, opts, pc, next, client, query, wire, result>>

DefaultRequestTimeout == 30 * Second

DefaultMaxRetries == 10

DefaultClient ==
    [httpClient |-> "default", userAgent |-> "default",
     requestTimeout |-> DefaultRequestTimeout,
     retryEnabled |-> TRUE, maxRetries |-> DefaultMaxRetries,
     retryMaxWait |-> 0]

Init ==
    /\ url \in URLs
    /\ opts \in UNION {[1..n -> Options] : n \in 0..MaxOptions}
    /\ pc = "parsing"
    /\ next = 1
    /\ client = DefaultClient
    /\ query = "none"
    /\ wire = <<>>
    /\ result = "none"

-----------------------------------------------------------------------------
(* NewClient. *)

\* Mutant: a bare "?" is overlooked.
CheckBaseURLNoForce(u) ==
    /\ u.parses
    /\ u.scheme \in {"http", "https"}
    /\ u.host # ""
    /\ u.query = ""
    /\ u.fragment = ""

CheckBaseURL(u) ==
    /\ u.parses
    /\ u.scheme \in {"http", "https"}
    /\ u.host # ""
    /\ u.query = ""
    /\ ~u.forceQuery
    /\ u.fragment = ""

RejectURL ==
    /\ pc = "parsing"
    /\ ~CheckBaseURL(url)
    /\ pc' = "failed"
    /\ UNCHANGED <<url, opts, next, client, query, wire, result>>

AcceptURL ==
    /\ pc = "parsing"
    /\ CheckBaseURL(url)
    /\ pc' = "applying"
    /\ UNCHANGED <<url, opts, next, client, query, wire, result>>

\* Mutant: a negative budget is accepted.
AcceptsAnyBudget(o) ==
    /\ "httpClient" \in DOMAIN o => o.httpClient # "nil"
    /\ "userAgent" \in DOMAIN o => o.userAgent # ""
    /\ "requestTimeout" \in DOMAIN o => o.requestTimeout >= 0

\* Mutant: a negative timeout is accepted.
AcceptsAnyTimeout(o) ==
    /\ "httpClient" \in DOMAIN o => o.httpClient # "nil"
    /\ "userAgent" \in DOMAIN o => o.userAgent # ""
    /\ "maxRetries" \in DOMAIN o => o.maxRetries >= 0

\* WithRetryMaxWait takes any duration.
Accepts(o) ==
    /\ "httpClient" \in DOMAIN o => o.httpClient # "nil"
    /\ "userAgent" \in DOMAIN o => o.userAgent # ""
    /\ "requestTimeout" \in DOMAIN o => o.requestTimeout >= 0
    /\ "maxRetries" \in DOMAIN o => o.maxRetries >= 0

\* Mutant: WithRetry(false, n) keeps the budget of an earlier WithRetry.
ConfiguredUnlessDisabled(c, o) ==
    [f \in DOMAIN c |->
        IF f = "maxRetries" /\ f \in DOMAIN o
        THEN IF o.retryEnabled THEN o[f] ELSE c[f]
        ELSE IF f \in DOMAIN o THEN o[f] ELSE c[f]]

Configured(c, o) ==
    [f \in DOMAIN c |-> IF f \in DOMAIN o THEN o[f] ELSE c[f]]

ApplyOption ==
    /\ pc = "applying"
    /\ next <= Len(opts)
    /\ Accepts(opts[next])
    /\ client' = Configured(client, opts[next])
    /\ next' = next + 1
    /\ UNCHANGED <<url, opts, pc, query, wire, result>>

FailOption ==
    /\ pc = "applying"
    /\ next <= Len(opts)
    /\ ~Accepts(opts[next])
    /\ pc' = "failed"
    /\ UNCHANGED <<url, opts, next, client, query, wire, result>>

ReturnClient ==
    /\ pc = "applying"
    /\ next > Len(opts)
    /\ pc' = "built"
    /\ UNCHANGED <<url, opts, next, client, query, wire, result>>

-----------------------------------------------------------------------------
(* The first call through the client, on a context that is never done. *)

Queries == {"absent", "", "page"}

\* The loop of requestWithRetry makes no attempt on a negative budget.
LoopRuns == client.retryEnabled => 0 <= client.maxRetries

Call ==
    /\ pc = "built"
    /\ query' \in Queries
    /\ pc' = IF LoopRuns THEN "attempting" ELSE "returned"
    /\ result' = IF LoopRuns THEN "none" ELSE "noAttempts"
    /\ UNCHANGED <<url, opts, next, client, wire>>

\* A client, a deadline and a URL that Do can work with at all.
CanSend ==
    /\ client.httpClient # "nil"
    /\ client.requestTimeout >= 0
    /\ url.scheme \in {"http", "https"} /\ url.host # ""

\* A query of the method's own, even an empty one, replaces the base URL's;
\* String writes the "?" of a URL parsed with one.
QueryOnWire ==
    [text |-> IF query = "absent" THEN url.query ELSE query,
     mark |-> \/ url.forceQuery
              \/ (IF query = "absent" THEN url.query ELSE query) # ""]

\* A 429, within the budget.
Throttled ==
    /\ pc = "attempting"
    /\ CanSend
    /\ client.retryEnabled
    /\ Len(wire) # client.maxRetries
    /\ wire' = Append(wire, QueryOnWire)
    /\ UNCHANGED <<url, opts, pc, next, client, query, result>>

\* The answer that ends the call, a last 429 included.
Answered ==
    /\ pc = "attempting"
    /\ wire' = IF CanSend THEN Append(wire, QueryOnWire) ELSE wire
    /\ result' = IF CanSend THEN "answered" ELSE "unsent"
    /\ pc' = "returned"
    /\ UNCHANGED <<url, opts, next, client, query>>

Next == \/ RejectURL \/ AcceptURL
        \/ ApplyOption \/ FailOption \/ ReturnClient
        \/ Call \/ Throttled \/ Answered

Spec == Init /\ [][Next]_vars

-----------------------------------------------------------------------------
(* Properties. *)

\* What the retry loop and the transport need of a client.
ReturnedClients ==
    [httpClient : HTTPClients \ {"nil"}, userAgent : UserAgents \ {""},
     requestTimeout : Nat, retryEnabled : BOOLEAN, maxRetries : Nat,
     retryMaxWait : Duration]

(* The variables hold what their names say; a client, even one that an option
   has yet to fail, is one the retry loop can work with: a budget and a
   timeout that are not negative, a transport (firezone.go:256, :219, :147). *)
TypeOK ==
    /\ url \in URLs
    /\ opts \in Seq(Options)
    /\ pc \in {"parsing", "failed", "applying", "built", "attempting",
               "returned"}
    /\ next \in 1..(Len(opts) + 1)
    /\ client \in ReturnedClients
    /\ query \in Queries \cup {"none"}
    /\ wire \in Seq([text : {"", "base", "page"}, mark : BOOLEAN])
    /\ result \in {"none", "answered", "unsent", "noAttempts"}

\* The options that write a field, by their indices.
Writers(f) == {i \in 1..Len(opts) : f \in DOMAIN opts[i]}

(* NewClient returns a client only if every option was acceptable, and each
   of its fields is then the last option's that wrote it, or the default:
   options neither undo nor half-apply one another (firezone.go:132-136). *)
LastOptionWins ==
    pc = "built" =>
        /\ \A i \in 1..Len(opts) : Accepts(opts[i])
        /\ \A f \in DOMAIN DefaultClient :
               IF Writers(f) = {} THEN client[f] = DefaultClient[f]
               ELSE \E i \in Writers(f) : /\ \A j \in Writers(f) : j <= i
                                          /\ client[f] = opts[i][f]

(* Whatever NewClient let through, a call of the client reaches the network,
   and it is attempted at most once more than its last WithRetry allows: it
   never returns having attempted nothing (retry.go:58-66). *)
BuiltToWork ==
    pc = "returned" =>
        /\ result = "answered"
        /\ Len(wire) \in 1..(IF client.retryEnabled
                             THEN client.maxRetries + 1 ELSE 1)

(* The query on the wire is the method's own, at every attempt: the base URL
   adds nothing to some calls that others drop (firezone.go:292-296). *)
BaseAddsNothing ==
    \A i \in 1..Len(wire) :
        /\ wire[i].text = IF query = "absent" THEN "" ELSE query
        /\ wire[i].mark <=> wire[i].text # ""

=============================================================================
