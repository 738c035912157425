# TLA+ models of firezone-go

firezone-go is the Go SDK for the Firezone REST API. It is a library: a
`Client` is built once by `NewClient`, is immutable from then on, and is shared
by any number of goroutines, each of which makes calls through it. A call is
one HTTP request, retried on 429 only. What can go wrong is therefore not in a
shared variable but between the client, the network, the server's rate limiter,
the clock and the caller's context, and in what the API does with requests that
arrive twice, late or next to somebody else's.

## 1. Inventory

| Component (source) | State | Operations | Interacts with | Hard behaviour | Correct when |
|---|---|---|---|---|---|
| Construction (`firezone.go` NewClient, options, checkBaseURL) | the Client's fields | NewClient, With* | every call reads the fields | options in any order, the first error stops | a returned client meets what the loop and the transport assume |
| Request pipeline (`firezone.go` do, doList, rawRequest; `retry.go` requestWithRetry) | per call: loop counter, attempt timeout, wait, context | one attempt, retry, wait, return | network, server, caller's context | lost and late messages, races of timer, answer and cancellation | one effect per call, truthful results, every call returns |
| Wait computation (`retry.go`, `errors.go` parseRetryAfter) | none | retryWait and its helpers | the loop | caps, overflow, random padding | waits keep the floor, escalate and are bounded |
| Rate limiter (external) | tokens | take, refill | all calls of the account | many callers, one token | nobody is starved while the budget covers the queue |
| Paths (`path.go`) | none | checkID, buildPath, resolvePath | every service method | dots, slashes, empty identifiers | an identifier is exactly one segment of one path |
| Service methods (`sites.go` ... `directories.go`) | none | List, Get, Create, Update, Delete, ... | pipeline | order of checks | nothing invalid is sent, each method makes its own request |
| Merge-patch (`null.go`, Update structs) | tri-state fields | Set, Clear, Marshal, Unmarshal | server's merge | omitted, null and zero; two writers | an update changes the fields it names and no other |
| Memberships, pool members | none (the server's sets) | List, ReplaceAll, Patch | server, other administrators | replacing a stale list, late patches | patches of distinct members commute, a repeat is harmless |
| Gateway tokens (`gateways.go`) | none (the server's tokens) | Provision, RotateToken, Get, Delete | server, gateway hosts | a lost answer loses a one-time secret, a late request starts a grace period | a host can always be given a working token, a confirmed pickup is one |
| Pagination (`pagination.go`, doList) | the caller's cursor | List | server, other administrators | changes between pages | items present throughout are seen exactly once |
| Errors (`errors.go`) | none | parseAPIError, Is* | pipeline, callers | | classified by status |
| User agent, tests, CI | | | | | not modelled: text and build code |

PROJECT.json lists the same components with their status, and under `hazards`
every place of the code where one of these behaviours bites.

## 2. Modules

* `Backoff` - the pure functions of `retry.go` and parseRetryAfter. Durations
  are integers of a parametric word (`MaxInt64`) with `Second` ticks a second;
  the random padding makes `RetryWait` a set. `BailOut` is the literal 30.
  `CurveAssumption` is what that literal is for (2^n s fits the word below it).
* `RetryBudget` - one call throttled at every attempt, with the default budget.
  State: attempts made, last header, last wait, sum of waits.
* `RetryCall` - the core. Each call has a `pc` ("ready" = about to enter
  rawRequest, "waiting" = inside Do/ReadAll, "backoff" = in the select),
  the loop counter `attempt`, one countdown `timer` (the attempt's timeout or
  the wait), its caller's `ctx` and its `outcome`. The network is the set of
  `requests` and of `responses`; the server's state is `effects`, the bodies it
  has applied for each call, and `ask`, how long it still wants the call to
  stay away. There is one action per way through the code: `Send`,
  `SendOnDoneContext`, `NetworkError`, `AttemptTimesOut`, `AbortAttempt`
  (rawRequest); `ReceiveResult`, `ReceiveUndecodable`, `ReceiveError`,
  `BackOff`, `Retry`, `AbortBackoff` (requestWithRetry and do); `Call` and
  `Cancel` are the caller's; `Serve`, `Throttle`, `Reject`, `Fail` the
  server's; `LoseRequest`, `LoseResponse` the network's; `Tick` is time.
* `CallContract` - what a caller may rely on, with two actions: a call is
  applied at most once, and a call returns something that is true. `RetryCall`
  implements it with the identity mapping (`ImplementsContract`).
* `TokenBucket` - the retry loop of many calls against the rate limiter that
  the comment on defaultMaxRetries describes.
* `Paths` - checkID, buildPath and resolvePath, with the parts of net/url they
  rely on. A text is a sequence of atoms; "/", "?", "." and "%2F" (three
  characters that look like an escape) are the ones that matter. A URL keeps
  both `Path` and `RawPath`, because `EscapedPath` compares them.
* `Api` - the routes of testdata/openapi.json below the SDK's collections
  (those it does not call included), a normalising proxy and the router.
* `Services` - every service method as a record: the identifiers it checks in
  order, the body it wraps, verb, path and what it decodes. One call goes
  through `Refuse` or `Send` (up to rawRequest), `Answer` (the API) and
  `Return` (do, doList). Disable and Enable are Updates with a body of their
  own. Query parameters and the fields of bodies are left out. The identifiers
  and the escaped base paths are constants, so TLC takes small sets of them and
  the proofs take any.
* `Construction` - NewClient. An option is the record of the fields it writes;
  `RejectURL`/`AcceptURL` are url.Parse and checkBaseURL, `ApplyOption`,
  `FailOption` and `ReturnClient` the loop over the options. A bad option that
  slips through shows only later, so the model goes on to the first call through
  the client: the entry of the retry loop, and rawRequest as far as it depends
  on the client's fields and the base URL.
* `Pagination` - the cursor loop of `example_test.go` over List:
  listOptionsToQuery, the page, its metadata, and the loop's three exits (last
  page, error, next cursor). The collection is a variable for others to change.
* `Memberships` - EXTENDS `Pagination` and instantiates `CallContract` for its
  writes: administrators issue `Patch` or `ReplaceAll` calls, each after the one
  before has returned, and each takes effect (`TakeEffect`) at most once and
  perhaps after the caller was told of a transport error. `ReplaceAll` sends the
  list its caller has read, edited; `ReplaceUnread` one that was never read.
  `memberships.go` and `pool_members.go` are the same code but for names.
* `MemberSet` - the abstract specification one administrator may rely on: its
  own members change by its own calls alone, unless somebody replaces the list.
* `MergePatch` - the seven Update structs as functions from fields to kinds,
  the caller's values, `Marshal` (omitempty and Null.MarshalJSON), the server's
  `Merged`, and `Unmarshal` of the answer. Calls are those of `CallContract`.
* `FieldStore` - the abstract specification of a partial update: it assigns the
  named fields, all at once, and no other.
* `GatewayToken` - one administrator, one host, and the API as the comments of
  `gateways.go` describe it. `created`, `inUse` (gateway_token_id), `pending`
  and `rotated` (what is left of the grace period after rotated_at) are the
  server's; a call is in flight, applied, or given up on (`GiveUp`), in which
  case its request may arrive later (`ApplyStray`). `TakeSecret` is the only
  place where a secret becomes known. The host connects, crashes and is given a
  new configuration (`Deliver`); the administrator acts on what `Poll` (a Get)
  showed it, which may be out of date by then.
* `BackoffProofs`, `ThrottlingProofs` (of `RetryBudget` and `TokenBucket`),
  `RetryCallProofs`, `ConstructionProofs`, `ServicesProofs` (with those of
  `Paths` and `Api`), `MembershipsProofs`, `MergePatchProofs`,
  `GatewayTokenProofs` - the proofs.
* `MCRetryCall`, `MCRetryBudget`, `MCTokenBucket`, `MCServices`,
  `MCConstruction`, `MCMemberships`, `MCMergePatch`, `MCGatewayToken` - the
  instances TLC checks.

`CallContract` holds the project together: `RetryCall` is proved to implement
it, and `Memberships` and `MergePatch` are built on it rather than on HTTP, so
what they show of late and repeated calls rests on what the pipeline was shown
to do.

Definitions marked "Mutant" stand next to the definition they spoil. They are
plausible bugs of that code; nothing refers to them, and PROJECT.json pairs each
with the property that catches it.

What the models assume of code outside the repository: net/http replays no
POST, PATCH, PUT or DELETE on its own, so the network does not duplicate; an
answer reaches only the attempt that asked; Do sends nothing on a context that
is already done. The server looks at a request only after it has given it a
token, so a 429 (like any other 4xx) has no effect; a 5xx may have had one. A
cursor names a position in a fixed order rather than a page number: the source
says only that it leads to the following page, and with page numbers no reader
could see every item. What the API does with members, fields and tokens is
taken from the comments of the methods that ask for it, and marked external.

## 3. Runs

| Run | Instance | Shows |
|---|---|---|
| `retry_call` | 2 calls; clients with 2 retries, timeout 1 and cap 4; 1 retry, no timeout, cap 2; no retries. Retry-After negative (wrapped), 0 and 5 | the types, `AtMostOnce`, `SafeToReissue`, `OneInFlight`, `Ledger`, `ImplementsContract`, `RespectsAsk`; and `EveryCallReturns`, `CancelledCallReturns` |
| `retry_budget` | word of 11 bits, 4 ticks a second; caps default, 5 s and the whole word; headers unreadable, 1, 7, 60 s and one that wraps | `CappedFloor`, `CapPlusJitter`, `BudgetCoversTwoMinutes`, `HerdSpreads`, `EscalatesUntilCapped` |
| `token_bucket` | 7 calls, burst 2, 2 retries, 2 ticks a second, symmetric calls | `LosersWereOutrun` |
| `services` | all methods; 37 identifiers; nil or other bodies; base paths "", "/", "/v1", "/v1/" | `ReachesItsRoute`, `RefusedForAReason`, `DecodesItsAnswer` |
| `construction` | every combination of defects of a base URL; up to 3 of 11 options, bad ones among them | `LastOptionWins`, `BuiltToWork`, `BaseAddsNothing` |
| `memberships` | 2 administrators with disjoint members, 2 and 1 calls, patching or replacing; 4 IDs, of which the server knows 3; pages of 2 although 3 are asked for | `SeenOnce`, `LoopEnds`, `Undisturbed` (refinement of `MemberSet`), `AcknowledgedStands`, `FreshReplaceSparesOthers` |
| `merge_patch` | 2 calls naming up to 2 and 1 fields, of each of the 7 kinds of object, blank or not | `AssignsWhatItNames` (refinement of `FieldStore`), `AnswerShowsTheUpdate` |
| `gateway_token` | 3 calls lost or late, grace period of 2 ticks, 4 Gateway IDs and 8 secrets used over and over | `PickupConfirmed`, `OrphansCounted`, `Seamless`, `Recovers` |
| `retry_after_floor`, `max_wait_cap`, `ten_attempts` | as `retry_budget` | three sentences of the documentation that the code does not keep |
| `unusable_ids` | as `services` | a fourth one, on ErrMissingID |

**Bounds.** In `retry_call` calls share only the read-only client, so two are
enough for every interference of one with another; two retries give a first, a
middle and a last attempt; 5 > cap 4 > 1 covers a header above the cap and a
curve below it, and a wait of 4 has two possible paddings. Time is not bounded: countdowns
run down, so the state space is finite without a clock. `Tick` may lag behind
and goroutines behind it, so every race of timer, answer and cancellation
occurs. In `retry_budget` the small word overflows where an int64 does: in the
header's product, in the curve and in wait + padding. In `token_bucket` the
patience is 2 + 1 + 2 = 5, so five calls are never starved, and with seven the
action `Lose` does happen.

In `services` the identifiers are
all texts of at most two atoms - so every way an identifier can begin, end or
vanish - and longer ones aimed at other routes; nested methods take every pair
of them.

In `construction` three options let two writers of a field meet an option that
fails, in every order. In `memberships` the first administrator's two calls are
what a late call needs to meet a later one, and every change is there with its
opposite; the second page holds the other's member, so a loop that stops early
loses it. The outcomes "ok", "rejected" and "transport" stand for the three
kinds CallContract tells apart (effective, effectless, open). In `merge_patch`
two fields of one call and one of the other overlap or do not. In
`gateway_token` three losses suffice for an orphan, a lost secret and a late
rotation in one history; a Gateway or secret that nothing refers to is used
again, so the histories themselves are unbounded. A request to mint waits while
every Gateway ID or secret is in use (`Supplied`): on this instance that never
happens, and the theorems about the module need it for instances where it could.

**Deadlock** is checked in `retry_call`, `token_bucket` and `gateway_token`: no call is ever
stuck with nothing left that could move it. `retry_budget`, `services`,
`construction`, `memberships` and `merge_patch` end when the calls have
returned, so their configurations turn the check off.

**Fairness** (`RetryCall!Fairness`): weak fairness of `Tick` (time passes) and of each
call's own steps (the Go scheduler runs a goroutine whose timer, context or
answer is ready). None for the server, the network or the caller:
`EveryCallReturns` holds although nobody ever answers, because every attempt
has a timeout, and `CancelledCallReturns` holds without a timeout because the
caller's context reaches every attempt and every wait.
`LoopEnds` assumes that a loop's List calls are made and end (weak fairness of
`ReadPage`), and nothing of the writers. `GatewayToken!Fairness`: calls end, the
administrator looks again, delivers what it holds and repairs what it sees
offline (weak fairness of each, which is what a reconciling program does), and
strong fairness of `Connect`: a host retries for ever, and its administrator is
not for ever fast enough to replace each token before it is used. Losses are
bounded by `MaxLost`; crashes, late requests and routine rotations are not
required and not limited otherwise.

**What the results mean for a user.** A result is definite or not. "Rate
limited", another 4xx, and the bare context error of an interrupted wait mean
the request was not applied and never will be. A transport error - a timeout
and a cancellation during an attempt among them - leaves it open, and the
request may still be applied after the call has returned. With the default
options (burst 20, waits 1, 2, 4, 8, 16, 30, ...) the patience of
`LosersWereOutrun` is 20 + 31 + 5 * 20 = 151 requests: a run of up to 151
requests loses none, in any order. Each 30 s wait counts only for the 20
tokens the bucket can hold.

A patch of members that was acknowledged stands, unless a call of the same
administrator that ended in a transport error asks for the contrary: such a call
should be repeated or awaited before its opposite is made. A Gateway whose
Provision failed at the transport may exist and has to be looked for with List:
at most one for each failure. A RotateToken given up on may arrive after a
later pickup was confirmed and silently start a grace period, so one confirming
Get is not the last one: what `Recovers` shows is that looking again is enough.

Three more sentences are narrower than they read. gateways.go:212 says that the
current token is not invalidated immediately; a token that no host has connected
with yet is (openapi.json:19203), so a host that has it installed is locked out
until the next one is delivered (`ServeRotate`; `Recovers` includes the case).
RotationPending is false for a Gateway that has never connected, whatever was
minted for it (gateways.go:33-34 against :22-30), so `PickupConfirmed` asks for a
token id as well. And firezone.go:18-19 says that a field left at its zero value
is omitted, but the Name of UpdateGatewayRequest and UpdateClientRequest is
always sent, on purpose (clients.go:45-47): an update has to name it, and in
`Wants` it does.

**Documentation the code does not keep** (`findings`): Retry-After is not a
floor above the cap (retry.go:83); WithRetryMaxWait does not cap the padding
(retry.go:84); the default budget is eleven attempts, not ten (README.md:199); "." and ".."
are unusable identifiers but not ErrMissingID (path.go:10).

## 4. Proofs

All for arbitrary constants: any set of calls, administrators, Gateways and
identifiers, any bodies, any clients that WithRetry and WithRequestTimeout can
build, any headers, any word size. The assumptions are the named ASSUMEs of the
modules, which TLC evaluates on every instance. Besides the ranges of the
parameters they say: the largest duration leaves room for the curve
(`CurveAssumption`); a cap lies at least MaxRetryJitter below it (above, the sum
of retryWait wraps; this is a hypothesis where the properties of `RetryBudget`
have it, and an assumption of `TokenBucket`); administrators own disjoint
members; `None` and the kinds of JSON values are no calls, bodies or IDs; and
identifiers are texts of any length over any characters, base paths escaped texts
without a raw "?", which checkBaseURL and url.Parse leave none of.

* `BackoffProofs`: `RetryWaitBounds` - what retryWait returns, from the bounds
  of the padding (`RetryJitterBounds`), of the wait before it
  (`RetryWaitAroundBase`, `BaseWaitBounds`, `CurveFloor`) and from `WrapFits`.
* `ThrottlingProofs`, of `RetryBudget`: `RetryBudgetTypeCorrect`, `RetryAfterFloor`,
  `WaitBounded`, `WaitsEscalate`, `TwoMinutesAreCovered`, `CallersSpread`. The
  properties say nothing about where the last wait came from; the invariant
  `WaitWasComputed` does, and with the doubling of the curve (`CurveDoubles`)
  gives escalation. The two minutes are `CoveredSoFar`: after each attempt the
  sum is at least that of 1, 2, 4, 8, 16, 30, ... seconds. CallersSpread has
  hypotheses: the padding is drawn from less than half of the wait, so a wait
  shorter than four ticks has only one; a second and every cap are at least that
  long.
  Of `TokenBucket`: `BucketTypeCorrect`, `LosersAreOutrun`, and from it
  `NobodyLoses`: a group of calls no larger than the patience of its budget
  loses none. LosersWereOutrun speaks of the moment of losing only; the
  invariant `Account` says what each call is owed before that. The tokens won
  and those in the bucket never fall below the patience of a call's attempts so
  far, and for a call that waits they will not fall below it once the tokens
  due during the rest of its wait have arrived. Either they arrive or the bucket
  was full, which is why the patience counts no wait beyond `Burst`. The recursion
  of `Patience` is unfolded from the least number at which it could fail.
* `RetryCallProofs`: `TypeCorrect`; `Safety`, the inductive invariant;
  `OnePlaceOnly`, `ResultsAreTrue`, `AppliedAtMostOnce`, `ReissueIsSafe` from
  it; `Refinement`; `RetryAfterRespected`. AtMostOnce is not inductive: nothing
  in it prevents a retry while an earlier request is still on its way.
  `OneInFlight` says the fate of a call is in one place (an unapplied request,
  or the only answer), and `Ledger` that a call about to send, or waiting to,
  has had no effect. The step proofs rest on three lemmas: `ReturnSafe` (a
  return is true), `AnswerSafe` (an answer replaces its request) and `LossSafe`.
  For Retry-After the invariant `AskCovered` follows what the server asked from
  its answer to the timer.
* `ConstructionProofs`: `ClientsAreUsable` and `NoCallGoesUnattempted`, for any
  options in any number, from the invariant `Sound`: besides the two properties
  it keeps the base URL checked and an attempt within the budget. The lemma
  `ConfiguredReturned` is the heart of it: an accepted option, whichever fields
  it writes, keeps a client usable. `ReturnedClientsFitThePipeline` joins the modules: every
  client that is returned is in `Configurations`, which is all that `RetryCall`
  assumes of its clients.
  `TheLastOptionWins` is proved along the loop: `Applied` says of every prefix of
  the options what the property says of all. `TheBaseAddsNothing` needs of the base
  URL that it was accepted without a query.
* `ServicesProofs`: `RequestsReachTheirRoutes`, `RefusalsHaveReasons`,
  `AnswersAreDecoded`, `ServicesTypeCorrect`, for every method, any identifiers and any
  base path, in four stages.
  Of `Paths`, an identifier alone: `EscapeLosesNothing`, `EscapeHidesSeparators`,
  `EscapingSurvives` - it is one segment on the wire and comes out as it went in.
  A whole path: `BuildPathSplits` (splitting undoes joining) and from it
  `RouterSeesTheCallersSegments`: under any base, and with or without a proxy that
  normalises, the router decodes the very segments the method started from.
  The library's folds recurse over sets of indices; each is first turned into a
  run, the sequence of its results element by element, so that what holds of every
  step holds of the fold by induction on a length (`Induction`, which is the
  library's well-foundedness of the naturals applied to a set).
  The tables: routes and methods are grouped by shape (`RouteKinds`, `MethodKinds`),
  a method's words are those of one route only (`RouteReached`, `MethodReached`),
  the API has that route (`RoutesOffer`) and its parameters are the caller's
  identifiers (`ParametersOfShape`).
  The calls: the properties compare what the API or the caller sees with the method
  called and say nothing of the states before, so they are not inductive. The
  invariant `ServicesInv` is: what is on the wire is what the method asked for, and
  nothing had to be refused (`WireInv`); a waiting answer has the shape that will
  be decoded (`AnswerInv`); a call returns success or what refused it
  (`ResultInv`). TLC checked it on the instance of `services` first.
* `MembershipsProofs`: `MembershipsTypeCorrect`, `PagingIsExact`,
  `AcknowledgedPatchesStand`, `FreshReplacementsSpareOthers`,
  `AdministratorsAreUndisturbed` (the composition implements `MemberSet`, the
  steps of others being stutters). The invariant has three parts. `PageInv`: what a
  loop has been handed lies up to its cursor, and of what stayed, all of it does.
  `CallsInv`: calls are made one after the other and act at most once, and
  (`LastStands`) an administrator's last call stands from the moment it takes
  effect, not of its acknowledgement, which is what makes AcknowledgedStands
  inductive. `FreshInv`: until a write intervenes, the reader's list is the
  collection, and the list it then sends differs from it in its own members only.
* `MergePatchProofs`: `FieldsKeepTheirKinds`, `AnswersShowUpdates`,
  `UpdatesAssignWhatTheyName` (a refinement of `FieldStore`). The invariant says
  that a request spells what its caller wanted, and of an effect that has
  happened what the answer will show. The step that matters is
  `TakeEffect`: merging what `Marshal` made of a request assigns what was wanted.
* `GatewayTokenProofs`: `PickupIsConfirmed`, `OrphansAreCounted`,
  `RotationsAreSeamless`. What makes PickupConfirmed inductive is where a token may
  be: a pending token that the administrator or the host holds belongs to the
  Gateway under management and is the last secret taken (`TokenInv`), and while a
  minted one is on its way, no pending one is held by anybody (`MintedInv`).
  `CallInv` ties the call in flight to the Gateway it is about. OrphansCounted
  alone forgets the requests that may still arrive; `Counted` counts them with the
  orphans, by cardinalities.

Only model-checked: the liveness properties `EveryCallReturns`,
`CancelledCallReturns`, `LoopEnds` and `Recovers`. They rest on fairness, whose
ENABLED the prover does not handle. The sentences that runs refute are, of
course, not theorems either.

## 5. Plan

The modules are written and every safety property and refinement that a run
checks is proved. What would extend the project, in this order:

1. `Pagination` backwards (PrevPage), with the same exactness as forwards.
2. The filters of the List methods as predicates on the collection, so that a
   loop is exact for what its filter selects.
3. `GatewayToken` with several administrators of one Gateway; the orphans would
   then have to be counted per administrator.

## 6. Not modelled

* The text of the user agent, of errors and of log lines; User-Agent and version
  are a constant nothing depends on.
* Errors beyond the status that decides (`IsNotFound` and its like are one
  comparison each), and validation_errors, which is data.
* Paging backwards with PrevPage, and the filters of the List methods: they are
  passed through to the query.
* Bodies of Create requests: the struct is encoded as it is.
* Null.UnmarshalJSON, which the SDK never calls (null.go:50-53).
* Tests, the comparison with openapi.json and CI: build code, read as evidence
  of what the API does.
