--------------------------- MODULE RetryCallProofs ---------------------------
(***************************************************************************)
(* Safety of concurrent calls, for every number of calls, every client     *)
(* configuration and every Retry-After: the types, at most one effect per  *)
(* call, and results that tell the truth about it.                         *)
(***************************************************************************)
EXTENDS RetryCall, BackoffProofs

LEMMA ClientType ==
    ASSUME TypeOK
    PROVE  /\ client.maxRetries \in Nat
           /\ client.requestTimeout \in Nat
           /\ client.retryMaxWait \in Duration
           /\ Budget \in Nat
  <1>1. client \in [retryEnabled : BOOLEAN, maxRetries : Nat,
                    requestTimeout : Nat, retryMaxWait : Duration]
    BY ClientsAssumption DEF TypeOK, Configurations
  <1>2. /\ client.maxRetries \in Nat
        /\ client.requestTimeout \in Nat
        /\ client.retryMaxWait \in Duration
    BY <1>1
  <1>3. Budget \in Nat
    BY <1>2, Zenon DEF Budget
  <1> QED BY <1>2, <1>3

\* An answer that may be retried leaves the call within its budget.
LEMMA MayRetryBudget ==
    ASSUME TypeOK, NEW c \in Calls, NEW status \in Statuses,
           MayRetry(c, status), attempt[c] <= Budget
    PROVE  attempt[c] < Budget /\ status = "throttled"
  <1>1. Budget = client.maxRetries /\ attempt[c] # client.maxRetries
        /\ status = "throttled"
    BY Zenon DEF MayRetry, IsRateLimited, Budget
  <1>2. attempt[c] \in Nat
    BY DEF TypeOK
  <1>3. Budget \in Nat
    BY ClientType
  <1> QED BY <1>1, <1>2, <1>3

-----------------------------------------------------------------------------
(* Types. *)

LEMMA LargerType ==
    ASSUME NEW x \in Int
    PROVE  Larger(x, 0) \in Nat
  BY DEF Larger

LEMMA ReturnType ==
    ASSUME TypeOK, NEW c \in Calls, NEW o \in Contract!Outcomes,
           Return(c, o), requests' \subseteq requests,
           responses' \subseteq responses
    PROVE  TypeOK'
  BY DEF TypeOK, Return, serverVars

LEMMA AnswerType ==
    ASSUME TypeOK, NEW r \in requests, NEW status \in Statuses,
           NEW after \in RetryAfters \cup {0}, Answer(r, status, after),
           effects' \in [Calls -> Seq({Body[c] : c \in Calls})],
           ask' \in [Calls -> Nat]
    PROVE  TypeOK'
  <1>1. r \in Requests
    BY DEF TypeOK
  <1>2. [call |-> r.call, attempt |-> r.attempt,
         status |-> status, retryAfter |-> after] \in Responses
    BY <1>1 DEF Requests, Responses
  <1> QED BY <1>2 DEF TypeOK, Answer, callVars

LEMMA AppliedType ==
    ASSUME TypeOK, NEW r \in requests, Applied(r)
    PROVE  effects' \in [Calls -> Seq({Body[c] : c \in Calls})]
  <1>1. r.call \in Calls /\ r.body \in {Body[c] : c \in Calls}
    BY DEF TypeOK, Requests
  <1>2. Append(effects[r.call], r.body) \in Seq({Body[c] : c \in Calls})
    BY <1>1 DEF TypeOK
  <1> QED BY <1>1, <1>2 DEF TypeOK, Applied

LEMMA ClientStepType ==
    ASSUME TypeOK, NEW c \in Calls, ClientStep(c)
    PROVE  TypeOK'
  <1>1. CASE Send(c)
    <2>1. [call |-> c, attempt |-> attempt[c],
           body |-> Reader(c, attempt[c])] \in Requests
      BY DEF TypeOK, Requests, Reader
    <2>2. AttemptTimer \in Nat
      BY ClientType DEF AttemptTimer
    <2> QED BY <1>1, <2>1, <2>2 DEF TypeOK, Send, serverVars
  <1>2. CASE SendOnDoneContext(c) \/ AttemptTimesOut(c) \/ AbortAttempt(c)
             \/ AbortBackoff(c)
    <2>1. \E o \in {"transport", "context"} : Return(c, o)
      BY <1>2 DEF SendOnDoneContext, AttemptTimesOut, AbortAttempt,
                  AbortBackoff
    <2>2. requests' = requests /\ responses' = responses
      BY <1>2 DEF SendOnDoneContext, AttemptTimesOut, AbortAttempt,
                  AbortBackoff, netVars
    <2> QED BY <2>1, <2>2, ReturnType DEF Contract!Outcomes
  <1>3. CASE ReceiveResult(c) \/ ReceiveUndecodable(c) \/ ReceiveError(c)
    <2>1. PICK p \in responses :
              /\ \E o \in {"ok", "undecodable", ErrorOf(p.status)} : Return(c, o)
              /\ responses' = responses \ {p}
              /\ requests' = requests
      BY <1>3 DEF ReceiveResult, ReceiveUndecodable, ReceiveError
    <2>2. p.status \in Statuses
      BY DEF TypeOK, Responses
    <2>3. ErrorOf(p.status) \in Contract!Outcomes
      BY <2>2 DEF Statuses, ErrorOf, IsRateLimited, Contract!Outcomes
    <2> QED BY <2>1, <2>3, ReturnType DEF Contract!Outcomes
  <1>4. CASE BackOff(c)
    <2>1. PICK p \in responses :
              /\ responses' = responses \ {p}
              /\ \E w \in RetryWait(attempt[c], p.retryAfter,
                                    client.retryMaxWait) :
                     timer' = [timer EXCEPT ![c] = Larger(w, 0)]
      BY <1>4 DEF BackOff
    <2>2. p.retryAfter \in Duration
      <3>1. p.retryAfter \in RetryAfters \cup {0}
        BY DEF TypeOK, Responses
      <3>2. 0 \in Duration
        BY MaxInt64Assumption DEF Duration
      <3> QED BY <3>1, <3>2, RetryAftersAssumption
    <2>3. RetryWait(attempt[c], p.retryAfter, client.retryMaxWait)
              \subseteq Int
      <3>1. attempt[c] \in Nat
        BY DEF TypeOK
      <3>2. RetryWait(attempt[c], p.retryAfter, client.retryMaxWait)
                \subseteq Duration
        BY <2>2, <3>1, ClientType, RetryWaitType
      <3> QED BY <3>2, MaxInt64Assumption DEF Duration
    <2>4. timer' \in [Calls -> Nat]
      BY <2>1, <2>3, LargerType DEF TypeOK
    <2> QED BY <1>4, <2>1, <2>4 DEF BackOff, TypeOK, serverVars
  <1>5. CASE Retry(c)
    BY <1>5 DEF Retry, TypeOK, netVars, serverVars
  <1> QED BY <1>1, <1>2, <1>3, <1>4, <1>5 DEF ClientStep

LEMMA ServerStepType ==
    ASSUME TypeOK, NEW r \in requests, ServerStep(r)
    PROVE  TypeOK'
  <1>1. CASE Serve(r)
    BY <1>1, AnswerType, AppliedType DEF Serve, Statuses, TypeOK
  <1>2. CASE Throttle(r)
    <2>1. PICK after \in RetryAfters :
              /\ Answer(r, "throttled", after)
              /\ ask' = [ask EXCEPT ![r.call] =
                     Larger(Lesser(after, MaxRetryWait(client.retryMaxWait)), 0)]
              /\ UNCHANGED effects
      BY <1>2 DEF Throttle
    <2>2. after \in Int /\ MaxRetryWait(client.retryMaxWait) \in Int
      BY RetryAftersAssumption, ClientType, MaxRetryWaitType,
         MaxInt64Assumption DEF Duration
    <2>3. Lesser(after, MaxRetryWait(client.retryMaxWait)) \in Int
      BY <2>2 DEF Lesser
    <2>4. ask' \in [Calls -> Nat]
      BY <2>1, <2>3, LargerType DEF TypeOK
    <2> QED BY <2>1, <2>4, AnswerType DEF Statuses, TypeOK
  <1>3. CASE Reject(r)
    BY <1>3, AnswerType DEF Reject, Statuses, TypeOK, serverVars
  <1>4. CASE Fail(r)
    BY <1>4, AnswerType, AppliedType DEF Fail, Statuses, TypeOK
  <1> QED BY <1>1, <1>2, <1>3, <1>4 DEF ServerStep

\* The variables keep their types, whatever the calls, clients and headers.
THEOREM TypeCorrect == Spec => []TypeOK
  <1>1. Init => TypeOK
    BY DEF Init, TypeOK, Contract!Outcomes
  <1>2. TypeOK /\ [Next]_vars => TypeOK'
    <2> SUFFICES ASSUME TypeOK, [Next]_vars PROVE TypeOK'
      OBVIOUS
    <2>1. ASSUME NEW c \in Calls, ClientStep(c) PROVE TypeOK'
      BY <2>1, ClientStepType
    <2>2. ASSUME NEW c \in Calls, CallerStep(c) PROVE TypeOK'
      <3>1. CASE Call(c)
        BY <3>1 DEF Call, TypeOK, netVars, serverVars
      <3>2. CASE Cancel(c)
        BY <3>2 DEF Cancel, TypeOK, netVars, serverVars
      <3>3. CASE NetworkError(c)
        BY <3>3, ReturnType DEF NetworkError, netVars, Contract!Outcomes
      <3> QED BY <2>2, <3>1, <3>2, <3>3 DEF CallerStep
    <2>3. ASSUME NEW r \in requests, ServerStep(r) PROVE TypeOK'
      BY <2>3, ServerStepType
    <2>4. ASSUME NEW r \in requests, LoseRequest(r) PROVE TypeOK'
      BY <2>4 DEF LoseRequest, TypeOK, callVars, serverVars
    <2>5. ASSUME NEW p \in responses, LoseResponse(p) PROVE TypeOK'
      BY <2>5 DEF LoseResponse, TypeOK, callVars, serverVars
    <2>6. CASE Tick
      <3>1. \A c \in Calls : /\ timer[c] - 1 \in Int
                             /\ ask[c] - 1 \in Int
        BY DEF TypeOK
      <3>2. \A c \in Calls : /\ Larger(timer[c] - 1, 0) \in Nat
                             /\ Larger(ask[c] - 1, 0) \in Nat
        BY <3>1, LargerType
      <3> QED BY <2>6, <3>2 DEF Tick, TypeOK, netVars
    <2>7. CASE UNCHANGED vars
      BY <2>7 DEF vars, callVars, netVars, serverVars, TypeOK
    <2> QED
      BY <2>1, <2>2, <2>3, <2>4, <2>5, <2>6, <2>7 DEF Next, AllReturned
  <1> QED BY <1>1, <1>2, PTL DEF Spec

-----------------------------------------------------------------------------
(* The safety invariant. *)

Safe == OneInFlight /\ Ledger /\ AtMostOnce

LEMMA BudgetUnchanged ==
    ASSUME client' = client
    PROVE  Budget' = Budget
  BY Zenon DEF Budget

\* A call returns: what it returns must be true, and unless it is a
\* transport error nothing of the call may be left on the wire.
LEMMA ReturnSafe ==
    ASSUME TypeOK, Safe, NEW c \in Calls,
           pc[c] \in {"ready", "waiting", "backoff"},
           NEW o \in Contract!Outcomes \ {"none"}, Return(c, o),
           requests' = requests, responses' \subseteq responses,
           o = "transport" \/ /\ \A r \in requests : r.call # c
                              /\ \A p \in responses' : p.call # c,
           o \in Contract!Effectless => effects[c] = <<>>,
           o \in Contract!Effective => effects[c] = <<Body[c]>>
    PROVE  Safe'
  <1>1. /\ pc' = [pc EXCEPT ![c] = "done"]
        /\ outcome' = [outcome EXCEPT ![c] = o]
        /\ client' = client /\ attempt' = attempt /\ effects' = effects
    BY DEF Return, serverVars
  <1>2. /\ pc'[c] = "done" /\ outcome'[c] = o
        /\ \A d \in Calls \ {c} : pc'[d] = pc[d] /\ outcome'[d] = outcome[d]
    BY <1>1 DEF TypeOK
  <1>3. outcome[c] = "none"
    BY DEF Safe, Ledger
  <1>4. OneInFlight'
    <2>1. \A m \in requests \cup responses : m.call \in Calls
      BY DEF TypeOK, Requests, Responses
    <2>2. \A m \in requests' \cup responses' : Outstanding(m.call)'
      BY <1>2, <1>3, <2>1 DEF Safe, OneInFlight, Outstanding
    <2> QED BY <1>1, <2>2 DEF Safe, OneInFlight
  <1>5. Ledger'
    <2>1. Budget' = Budget
      BY <1>1, BudgetUnchanged
    <2>2. ASSUME NEW d \in Calls
          PROVE  /\ outcome'[d] = "none" <=> pc'[d] # "done"
                 /\ pc'[d] \in {"idle", "ready", "backoff"}
                        => effects'[d] = <<>>
                 /\ outcome'[d] \in Contract!Effectless => effects'[d] = <<>>
                 /\ outcome'[d] \in Contract!Effective
                        => effects'[d] = <<Body[d]>>
                 /\ attempt'[d] <= Budget'
                 /\ pc'[d] = "backoff" => attempt'[d] < Budget'
      <3>1. CASE d = c
        BY <1>1, <1>2, <2>1, <3>1 DEF Safe, Ledger
      <3>2. CASE d # c
        BY <1>1, <1>2, <2>1, <3>2 DEF Safe, Ledger
      <3> QED BY <3>1, <3>2
    <2> QED BY <2>2 DEF Ledger
  <1>6. AtMostOnce'
    BY <1>1 DEF Safe, AtMostOnce
  <1> QED BY <1>4, <1>5, <1>6 DEF Safe

\* When a call has taken its answer nothing of it is left on the wire.
LEMMA AnsweredAlone ==
    ASSUME TypeOK, Safe, NEW c \in Calls, NEW p \in responses, Answers(p, c)
    PROVE  /\ \A r \in requests : r.call # c
           /\ \A q \in responses \ {p} : q.call # c
           /\ p.status = "ok" => effects[c] = <<Body[c]>>
           /\ p.status \in {"throttled", "rejected"} => effects[c] = <<>>
           /\ pc[c] = "waiting"
           /\ p.status \in Statuses
  BY DEF Safe, OneInFlight, Answers, TypeOK, Responses

LEMMA ClientStepSafe ==
    ASSUME TypeOK, Safe, NEW c \in Calls, ClientStep(c)
    PROVE  Safe'
  <1>1. CASE Send(c)
    <2> DEFINE r == [call |-> c, attempt |-> attempt[c],
                     body |-> Reader(c, attempt[c])]
    <2>1. /\ pc[c] = "ready"
          /\ requests' = requests \cup {r} /\ responses' = responses
          /\ pc' = [pc EXCEPT ![c] = "waiting"]
          /\ outcome' = outcome /\ effects' = effects /\ attempt' = attempt
          /\ client' = client
      BY <1>1 DEF Send, serverVars
    <2>2. r.call = c /\ r.body = Body[c]
      BY DEF Reader
    <2> HIDE DEF r
    <2>3. /\ pc'[c] = "waiting"
          /\ \A d \in Calls \ {c} : pc'[d] = pc[d]
      BY <2>1 DEF TypeOK
    <2>4. outcome[c] = "none" /\ effects[c] = <<>>
      BY <2>1 DEF Safe, Ledger
    <2>5. \A m \in requests \cup responses : m.call \in Calls /\ m.call # c
      BY <2>1, <2>4 DEF TypeOK, Requests, Responses, Safe, OneInFlight,
                        Outstanding
    <2>6. \A m \in requests' \cup responses' : Outstanding(m.call)'
      BY <2>1, <2>2, <2>3, <2>5 DEF Safe, OneInFlight, Outstanding
    <2>7. OneInFlight'
      BY <2>1, <2>2, <2>4, <2>5, <2>6 DEF Safe, OneInFlight
    <2>8. Ledger'
      <3>1. Budget' = Budget
        BY <2>1, BudgetUnchanged
      <3> QED BY <2>1, <2>3, <2>4, <3>1 DEF Safe, Ledger
    <2>9. AtMostOnce'
      BY <2>1 DEF Safe, AtMostOnce
    <2> QED BY <2>7, <2>8, <2>9 DEF Safe
  <1>2. CASE SendOnDoneContext(c) \/ AttemptTimesOut(c) \/ AbortAttempt(c)
    <2>1. /\ pc[c] \in {"ready", "waiting"} /\ Return(c, "transport")
          /\ requests' = requests /\ responses' = responses
      BY <1>2 DEF SendOnDoneContext, AttemptTimesOut, AbortAttempt, netVars
    <2> QED
      BY <2>1, ReturnSafe DEF Contract!Outcomes, Contract!Effectless,
                              Contract!Effective
  <1>3. CASE ReceiveResult(c) \/ ReceiveUndecodable(c)
    <2>1. PICK p \in responses, o \in {"ok", "undecodable"} :
              /\ Answers(p, c) /\ p.status = "ok" /\ Return(c, o)
              /\ responses' = responses \ {p} /\ requests' = requests
      BY <1>3 DEF ReceiveResult, ReceiveUndecodable
    <2>2. o \in Contract!Outcomes \ {"none"} /\ o \notin Contract!Effectless
      BY DEF Contract!Outcomes, Contract!Effectless
    <2> QED BY <2>1, <2>2, AnsweredAlone, ReturnSafe
  <1>4. CASE ReceiveError(c)
    <2>1. PICK p \in responses :
              /\ Answers(p, c) /\ p.status # "ok"
              /\ Return(c, ErrorOf(p.status))
              /\ responses' = responses \ {p} /\ requests' = requests
      BY <1>4 DEF ReceiveError
    <2>2. p.status \in Statuses
      BY <2>1, AnsweredAlone
    <2>3. /\ ErrorOf(p.status) \in Contract!Outcomes \ {"none"}
          /\ ErrorOf(p.status) \notin Contract!Effective
          /\ ErrorOf(p.status) \in Contract!Effectless
                => p.status \in {"throttled", "rejected"}
      BY <2>1, <2>2 DEF Statuses, ErrorOf, IsRateLimited, Contract!Outcomes,
                        Contract!Effective, Contract!Effectless
    <2> QED BY <2>1, <2>3, AnsweredAlone, ReturnSafe
  <1>5. CASE BackOff(c)
    <2>1. PICK p \in responses :
              /\ Answers(p, c) /\ MayRetry(c, p.status)
              /\ responses' = responses \ {p} /\ requests' = requests
              /\ pc' = [pc EXCEPT ![c] = "backoff"]
              /\ outcome' = outcome /\ effects' = effects
              /\ attempt' = attempt /\ client' = client
      BY <1>5 DEF BackOff, serverVars
    <2>2. p.status \in Statuses /\ attempt[c] <= Budget
      BY <2>1, AnsweredAlone DEF Safe, Ledger
    <2>3. attempt[c] < Budget /\ p.status = "throttled"
      BY <2>1, <2>2, MayRetryBudget
    <2>4. /\ pc'[c] = "backoff"
          /\ \A d \in Calls \ {c} : pc'[d] = pc[d]
      BY <2>1 DEF TypeOK
    <2>5. /\ pc[c] = "waiting" /\ effects[c] = <<>>
          /\ \A m \in requests' \cup responses' : m.call \in Calls \ {c}
      <3>1. /\ \A r \in requests : r.call # c
            /\ \A q \in responses \ {p} : q.call # c
        BY <2>1, AnsweredAlone
      <3>2. pc[c] = "waiting" /\ effects[c] = <<>>
        BY <2>1, <2>3, AnsweredAlone
      <3> QED BY <2>1, <3>1, <3>2 DEF TypeOK, Requests, Responses
    <2>6. \A m \in requests' \cup responses' : Outstanding(m.call)'
      BY <2>1, <2>4, <2>5 DEF Safe, OneInFlight, Outstanding
    <2>7. OneInFlight'
      BY <2>1, <2>6 DEF Safe, OneInFlight
    <2>8. Ledger'
      <3>1. Budget' = Budget
        BY <2>1, BudgetUnchanged
      <3> QED BY <2>1, <2>3, <2>4, <2>5, <3>1 DEF Safe, Ledger
    <2>9. AtMostOnce'
      BY <2>1 DEF Safe, AtMostOnce
    <2> QED BY <2>7, <2>8, <2>9 DEF Safe
  <1>6. CASE Retry(c)
    <2>1. /\ pc[c] = "backoff"
          /\ attempt' = [attempt EXCEPT ![c] = @ + 1]
          /\ pc' = [pc EXCEPT ![c] = "ready"]
          /\ requests' = requests /\ responses' = responses
          /\ outcome' = outcome /\ effects' = effects /\ client' = client
      BY <1>6 DEF Retry, netVars, serverVars
    <2>2. /\ pc'[c] = "ready" /\ attempt'[c] = attempt[c] + 1
          /\ \A d \in Calls \ {c} : pc'[d] = pc[d] /\ attempt'[d] = attempt[d]
      BY <2>1 DEF TypeOK
    <2>3. /\ effects[c] = <<>> /\ outcome[c] = "none"
          /\ attempt[c] \in Nat /\ attempt[c] < Budget /\ Budget \in Nat
      BY <2>1, ClientType DEF TypeOK, Safe, Ledger
    <2>4. \A m \in requests \cup responses : m.call \in Calls /\ m.call # c
      BY <2>1, <2>3 DEF TypeOK, Requests, Responses, Safe, OneInFlight,
                        Outstanding
    <2>5. OneInFlight'
      BY <2>1, <2>2, <2>4 DEF Safe, OneInFlight, Outstanding
    <2>6. Ledger'
      <3>1. Budget' = Budget
        BY <2>1, BudgetUnchanged
      <3>2. attempt'[c] <= Budget
        BY <2>2, <2>3
      <3> QED BY <2>1, <2>2, <2>3, <3>1, <3>2 DEF Safe, Ledger
    <2>7. AtMostOnce'
      BY <2>1 DEF Safe, AtMostOnce
    <2> QED BY <2>5, <2>6, <2>7 DEF Safe
  <1>7. CASE AbortBackoff(c)
    <2>1. /\ pc[c] = "backoff" /\ Return(c, "context")
          /\ requests' = requests /\ responses' = responses
      BY <1>7 DEF AbortBackoff, netVars
    <2>2. effects[c] = <<>> /\ outcome[c] = "none"
      BY <2>1 DEF Safe, Ledger
    <2>3. \A m \in requests \cup responses : m.call # c
      BY <2>1, <2>2 DEF Safe, OneInFlight, Outstanding
    <2> QED
      BY <2>1, <2>2, <2>3, ReturnSafe
         DEF Contract!Outcomes, Contract!Effective
  <1> QED
    BY <1>1, <1>2, <1>3, <1>4, <1>5, <1>6, <1>7 DEF ClientStep

\* The server answers a request: the effect, if any, is the only one, and
\* the answer takes the request's place.
LEMMA AnswerSafe ==
    ASSUME TypeOK, Safe, NEW r \in requests, NEW status \in Statuses,
           NEW after \in RetryAfters \cup {0}, Answer(r, status, after),
           effects' = effects \/ Applied(r),
           status = "ok" => Applied(r),
           status \in {"throttled", "rejected"} => effects' = effects
    PROVE  Safe'
  <1> DEFINE p == [call |-> r.call, attempt |-> r.attempt,
                   status |-> status, retryAfter |-> after]
             c == r.call
  <1>1. /\ requests' = requests \ {r} /\ responses' = responses \cup {p}
        /\ client' = client /\ pc' = pc /\ attempt' = attempt
        /\ outcome' = outcome
    BY DEF Answer, callVars
  <1>2. p.call = c /\ p.status = status
    OBVIOUS
  <1>3. /\ c \in Calls /\ Outstanding(c) /\ r.body = Body[c]
        /\ effects[c] = <<>>
    BY DEF TypeOK, Requests, Safe, OneInFlight
  <1>4. /\ \A m \in requests' : m.call \in Calls /\ m.call # c
        /\ \A q \in responses : q.call \in Calls /\ q.call # c
    BY <1>1 DEF TypeOK, Requests, Responses, Safe, OneInFlight
  <1>5. /\ effects'[c] = effects[c] \/ effects'[c] = <<Body[c]>>
        /\ status = "ok" => effects'[c] = <<Body[c]>>
        /\ status \in {"throttled", "rejected"} => effects'[c] = <<>>
        /\ \A d \in Calls \ {c} : effects'[d] = effects[d]
    <2>1. Append(<<>>, Body[c]) = <<Body[c]>>
      OBVIOUS
    <2> QED BY <1>3, <2>1 DEF TypeOK, Applied
  <1> HIDE DEF p, c
  <1>6. OneInFlight'
    <2>1. \A m \in requests' : /\ Outstanding(m.call)'
                               /\ m.body = Body[m.call]
                               /\ effects'[m.call] = <<>>
      BY <1>1, <1>4, <1>5 DEF Safe, OneInFlight, Outstanding
    <2>2. \A q \in responses' :
             /\ Outstanding(q.call)'
             /\ q.status = "ok" => effects'[q.call] = <<Body[q.call]>>
             /\ q.status \in {"throttled", "rejected"}
                    => effects'[q.call] = <<>>
      BY <1>1, <1>2, <1>3, <1>4, <1>5 DEF Safe, OneInFlight, Outstanding
    <2>3. \A m1, m2 \in requests' : m1.call = m2.call => m1 = m2
      BY <1>1 DEF Safe, OneInFlight
    <2>4. \A p1, p2 \in responses' : p1.call = p2.call => p1 = p2
      BY <1>1, <1>2, <1>4 DEF Safe, OneInFlight
    <2>5. \A m \in requests', q \in responses' : m.call # q.call
      BY <1>1, <1>2, <1>4 DEF Safe, OneInFlight
    <2> QED BY <2>1, <2>2, <2>3, <2>4, <2>5 DEF OneInFlight
  <1>7. Ledger'
    <2>1. Budget' = Budget
      BY <1>1, BudgetUnchanged
    <2>2. /\ pc[c] \notin {"idle", "ready", "backoff"}
          /\ outcome[c] \in {"none", "transport"}
      BY <1>3 DEF Safe, Ledger, Outstanding, Contract!Effectless
    <2>3. /\ outcome[c] \notin Contract!Effectless
          /\ outcome[c] \notin Contract!Effective
      BY <2>2 DEF Contract!Effectless, Contract!Effective
    <2> QED BY <1>1, <1>5, <2>1, <2>2, <2>3 DEF Safe, Ledger
  <1>8. AtMostOnce'
    BY <1>3, <1>5 DEF Safe, AtMostOnce
  <1> QED BY <1>6, <1>7, <1>8 DEF Safe

LEMMA ServerStepSafe ==
    ASSUME TypeOK, Safe, NEW r \in requests, ServerStep(r)
    PROVE  Safe'
  <1>1. CASE Serve(r)
    BY <1>1, AnswerSafe DEF Serve, Statuses
  <1>2. CASE Throttle(r)
    BY <1>2, AnswerSafe DEF Throttle, Statuses
  <1>3. CASE Reject(r)
    BY <1>3, AnswerSafe DEF Reject, Statuses, serverVars
  <1>4. CASE Fail(r)
    BY <1>4, AnswerSafe DEF Fail, Statuses
  <1> QED BY <1>1, <1>2, <1>3, <1>4 DEF ServerStep

\* Steps that only take messages away, or touch nothing the invariant reads.
LEMMA LossSafe ==
    ASSUME Safe, requests' \subseteq requests, responses' \subseteq responses,
           UNCHANGED <<client, pc, attempt, outcome, effects>>
    PROVE  Safe'
  <1>1. OneInFlight'
    BY DEF Safe, OneInFlight, Outstanding
  <1>2. Ledger'
    BY BudgetUnchanged DEF Safe, Ledger
  <1>3. AtMostOnce'
    BY DEF Safe, AtMostOnce
  <1> QED BY <1>1, <1>2, <1>3 DEF Safe

LEMMA CallerStepSafe ==
    ASSUME TypeOK, Safe, NEW c \in Calls, CallerStep(c)
    PROVE  Safe'
  <1>1. CASE Call(c)
    <2>1. /\ pc[c] = "idle" /\ pc' = [pc EXCEPT ![c] = "ready"]
          /\ requests' = requests /\ responses' = responses
          /\ outcome' = outcome /\ effects' = effects
          /\ attempt' = attempt /\ client' = client
      BY <1>1 DEF Call, netVars, serverVars
    <2>2. /\ pc'[c] = "ready"
          /\ \A d \in Calls \ {c} : pc'[d] = pc[d]
      BY <2>1 DEF TypeOK
    <2>3. effects[c] = <<>> /\ outcome[c] = "none"
      BY <2>1 DEF Safe, Ledger
    <2>4. \A m \in requests \cup responses : m.call \in Calls \ {c}
      BY <2>1, <2>3 DEF TypeOK, Requests, Responses, Safe, OneInFlight,
                        Outstanding
    <2>5. OneInFlight'
      BY <2>1, <2>2, <2>4 DEF Safe, OneInFlight, Outstanding
    <2>6. Ledger'
      <3>1. Budget' = Budget
        BY <2>1, BudgetUnchanged
      <3> QED BY <2>1, <2>2, <2>3, <3>1 DEF Safe, Ledger
    <2>7. AtMostOnce'
      BY <2>1 DEF Safe, AtMostOnce
    <2> QED BY <2>5, <2>6, <2>7 DEF Safe
  <1>2. CASE Cancel(c)
    BY <1>2, LossSafe DEF Cancel, netVars, serverVars
  <1>3. CASE NetworkError(c)
    BY <1>3, ReturnSafe DEF NetworkError, netVars, Contract!Outcomes,
                            Contract!Effectless, Contract!Effective
  <1> QED BY <1>1, <1>2, <1>3 DEF CallerStep

\* Whatever is lost, late or retried, the fate of every call is in one place,
\* and what the client knows of it is true.
THEOREM Safety == Spec => []Safe
  <1>1. Init => Safe
    <2>1. ASSUME Init PROVE OneInFlight /\ AtMostOnce
      BY <2>1 DEF Init, OneInFlight, AtMostOnce
    <2>2. ASSUME Init PROVE Ledger
      <3>1. client \in [retryEnabled : BOOLEAN, maxRetries : Nat,
                        requestTimeout : Nat, retryMaxWait : Duration]
        BY <2>2, ClientsAssumption DEF Init, Configurations
      <3>2. client.maxRetries \in Nat
        BY <3>1
      <3>3. Budget \in Nat
        BY <3>2, Zenon DEF Budget
      <3> QED BY <2>2, <3>3 DEF Init, Ledger, Contract!Effectless,
                                Contract!Effective
    <2> QED BY <2>1, <2>2 DEF Safe
  <1>2. TypeOK /\ Safe /\ [Next]_vars => Safe'
    <2> SUFFICES ASSUME TypeOK, Safe, [Next]_vars PROVE Safe'
      OBVIOUS
    <2>1. ASSUME NEW c \in Calls, ClientStep(c) PROVE Safe'
      BY <2>1, ClientStepSafe
    <2>2. ASSUME NEW c \in Calls, CallerStep(c) PROVE Safe'
      BY <2>2, CallerStepSafe
    <2>3. ASSUME NEW r \in requests, ServerStep(r) PROVE Safe'
      BY <2>3, ServerStepSafe
    <2>4. ASSUME NEW r \in requests, LoseRequest(r) PROVE Safe'
      BY <2>4, LossSafe DEF LoseRequest, callVars, serverVars
    <2>5. ASSUME NEW p \in responses, LoseResponse(p) PROVE Safe'
      BY <2>5, LossSafe DEF LoseResponse, callVars, serverVars
    <2>6. CASE Tick
      BY <2>6, LossSafe DEF Tick, netVars
    <2>7. CASE UNCHANGED vars
      BY <2>7, LossSafe DEF vars, callVars, netVars, serverVars
    <2> QED
      BY <2>1, <2>2, <2>3, <2>4, <2>5, <2>6, <2>7 DEF Next, AllReturned
  <1> QED BY <1>1, <1>2, TypeCorrect, PTL DEF Spec

\* A call is one request on its way or one answer to it, never both and never two,
\* and nothing before it is sent, between its attempts (retry.go:31-66) or after
\* an answer ended it, for any number of calls.
THEOREM OnePlaceOnly == Spec => []OneInFlight
  <1>1. Safe => OneInFlight
    BY DEF Safe
  <1> QED BY <1>1, Safety, PTL

\* What a call returns is what the server did, nothing has taken effect while it
\* waits to retry, and it never overruns the client's budget.
THEOREM ResultsAreTrue == Spec => []Ledger
  <1>1. Safe => Ledger
    BY DEF Safe
  <1> QED BY <1>1, Safety, PTL

\* However often a call is retried and however late its requests arrive, its
\* mutation takes effect at most once, with the caller's body.
THEOREM AppliedAtMostOnce == Spec => []AtMostOnce
  <1>1. Safe => AtMostOnce
    BY DEF Safe
  <1> QED BY <1>1, Safety, PTL

\* After a result that reports no effect, none happens later.
THEOREM ReissueIsSafe == Spec => []SafeToReissue
  <1>1. TypeOK /\ Safe => SafeToReissue
    BY DEF TypeOK, Requests, Safe, OneInFlight, Ledger, Outstanding,
           SafeToReissue, Contract!Effectless
  <1> QED BY <1>1, Safety, TypeCorrect, PTL

-----------------------------------------------------------------------------
(* The detailed system implements the contract. *)

\* A call returns: one step of the contract.
LEMMA ReturnRefines ==
    ASSUME TypeOK, Safe, NEW c \in Calls, pc[c] # "done",
           NEW o \in Contract!Outcomes \ {"none"}, Return(c, o),
           o \in Contract!Effectless => effects[c] = <<>>,
           o \in Contract!Effective => effects[c] = <<Body[c]>>
    PROVE  Contract!Next
  <1>1. outcome[c] = "none"
    BY DEF Safe, Ledger
  <1>2. <<Body[c]>> # <<>>
    OBVIOUS
  <1>3. Contract!Return(c, o)
    BY <1>1, <1>2 DEF Return, serverVars, Contract!Return
  <1> QED BY <1>3 DEF Contract!Next

LEMMA ClientStepRefines ==
    ASSUME TypeOK, Safe, NEW c \in Calls, ClientStep(c)
    PROVE  Contract!Next \/ UNCHANGED <<outcome, effects>>
  <1>1. CASE Send(c) \/ BackOff(c) \/ Retry(c)
    BY <1>1 DEF Send, BackOff, Retry, serverVars
  <1>2. CASE SendOnDoneContext(c) \/ AttemptTimesOut(c) \/ AbortAttempt(c)
    <2>1. pc[c] # "done" /\ Return(c, "transport")
      BY <1>2 DEF SendOnDoneContext, AttemptTimesOut, AbortAttempt
    <2> QED
      BY <2>1, ReturnRefines DEF Contract!Outcomes, Contract!Effectless,
                                 Contract!Effective
  <1>3. CASE ReceiveResult(c) \/ ReceiveUndecodable(c)
    <2>1. PICK p \in responses, o \in {"ok", "undecodable"} :
              Answers(p, c) /\ p.status = "ok" /\ Return(c, o)
      BY <1>3 DEF ReceiveResult, ReceiveUndecodable
    <2>2. o \in Contract!Outcomes \ {"none"} /\ o \notin Contract!Effectless
      BY DEF Contract!Outcomes, Contract!Effectless
    <2> QED BY <2>1, <2>2, AnsweredAlone, ReturnRefines
  <1>4. CASE ReceiveError(c)
    <2>1. PICK p \in responses :
              Answers(p, c) /\ p.status # "ok" /\ Return(c, ErrorOf(p.status))
      BY <1>4 DEF ReceiveError
    <2>2. p.status \in Statuses
      BY <2>1, AnsweredAlone
    <2>3. /\ ErrorOf(p.status) \in Contract!Outcomes \ {"none"}
          /\ ErrorOf(p.status) \notin Contract!Effective
          /\ ErrorOf(p.status) \in Contract!Effectless
                => p.status \in {"throttled", "rejected"}
      BY <2>1, <2>2 DEF Statuses, ErrorOf, IsRateLimited, Contract!Outcomes,
                        Contract!Effective, Contract!Effectless
    <2> QED BY <2>1, <2>3, AnsweredAlone, ReturnRefines
  <1>5. CASE AbortBackoff(c)
    <2>1. pc[c] = "backoff" /\ Return(c, "context")
      BY <1>5 DEF AbortBackoff
    <2>2. effects[c] = <<>>
      BY <2>1 DEF Safe, Ledger
    <2> QED
      BY <2>1, <2>2, ReturnRefines DEF Contract!Outcomes, Contract!Effective
  <1> QED BY <1>1, <1>2, <1>3, <1>4, <1>5 DEF ClientStep

LEMMA ServerStepRefines ==
    ASSUME TypeOK, Safe, NEW r \in requests, ServerStep(r)
    PROVE  Contract!Next \/ UNCHANGED <<outcome, effects>>
  <1>1. outcome' = outcome
    BY DEF ServerStep, Serve, Throttle, Reject, Fail, Answer, callVars
  <1>2. CASE effects' = effects
    BY <1>1, <1>2
  <1>3. CASE Applied(r)
    <2>1. /\ r.call \in Calls /\ r.body = Body[r.call]
          /\ effects[r.call] = <<>>
          /\ outcome[r.call] \in {"none", "transport"}
      BY DEF TypeOK, Requests, Safe, OneInFlight, Ledger, Outstanding
    <2>2. Append(<<>>, Body[r.call]) = <<Body[r.call]>>
      OBVIOUS
    <2>3. Contract!Apply(r.call)
      BY <1>1, <1>3, <2>1, <2>2 DEF Applied, Contract!Apply
    <2> QED BY <2>1, <2>3 DEF Contract!Next
  <1> QED
    BY <1>2, <1>3 DEF ServerStep, Serve, Throttle, Reject, Fail, serverVars

\* A caller may reason from the contract alone (README.md:196-201).
THEOREM Refinement == Spec => ImplementsContract
  <1>1. Init => Contract!Init
    BY DEF Init, Contract!Init
  <1>2. TypeOK /\ Safe /\ [Next]_vars
            => [Contract!Next]_<<outcome, effects>>
    <2> SUFFICES ASSUME TypeOK, Safe, [Next]_vars
                 PROVE  Contract!Next \/ UNCHANGED <<outcome, effects>>
      OBVIOUS
    <2>1. ASSUME NEW c \in Calls, ClientStep(c)
          PROVE  Contract!Next \/ UNCHANGED <<outcome, effects>>
      BY <2>1, ClientStepRefines
    <2>2. ASSUME NEW c \in Calls, CallerStep(c)
          PROVE  Contract!Next \/ UNCHANGED <<outcome, effects>>
      <3>1. CASE Call(c) \/ Cancel(c)
        BY <3>1 DEF Call, Cancel, serverVars
      <3>2. CASE NetworkError(c)
        BY <3>2, ReturnRefines
           DEF NetworkError, Contract!Outcomes, Contract!Effectless,
               Contract!Effective
      <3> QED BY <2>2, <3>1, <3>2 DEF CallerStep
    <2>3. ASSUME NEW r \in requests, ServerStep(r)
          PROVE  Contract!Next \/ UNCHANGED <<outcome, effects>>
      BY <2>3, ServerStepRefines
    <2>4. CASE \/ \E r \in requests : LoseRequest(r)
               \/ \E p \in responses : LoseResponse(p)
               \/ Tick
               \/ UNCHANGED vars
      BY <2>4 DEF LoseRequest, LoseResponse, Tick, vars, callVars, serverVars
    <2> QED BY <2>1, <2>2, <2>3, <2>4 DEF Next, AllReturned
  <1> QED
    BY <1>1, <1>2, TypeCorrect, Safety, PTL
       DEF Spec, ImplementsContract, Contract!Spec

-----------------------------------------------------------------------------
(* Retry-After across the network. *)

CapLeavesRoom == MaxRetryWait(client.retryMaxWait) <= MaxInt64 - MaxRetryJitter

\* What the server asked with a throttled answer, as far as the cap lets it.
Floor(p) == Larger(Lesser(p.retryAfter, MaxRetryWait(client.retryMaxWait)), 0)

\* What is left of the server's ask is zero before an attempt, carried by the
\* throttled answer on the wire, and no more than the wait while it runs.
AskCovered ==
    /\ \A c \in Calls :
           /\ pc[c] \in {"idle", "ready"} => ask[c] = 0
           /\ pc[c] = "backoff" => ask[c] <= timer[c]
    /\ \A r \in requests : ask[r.call] = 0
    /\ \A p \in responses : p.status = "throttled" => ask[p.call] <= Floor(p)

LEMMA FloorType ==
    ASSUME TypeOK, NEW p, p.retryAfter \in RetryAfters \cup {0}
    PROVE  /\ p.retryAfter \in Duration
           /\ MaxRetryWait(client.retryMaxWait) \in 1..MaxInt64
           /\ Floor(p) \in Nat
  <1>1. 0 \in Duration
    BY MaxInt64Assumption DEF Duration
  <1>2. p.retryAfter \in Duration
    BY <1>1, RetryAftersAssumption
  <1>3. MaxRetryWait(client.retryMaxWait) \in 1..MaxInt64
    BY ClientType, MaxRetryWaitType
  <1>4. Lesser(p.retryAfter, MaxRetryWait(client.retryMaxWait)) \in Int
    BY <1>2, <1>3, MaxInt64Assumption DEF Lesser, Duration
  <1> QED BY <1>2, <1>3, <1>4, LargerType DEF Floor

\* A step that keeps every countdown of a call that may still wait, and adds
\* no message, keeps what the server asked covered.
LEMMA AskKept ==
    ASSUME TypeOK, AskCovered, NEW c \in Calls,
           requests' \subseteq requests, responses' \subseteq responses,
           client' = client, ask' = ask,
           \A d \in Calls \ {c} : pc'[d] = pc[d] /\ timer'[d] = timer[d],
           pc'[c] \in {"idle", "ready"} => ask[c] = 0,
           pc'[c] = "backoff" => ask[c] <= timer'[c]
    PROVE  AskCovered'
  <1>1. \A d \in Calls : /\ pc'[d] \in {"idle", "ready"} => ask'[d] = 0
                         /\ pc'[d] = "backoff" => ask'[d] <= timer'[d]
    BY DEF AskCovered
  <1> QED BY <1>1 DEF AskCovered, Floor

LEMMA ClientStepAsk ==
    ASSUME TypeOK, Safe, AskCovered, CapLeavesRoom, NEW c \in Calls,
           ClientStep(c)
    PROVE  /\ AskCovered'
           /\ \A r \in requests' \ requests : ask[r.call] = 0
  <1>1. CASE Send(c)
    <2> DEFINE r == [call |-> c, attempt |-> attempt[c],
                     body |-> Reader(c, attempt[c])]
    <2>1. /\ pc[c] = "ready" /\ pc' = [pc EXCEPT ![c] = "waiting"]
          /\ timer' = [timer EXCEPT ![c] = AttemptTimer]
          /\ requests' = requests \cup {r} /\ responses' = responses
          /\ client' = client /\ ask' = ask
      BY <1>1 DEF Send, serverVars
    <2>2. r.call = c
      OBVIOUS
    <2> HIDE DEF r
    <2>3. ask[c] = 0
      BY <2>1 DEF AskCovered
    <2>4. \A d \in Calls : /\ pc'[d] \in {"idle", "ready"} => ask'[d] = 0
                           /\ pc'[d] = "backoff" => ask'[d] <= timer'[d]
      BY <2>1 DEF TypeOK, AskCovered
    <2>5. AskCovered'
      BY <2>1, <2>2, <2>3, <2>4 DEF AskCovered, Floor
    <2> QED BY <2>1, <2>2, <2>3, <2>5
  <1>2. CASE \E o \in Contract!Outcomes : Return(c, o)
    <2>1. /\ pc' = [pc EXCEPT ![c] = "done"]
          /\ timer' = [timer EXCEPT ![c] = 0]
          /\ client' = client /\ ask' = ask
      BY <1>2 DEF Return, serverVars
    <2>2. requests' = requests /\ responses' \subseteq responses
      <3>1. ~Send(c) /\ ~BackOff(c) /\ ~Retry(c)
        BY <2>1 DEF Send, BackOff, Retry, TypeOK
      <3> QED
        BY <3>1 DEF ClientStep, SendOnDoneContext, AttemptTimesOut,
                    AbortAttempt, ReceiveResult, ReceiveUndecodable,
                    ReceiveError, AbortBackoff, netVars
    <2>3. /\ pc'[c] = "done"
          /\ \A d \in Calls \ {c} : pc'[d] = pc[d] /\ timer'[d] = timer[d]
      BY <2>1 DEF TypeOK
    <2> QED BY <2>1, <2>2, <2>3, AskKept
  <1>3. CASE BackOff(c)
    <2>a. PICK p \in responses :
            \E w \in RetryWait(attempt[c], p.retryAfter,
                               client.retryMaxWait) :
              /\ Answers(p, c) /\ MayRetry(c, p.status)
              /\ responses' = responses \ {p} /\ requests' = requests
              /\ timer' = [timer EXCEPT ![c] = Larger(w, 0)]
              /\ pc' = [pc EXCEPT ![c] = "backoff"]
              /\ client' = client /\ ask' = ask
      BY <1>3 DEF BackOff, serverVars
    <2>1. PICK w \in RetryWait(attempt[c], p.retryAfter,
                               client.retryMaxWait) :
              /\ Answers(p, c) /\ MayRetry(c, p.status)
              /\ responses' = responses \ {p} /\ requests' = requests
              /\ timer' = [timer EXCEPT ![c] = Larger(w, 0)]
              /\ pc' = [pc EXCEPT ![c] = "backoff"]
              /\ client' = client /\ ask' = ask
      BY <2>a
    <2>2. /\ p.call = c /\ p.status = "throttled"
          /\ p.retryAfter \in RetryAfters \cup {0}
      BY <2>1 DEF Answers, MayRetry, IsRateLimited, TypeOK, Responses
    <2>3. /\ p.retryAfter \in Duration
          /\ MaxRetryWait(client.retryMaxWait) \in 1..MaxInt64
      BY <2>2, FloorType
    <2>4. /\ w \in Nat
          /\ w >= Lesser(p.retryAfter, MaxRetryWait(client.retryMaxWait))
      <3>1. attempt[c] \in Nat /\ client.retryMaxWait \in Duration
        BY ClientType DEF TypeOK
      <3> QED BY <2>1, <2>3, <3>1, RetryWaitBounds DEF CapLeavesRoom
    <2>5. Floor(p) <= Larger(w, 0)
      BY <2>3, <2>4, MaxInt64Assumption DEF Floor, Larger, Lesser, Duration
    <2>6. ask[c] <= Floor(p)
      BY <2>2 DEF AskCovered
    <2>7. ask[c] <= Larger(w, 0)
      <3>1. ask[c] \in Nat
        BY DEF TypeOK
      <3>2. Floor(p) \in Nat
        BY <2>2, FloorType
      <3>3. Larger(w, 0) \in Nat
        BY <2>4, LargerType
      <3> QED BY <2>5, <2>6, <3>1, <3>2, <3>3
    <2>8. /\ pc'[c] = "backoff" /\ timer'[c] = Larger(w, 0)
          /\ \A d \in Calls \ {c} : pc'[d] = pc[d] /\ timer'[d] = timer[d]
      BY <2>1 DEF TypeOK
    <2> QED BY <2>1, <2>7, <2>8, AskKept
  <1>4. CASE Retry(c)
    <2>1. /\ pc[c] = "backoff" /\ timer[c] = 0
          /\ pc' = [pc EXCEPT ![c] = "ready"] /\ timer' = timer
          /\ requests' = requests /\ responses' = responses
          /\ client' = client /\ ask' = ask
      BY <1>4 DEF Retry, netVars, serverVars
    <2>2. ask[c] = 0
      BY <2>1 DEF AskCovered, TypeOK
    <2>3. /\ pc'[c] = "ready"
          /\ \A d \in Calls \ {c} : pc'[d] = pc[d] /\ timer'[d] = timer[d]
      BY <2>1 DEF TypeOK
    <2> QED BY <2>1, <2>2, <2>3, AskKept
  <1>5. Send(c) \/ BackOff(c) \/ Retry(c)
        \/ \E o \in Contract!Outcomes : Return(c, o)
    <2>1. \A p \in responses : ErrorOf(p.status) \in Contract!Outcomes
      BY DEF TypeOK, Responses, Statuses, ErrorOf, IsRateLimited, Contract!Outcomes
    <2> QED
      BY <2>1 DEF ClientStep, SendOnDoneContext, AttemptTimesOut,
                  AbortAttempt, ReceiveResult, ReceiveUndecodable,
                  ReceiveError, AbortBackoff, Contract!Outcomes
  <1> QED BY <1>1, <1>2, <1>3, <1>4, <1>5

LEMMA ServerStepAsk ==
    ASSUME TypeOK, Safe, AskCovered, NEW r \in requests, ServerStep(r)
    PROVE  AskCovered' /\ requests' \subseteq requests
  <1>1. PICK status \in Statuses, after \in RetryAfters \cup {0} :
            /\ Answer(r, status, after)
            /\ \/ ask' = ask /\ status # "throttled"
               \/ /\ status = "throttled"
                  /\ ask' = [ask EXCEPT ![r.call] =
                         Larger(Lesser(after,
                                MaxRetryWait(client.retryMaxWait)), 0)]
    BY DEF ServerStep, Serve, Throttle, Reject, Fail, Statuses, serverVars
  <1> DEFINE p == [call |-> r.call, attempt |-> r.attempt,
                   status |-> status, retryAfter |-> after]
             c == r.call
  <1>2. /\ requests' = requests \ {r} /\ responses' = responses \cup {p}
        /\ client' = client /\ pc' = pc /\ timer' = timer
    BY <1>1 DEF Answer, callVars
  <1>3. p.call = c /\ p.status = status /\ p.retryAfter = after
    OBVIOUS
  <1>4. /\ c \in Calls /\ pc[c] \notin {"idle", "ready", "backoff"}
    BY DEF TypeOK, Requests, Safe, OneInFlight, Ledger, Outstanding
  <1>5. /\ \A m \in requests' : m.call \in Calls \ {c}
        /\ \A q \in responses : q.call \in Calls \ {c}
    BY <1>2 DEF TypeOK, Requests, Responses, Safe, OneInFlight
  <1>6. /\ \A d \in Calls \ {c} : ask'[d] = ask[d]
        /\ status = "throttled" => ask'[c] = Floor(p)
    BY <1>1, <1>3, <1>4 DEF TypeOK, Floor
  <1>7. Floor(p) \in Nat
    BY <1>3, FloorType
  <1> HIDE DEF p, c
  <1>8. AskCovered'
    <2>1. \A d \in Calls : /\ pc'[d] \in {"idle", "ready"} => ask'[d] = 0
                           /\ pc'[d] = "backoff" => ask'[d] <= timer'[d]
      BY <1>2, <1>4, <1>6 DEF AskCovered
    <2>2. \A m \in requests' : ask'[m.call] = 0
      BY <1>2, <1>5, <1>6 DEF AskCovered
    <2>3. \A q \in responses' :
              q.status = "throttled" => ask'[q.call] <= Floor(q)
      BY <1>2, <1>3, <1>5, <1>6, <1>7 DEF AskCovered
    <2> QED BY <1>2, <2>1, <2>2, <2>3 DEF AskCovered, Floor
  <1> QED BY <1>2, <1>8

\* With any number of calls, however the messages are delayed, no attempt
\* leaves before the server's Retry-After, as far as the cap lets it.
THEOREM RetryAfterRespected == Spec => RespectsAsk
  <1> DEFINE A == CapLeavesRoom
                    => \A r \in requests' \ requests : ask[r.call] = 0
             I == CapLeavesRoom => AskCovered
  <1>1. Init => I
    BY DEF Init, AskCovered
  <1>2. TypeOK /\ Safe /\ I /\ [Next]_vars => I' /\ [A]_vars
    <2> SUFFICES ASSUME TypeOK, Safe, I, [Next]_vars
                 PROVE  I' /\ A
      OBVIOUS
    <2>1. client' = client
      BY DEF Next, ClientStep, CallerStep, ServerStep, Call, Cancel,
             NetworkError, Send, SendOnDoneContext, AttemptTimesOut,
             AbortAttempt, ReceiveResult, ReceiveUndecodable, ReceiveError,
             BackOff, Retry, AbortBackoff, Return, Serve, Throttle, Reject,
             Fail, Answer, LoseRequest, LoseResponse, Tick, AllReturned, vars
    <2>2. CapLeavesRoom' <=> CapLeavesRoom
      BY <2>1 DEF CapLeavesRoom
    <2> SUFFICES ASSUME CapLeavesRoom
                 PROVE  /\ AskCovered'
                        /\ \A r \in requests' \ requests : ask[r.call] = 0
      BY <2>2
    <2>3. AskCovered
      OBVIOUS
    <2>4. ASSUME NEW c \in Calls, ClientStep(c)
          PROVE  /\ AskCovered'
                 /\ \A r \in requests' \ requests : ask[r.call] = 0
      BY <2>3, <2>4, ClientStepAsk
    <2>5. ASSUME NEW c \in Calls, CallerStep(c)
          PROVE  AskCovered' /\ requests' \subseteq requests
      <3>1. /\ requests' = requests /\ responses' = responses /\ ask' = ask
            /\ \A d \in Calls \ {c} : pc'[d] = pc[d] /\ timer'[d] = timer[d]
            /\ pc'[c] \in {"idle", "ready"} => pc[c] \in {"idle", "ready"}
            /\ pc'[c] = "backoff" => pc[c] = "backoff" /\ timer'[c] = timer[c]
        BY <2>5 DEF CallerStep, Call, Cancel, NetworkError, Return, netVars,
                    serverVars, TypeOK
      <3> QED BY <2>1, <2>3, <3>1, AskKept DEF AskCovered
    <2>6. ASSUME NEW r \in requests, ServerStep(r)
          PROVE  AskCovered' /\ requests' \subseteq requests
      BY <2>3, <2>6, ServerStepAsk
    <2>7. CASE Tick
      <3>1. /\ \A c \in Calls : /\ timer'[c] = Larger(timer[c] - 1, 0)
                                /\ ask'[c] = Larger(ask[c] - 1, 0)
            /\ pc' = pc /\ requests' = requests /\ responses' = responses
        BY <2>7 DEF Tick, netVars
      <3>2. \A c \in Calls : /\ ask'[c] \in Nat /\ ask'[c] <= ask[c]
                             /\ ask[c] <= timer[c] => ask'[c] <= timer'[c]
        BY <3>1 DEF TypeOK, Larger
      <3>3. \A p \in responses : Floor(p) \in Nat /\ p.call \in Calls
        BY FloorType DEF TypeOK, Responses
      <3>4. /\ \A r \in requests : r.call \in Calls
            /\ \A c \in Calls : ask[c] \in Nat
        BY DEF TypeOK, Requests
      <3>5. \A c \in Calls : ask[c] = 0 => ask'[c] = 0
        BY <3>2, <3>4
      <3>6. \A p \in responses : ask[p.call] <= Floor(p)
                                     => ask'[p.call] <= Floor(p)
        BY <3>2, <3>3, <3>4
      <3>7. \A p : Floor(p)' = Floor(p)
        BY <2>1 DEF Floor
      <3>8. AskCovered'
        BY <2>3, <3>1, <3>2, <3>4, <3>5, <3>6, <3>7 DEF AskCovered, Floor
      <3> QED BY <3>1, <3>8
    <2>8. CASE \/ \E r \in requests : LoseRequest(r)
               \/ \E p \in responses : LoseResponse(p)
               \/ UNCHANGED vars
      <3>1. /\ requests' \subseteq requests /\ responses' \subseteq responses
            /\ pc' = pc /\ timer' = timer /\ ask' = ask
        BY <2>8 DEF LoseRequest, LoseResponse, vars, callVars, netVars,
                    serverVars
      <3> QED BY <2>1, <2>3, <3>1 DEF AskCovered, Floor
    <2> QED
      BY <2>4, <2>5, <2>6, <2>7, <2>8 DEF Next, AllReturned
  <1> HIDE DEF I
  <1>3. Spec => [][A]_vars
    BY <1>1, <1>2, TypeCorrect, Safety, PTL DEF Spec
  <1> QED BY <1>3, PTL DEF RespectsAsk, CapLeavesRoom

=============================================================================
