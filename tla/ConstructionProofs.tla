-------------------------- MODULE ConstructionProofs --------------------------
(***************************************************************************)
(* Whatever options are passed in whatever order, a client that NewClient  *)
(* returns is one the request pipeline can work with: RetryCall assumes no *)
(* less of its clients, and the loop's "made no attempts" error is out of  *)
(* reach.  Each field of the client is the last option's that wrote it,    *)
(* and its calls ask for the query of the method and no other.             *)
(***************************************************************************)
EXTENDS Construction, TLAPS

\* The default client is one the pipeline can work with.
LEMMA DefaultReturned == DefaultClient \in ReturnedClients
  BY SecondAssumption, MaxInt64Assumption
     DEF DefaultClient, ReturnedClients, DefaultRequestTimeout,
         DefaultMaxRetries, HTTPClients, UserAgents, Duration

\* An option that is accepted leaves it so, whichever fields it writes.
LEMMA ConfiguredReturned ==
    ASSUME NEW c \in ReturnedClients, NEW o \in Options, Accepts(o)
    PROVE  Configured(c, o) \in ReturnedClients
  <1>1. CASE o \in [httpClient : HTTPClients \ {"default"}]
    BY <1>1 DEF ReturnedClients, Configured, Accepts, HTTPClients
  <1>2. CASE o \in [userAgent : UserAgents \ {"default"}]
    BY <1>2 DEF ReturnedClients, Configured, Accepts, UserAgents
  <1>3. CASE o \in [requestTimeout : Duration]
    <2>1. DOMAIN o = {"requestTimeout"}
      BY <1>3
    <2>2. o.requestTimeout \in Int
      BY <1>3, MaxInt64Assumption DEF Duration
    <2>3. o.requestTimeout \in Nat
      BY <2>1, <2>2 DEF Accepts
    <2> QED BY <2>1, <2>3 DEF ReturnedClients, Configured
  <1>4. CASE o \in [retryEnabled : BOOLEAN, maxRetries : Int]
    <2>1. DOMAIN o = {"retryEnabled", "maxRetries"}
      BY <1>4
    <2>2. o.retryEnabled \in BOOLEAN /\ o.maxRetries \in Int
      BY <1>4
    <2>3. o.maxRetries \in Nat
      BY <2>1, <2>2 DEF Accepts
    <2> QED BY <2>1, <2>2, <2>3 DEF ReturnedClients, Configured
  <1>5. CASE o \in [retryMaxWait : Duration]
    BY <1>5 DEF ReturnedClients, Configured
  <1> QED BY <1>1, <1>2, <1>3, <1>4, <1>5, OptionsAssumption DEF OptionKinds

Marks == [text : {"", "base", "page"}, mark : BOOLEAN]

\* How many requests a call may send.
Budget == IF client.retryEnabled THEN client.maxRetries + 1 ELSE 1

\* TypeOK and BuiltToWork, and what leads to them: the base URL stays checked,
\* and an attempt begins with some of the budget left.
Sound ==
    /\ TypeOK
    /\ BuiltToWork
    /\ pc \in {"applying", "built", "attempting"} => CheckBaseURL(url)
    /\ pc \notin {"attempting", "returned"} => wire = <<>>
    /\ pc = "attempting" => query \in Queries /\ Len(wire) + 1 <= Budget

LEMMA SoundInit == Init => Sound
  <1> SUFFICES ASSUME Init PROVE Sound
    OBVIOUS
  <1>1. opts \in Seq(Options)
    <2>1. PICK n \in 0..MaxOptions : opts \in [1..n -> Options]
      BY DEF Init
    <2> QED BY <2>1, MaxOptionsAssumption
  <1>2. Len(opts) \in Nat
    BY <1>1
  <1> QED BY <1>1, <1>2, DefaultReturned DEF Init, Sound, TypeOK, BuiltToWork

LEMMA SoundStep == Sound /\ [Next]_vars => Sound'
  <1> SUFFICES ASSUME Sound, [Next]_vars PROVE Sound'
    OBVIOUS
  <1> USE DEF Sound
  <1>0. wire \in Seq(Marks) /\ Len(wire) \in Nat /\ Len(opts) \in Nat
    <2>1. wire \in Seq(Marks) /\ opts \in Seq(Options)
      BY DEF TypeOK, Marks
    <2> QED BY <2>1
  <1>a. /\ client.maxRetries \in Nat /\ client.retryEnabled \in BOOLEAN
        /\ client.httpClient # "nil" /\ client.requestTimeout \in Nat
    <2>1. client \in ReturnedClients
      BY DEF TypeOK
    <2> QED BY <2>1 DEF ReturnedClients
  <1>b. query \in Queries => QueryOnWire \in Marks
    <2>1. url.query \in {"", "base"} /\ url.forceQuery \in BOOLEAN
      BY URLsAssumption DEF TypeOK
    <2> QED BY <2>1 DEF QueryOnWire, Queries, Marks
  <1>1. CASE RejectURL
    BY <1>1 DEF RejectURL, TypeOK, BuiltToWork
  <1>2. CASE AcceptURL
    BY <1>2 DEF AcceptURL, CheckBaseURL, TypeOK, BuiltToWork
  <1>3. CASE ApplyOption
    <2>1. opts[next] \in Options
      BY <1>3 DEF ApplyOption, TypeOK
    <2>2. client' \in ReturnedClients
      BY <1>3, <2>1, ConfiguredReturned DEF ApplyOption, TypeOK
    <2>3. next' \in 1..(Len(opts) + 1)
      BY <1>0, <1>3 DEF ApplyOption, TypeOK
    <2> QED
      BY <1>3, <2>2, <2>3 DEF ApplyOption, CheckBaseURL, TypeOK, BuiltToWork
  <1>4. CASE FailOption
    BY <1>4 DEF FailOption, TypeOK, BuiltToWork
  <1>5. CASE ReturnClient
    BY <1>5 DEF ReturnClient, CheckBaseURL, TypeOK, BuiltToWork
  <1>6. CASE Call
    <2>1. LoopRuns
      BY <1>a DEF LoopRuns
    <2>2. /\ UNCHANGED <<url, opts, next, client, wire>> /\ wire = <<>>
          /\ query' \in Queries /\ pc' = "attempting" /\ result' = "none"
          /\ CheckBaseURL(url)
      BY <1>6, <2>1 DEF Call
    <2>3. Len(wire') + 1 <= Budget'
      BY <1>a, <2>2 DEF Budget
    <2> QED BY <2>2, <2>3 DEF CheckBaseURL, TypeOK, BuiltToWork
  <1>7. CASE Throttled
    <2>1. QueryOnWire \in Marks
      BY <1>7, <1>b DEF Throttled
    <2>2. wire' = Append(wire, QueryOnWire)
      BY <1>7 DEF Throttled
    <2>3. wire' \in Seq(Marks) /\ Len(wire') = Len(wire) + 1
      BY <1>0, <2>1, <2>2
    <2>4. Len(wire') + 1 <= Budget'
      BY <1>0, <1>7, <1>a, <2>3 DEF Throttled, Budget
    <2> QED
      BY <1>7, <2>3, <2>4
         DEF Throttled, CheckBaseURL, Marks, TypeOK, BuiltToWork
  <1>8. CASE Answered
    <2>0. url.scheme \in {"http", "https"} /\ url.host # ""
      BY <1>8 DEF Answered, CheckBaseURL
    <2>a. client.requestTimeout >= 0
      <3>1. \A n \in Nat : n >= 0
        OBVIOUS
      <3> QED BY <1>a, <3>1
    <2>1. CanSend
      BY ONLY <1>a, <2>0, <2>a DEF CanSend
    <2>2. QueryOnWire \in Marks
      BY <1>8, <1>b DEF Answered
    <2>3. wire' = Append(wire, QueryOnWire) /\ result' = "answered"
      BY <1>8, <2>1 DEF Answered
    <2>4. wire' \in Seq(Marks) /\ Len(wire') = Len(wire) + 1
      BY <1>0, <2>2, <2>3
    <2>5. Len(wire') \in 1..Budget /\ UNCHANGED client
      BY <1>0, <1>8, <1>a, <2>4 DEF Answered, Budget
    <2> QED
      BY <1>8, <2>3, <2>4, <2>5
         DEF Answered, Budget, Marks, TypeOK, BuiltToWork
  <1>9. CASE UNCHANGED vars
    BY <1>9 DEF vars, Budget, CheckBaseURL, TypeOK, BuiltToWork
  <1> QED
    BY <1>1, <1>2, <1>3, <1>4, <1>5, <1>6, <1>7, <1>8, <1>9 DEF Next

(* NewClient returns no client, and an option leaves none behind, that the
   retry loop, the deadline or the transport cannot work with, for any options
   in any number and order (firezone.go:132-136, :147, :219, :256). *)
THEOREM ClientsAreUsable == Spec => []TypeOK
  <1>1. Sound => TypeOK
    BY DEF Sound
  <1> QED BY <1>1, SoundInit, SoundStep, PTL DEF Spec

(* A call through a client that NewClient returned always reaches the network
   and stays within its budget: the guard that retry.go:58-66 keeps for a
   negative budget is unreachable. *)
THEOREM NoCallGoesUnattempted == Spec => []BuiltToWork
  <1>1. Sound => BuiltToWork
    BY DEF Sound
  <1> QED BY <1>1, SoundInit, SoundStep, PTL DEF Spec

\* What requestWithRetry and rawRequest read of a client: RetryCall's clients.
RetrySettings(c) ==
    [retryEnabled |-> c.retryEnabled, maxRetries |-> c.maxRetries,
     requestTimeout |-> c.requestTimeout, retryMaxWait |-> c.retryMaxWait]

(* The clients NewClient returns are among those that RetryCall assumes in its
   ClientsAssumption, so what is proved of the pipeline holds of every client
   there can be (firezone.go:132-136, retry.go:32-58). *)
THEOREM ReturnedClientsFitThePipeline ==
    Spec => [](RetrySettings(client) \in Configurations)
  <1>1. TypeOK => RetrySettings(client) \in Configurations
    BY DEF TypeOK, ReturnedClients, RetrySettings, Configurations
  <1> QED BY <1>1, ClientsAreUsable, PTL

-----------------------------------------------------------------------------
(* The options. *)

\* The options among the first n of os that write a field.
WritersUpTo(os, n, f) == {i \in 1..n : f \in DOMAIN os[i]}

\* What LastOptionWins says, of client c and the first n options of os.
FieldSetBy(os, n, c, f) ==
    IF WritersUpTo(os, n, f) = {} THEN c[f] = DefaultClient[f]
    ELSE \E i \in WritersUpTo(os, n, f) :
             /\ \A j \in WritersUpTo(os, n, f) : j <= i
             /\ c[f] = os[i][f]

\* The options before the next one have been applied, and all of them when the
\* client is built.
Applied ==
    /\ \A i \in 1..(next - 1) : Accepts(opts[i])
    /\ DOMAIN client = DOMAIN DefaultClient
    /\ \A f \in DOMAIN DefaultClient : FieldSetBy(opts, next - 1, client, f)
    /\ pc = "built" => next = Len(opts) + 1

\* One more option writes its fields and leaves the others.
LEMMA OneMoreApplied ==
    ASSUME NEW os, NEW n \in Nat, NEW c, NEW f \in DOMAIN c,
           FieldSetBy(os, n, c, f)
    PROVE  FieldSetBy(os, n + 1, Configured(c, os[n + 1]), f)
  <1> DEFINE W == WritersUpTo(os, n, f)
             V == WritersUpTo(os, n + 1, f)
             d == Configured(c, os[n + 1])
  <1>1. \A i \in W : i <= n
    BY DEF WritersUpTo
  <1>2. CASE f \in DOMAIN os[n + 1]
    <2>1. n + 1 \in V /\ \A j \in V : j <= n + 1
      BY <1>2 DEF WritersUpTo
    <2>2. d[f] = os[n + 1][f]
      BY <1>2 DEF Configured
    <2> QED BY <2>1, <2>2 DEF FieldSetBy
  <1>3. CASE f \notin DOMAIN os[n + 1]
    <2>1. V = W
      BY <1>3 DEF WritersUpTo
    <2>2. d[f] = c[f]
      BY <1>3 DEF Configured
    <2> QED BY <2>1, <2>2 DEF FieldSetBy
  <1> QED BY <1>2, <1>3

LEMMA IndexType ==
    ASSUME TypeOK
    PROVE  Len(opts) \in Nat /\ next \in Nat \ {0} /\ next <= Len(opts) + 1
  <1>1. opts \in Seq(Options) /\ next \in 1..(Len(opts) + 1)
    BY DEF TypeOK
  <1>2. Len(opts) \in Nat
    BY <1>1
  <1> QED BY ONLY <1>1, <1>2

LEMMA AppliedStep ==
    ASSUME TypeOK, Applied, [Next]_vars
    PROVE  Applied'
  <1>1. CASE ApplyOption
    <2>a. /\ next' = next + 1 /\ pc' # "built" /\ opts' = opts
          /\ Accepts(opts[next]) /\ client' = Configured(client, opts[next])
      BY <1>1 DEF ApplyOption
    <2>1. /\ next - 1 \in Nat /\ (next - 1) + 1 = next /\ next' - 1 = next
          /\ next \in Nat
      BY <2>a, IndexType
    <2>2. DOMAIN client' = DOMAIN client
      BY <2>a DEF Configured
    <2>3. \A f \in DOMAIN DefaultClient : FieldSetBy(opts, next, client', f)
      BY <2>a, <2>1, OneMoreApplied, Zenon DEF Applied
    <2>4. \A i \in 1..next : Accepts(opts[i])
      <3>1. \A i \in 1..next : i \in 1..(next - 1) \/ i = next
        BY <2>1
      <3> QED BY <2>a, <3>1 DEF Applied
    <2>5. DOMAIN DefaultClient = (DOMAIN DefaultClient)'
      BY DEF DefaultClient
    <2> QED BY <2>a, <2>1, <2>2, <2>3, <2>4, <2>5, Zenon DEF Applied
  <1>2. CASE ReturnClient
    <2>1. next' = Len(opts') + 1 /\ UNCHANGED <<next, opts, client>>
      <3>1. next > Len(opts) /\ UNCHANGED <<next, opts, client>>
        BY <1>2 DEF ReturnClient
      <3> QED BY <3>1, IndexType
    <2> QED BY <2>1 DEF Applied
  <1>3. CASE RejectURL \/ AcceptURL \/ FailOption \/ Call \/ Throttled \/ Answered
             \/ UNCHANGED vars
    <2>1. (pc' = "built" => pc = "built") /\ UNCHANGED <<next, opts, client>>
      BY <1>3 DEF RejectURL, AcceptURL, FailOption, Call, Throttled, Answered, vars
    <2> QED BY <2>1 DEF Applied
  <1> QED BY <1>1, <1>2, <1>3 DEF Next

\* Each field of a client that NewClient returns is the last option's that wrote
\* it, or the default, and every option was acceptable: for any number of
\* options in any order (firezone.go:132-136).
THEOREM TheLastOptionWins == Spec => []LastOptionWins
  <1>1. Init => Applied
    <2> SUFFICES ASSUME Init PROVE Applied
      OBVIOUS
    <2>1. next - 1 = 0 /\ client = DefaultClient /\ pc = "parsing"
      BY DEF Init
    <2>2. \A f : WritersUpTo(opts, 0, f) = {}
      BY DEF WritersUpTo
    <2> QED BY <2>1, <2>2 DEF Applied, FieldSetBy
  <1>2. TypeOK /\ Applied => LastOptionWins
    <2> SUFFICES ASSUME TypeOK, Applied, pc = "built"
                 PROVE  /\ \A i \in 1..Len(opts) : Accepts(opts[i])
                        /\ \A f \in DOMAIN DefaultClient :
                               FieldSetBy(opts, Len(opts), client, f)
      BY DEF LastOptionWins, FieldSetBy, Writers, WritersUpTo
    <2>1. next - 1 = Len(opts)
      BY IndexType DEF Applied
    <2> QED BY <2>1 DEF Applied
  <1> QED BY <1>1, <1>2, AppliedStep, ClientsAreUsable, PTL DEF Spec

-----------------------------------------------------------------------------
(* The query. *)

\* A call asks for the query of its method at every attempt, and for no other:
\* nothing of the base URL is left to add to it (firezone.go:292-296).
THEOREM TheBaseAddsNothing == Spec => []BaseAddsNothing
  <1>1. Init => BaseAddsNothing
    <2> SUFFICES ASSUME Init PROVE BaseAddsNothing
      OBVIOUS
    <2>1. wire = <<>>
      BY DEF Init
    <2>2. 1..Len(wire) = {}
      BY <2>1
    <2> QED BY <2>2, Zenon DEF BaseAddsNothing
  <1>2. Sound /\ BaseAddsNothing /\ [Next]_vars => BaseAddsNothing'
    <2> SUFFICES ASSUME Sound, BaseAddsNothing, [Next]_vars
                 PROVE  BaseAddsNothing'
      OBVIOUS
    <2>1. CASE Throttled \/ Answered
      <3>1. /\ pc = "attempting" /\ query' = query
            /\ wire' = wire \/ wire' = Append(wire, QueryOnWire)
        BY <2>1 DEF Throttled, Answered
      <3>2. /\ url.query = "" /\ url.forceQuery = FALSE
            /\ query \in Queries /\ wire \in Seq(Marks)
        <4>1. url.forceQuery \in BOOLEAN
          BY URLsAssumption DEF Sound, TypeOK
        <4> QED BY <3>1, <4>1 DEF Sound, CheckBaseURL, TypeOK, Marks
      <3>3. /\ QueryOnWire.text = IF query = "absent" THEN "" ELSE query
            /\ QueryOnWire.mark <=> QueryOnWire.text # ""
        BY <3>2 DEF QueryOnWire
      <3>4. \A i \in 1..Len(wire') : \/ i \in 1..Len(wire) /\ wire'[i] = wire[i]
                                     \/ wire'[i] = QueryOnWire
        <4>1. CASE wire' = wire
          BY <3>2, <4>1
        <4>2. CASE wire' = Append(wire, QueryOnWire)
          <5>1. QueryOnWire \in Marks
            BY <3>2, <3>3 DEF Marks, QueryOnWire, Queries
          <5>2. \A x \in Marks : \A s \in Seq(Marks) :
                    \A i \in 1..Len(Append(s, x)) :
                        \/ i \in 1..Len(s) /\ Append(s, x)[i] = s[i]
                        \/ Append(s, x)[i] = x
            OBVIOUS
          <5> HIDE DEF Marks, QueryOnWire
          <5> QED BY <3>2, <4>2, <5>1, <5>2, Zenon
        <4> QED BY <3>1, <4>1, <4>2
      <3> QED BY <3>1, <3>3, <3>4 DEF BaseAddsNothing
    <2>2. CASE Call
      <3>1. wire' = <<>>
        BY <2>2 DEF Call, Sound
      <3>2. 1..Len(wire') = {}
        BY <3>1
      <3> QED BY <3>2, Zenon DEF BaseAddsNothing
    <2>3. CASE RejectURL \/ AcceptURL \/ ApplyOption \/ FailOption \/ ReturnClient
               \/ UNCHANGED vars
      BY <2>3 DEF RejectURL, AcceptURL, ApplyOption, FailOption, ReturnClient, vars,
                  BaseAddsNothing
    <2> QED BY <2>1, <2>2, <2>3 DEF Next
  <1> QED BY <1>1, <1>2, SoundInit, SoundStep, PTL DEF Spec

=============================================================================
