--------------------------- MODULE MergePatchProofs ---------------------------
(***************************************************************************)
(* With any number of callers of any kind of object, each update assigns   *)
(* exactly the fields its caller named, and its answer shows it.           *)
(*                                                                         *)
(* The argument: what a caller passes is a faithful spelling of what it    *)
(* wants (Requests), and merging that spelling, field by field, is the     *)
(* assignment (MergeIsAssignment).  The invariant carries the spelling     *)
(* from Send to TakeEffect, and the answer from TakeEffect to the return.  *)
(***************************************************************************)
EXTENDS MergePatch, TLAPS

Kinds == {"always", "optional", "pointer", "nullable"}

\* Every field of an update struct is of one of four kinds; is_disabled, where
\* there is one, is a pointer, and nothing is then always sent.
LEMMA StructFields ==
    ASSUME NEW s \in Structs
    PROVE  /\ \A f \in DOMAIN s : s[f] \in Kinds
           /\ "is_disabled" \in DOMAIN s =>
                /\ s["is_disabled"] = "pointer"
                /\ \A f \in DOMAIN s : s[f] # "always"
  BY DEF Structs, Kinds, UpdateSiteRequest, UpdateGroupRequest,
         UpdateGatewayRequest, UpdateClientRequest, UpdateActorRequest,
         UpdatePolicyRequest, UpdateResourceRequest

\* What call c may want: some fields of the object, every field that is always
\* sent among them, each with a value its kind can carry.
Wanted(c, w) ==
    /\ DOMAIN w # {} /\ DOMAIN w \subseteq DOMAIN struct
    /\ \A f \in DOMAIN w : w[f] \in Assignable(c, struct[f])
    /\ \A f \in DOMAIN struct \ DOMAIN w : struct[f] # "always"

\* The value v a call assigns to a field survives the journey through the
\* request struct, its JSON and the server's merge.
LEMMA NamedIsAssigned ==
    ASSUME NEW c \in Calls, NEW kind \in Kinds, NEW v \in Assignable(c, kind),
           NEW null \in {"clear", "zero"}, NEW old
    PROVE  Merged(kind, old,
                  Marshal(kind, IF v = "null" THEN null ELSE v)) = v
  <1>1. c \notin {"zero", "null", "old", "nil", "clear", "absent"}
    BY CallsAssumption
  <1>2. CASE kind = "nullable"
    BY <1>1, <1>2 DEF Assignable, Marshal, MarshalNull, Merged
  <1>3. CASE kind = "pointer"
    BY <1>1, <1>3 DEF Assignable, Marshal, Merged
  <1>4. CASE kind \in {"always", "optional"}
    BY <1>1, <1>4 DEF Assignable, Marshal, Merged
  <1> QED BY <1>2, <1>3, <1>4 DEF Kinds

\* A field left unset is not sent, and the server's value stays.
LEMMA UnsetIsKept ==
    ASSUME NEW kind \in Kinds \ {"always"}, NEW old
    PROVE  Merged(kind, old, Marshal(kind, Unset(kind))) = old
  BY DEF Kinds, Unset, Marshal, MarshalNull, Merged

\* Merging what a caller passes is the assignment it means.
LEMMA MergeIsAssignment ==
    ASSUME struct \in Structs, NEW c \in Calls, NEW w, Wanted(c, w),
           NEW null \in {"clear", "zero"}, NEW f \in DOMAIN struct, NEW old
    PROVE  Merged(struct[f], old, Marshal(struct[f], Request(w, null)[f])) =
               IF f \in DOMAIN w THEN w[f] ELSE old
  <1>1. struct[f] \in Kinds
    BY StructFields
  <1>2. CASE f \in DOMAIN w
    <2>1. /\ Request(w, null)[f] = IF w[f] = "null" THEN null ELSE w[f]
          /\ w[f] \in Assignable(c, struct[f])
      BY <1>2 DEF Request, Wanted
    <2> QED BY <1>1, <1>2, <2>1, NamedIsAssigned
  <1>3. CASE f \notin DOMAIN w
    <2>1. Request(w, null)[f] = Unset(struct[f]) /\ struct[f] # "always"
      BY <1>3 DEF Request, Wanted
    <2> QED BY <1>1, <1>3, <2>1, UnsetIsKept
  <1> QED BY <1>2, <1>3

-----------------------------------------------------------------------------

\* What a decoded answer shows of a value.
Shown(v) == IF v = "null" THEN "zero" ELSE v

\* One call, from its Send to its return.
CallInv(c) ==
    /\ outcome[c] \in Outcomes
    /\ effects[c] \in {<<>>, <<Body[c]>>}
    /\ IF want[c] = <<>> THEN outcome[c] = "none" /\ effects[c] = <<>>
       ELSE Wanted(c, want[c]) /\ request[c] \in Requests(want[c])
    /\ outcome[c] \in Effective => effects[c] # <<>>
    /\ effects[c] # <<>> =>
           \A f \in DOMAIN want[c] : result[c][f] = Shown(want[c][f])

Inv ==
    /\ struct \in Structs
    /\ DOMAIN stored = DOMAIN struct
    /\ \A f \in DOMAIN struct : stored[f] \in Values(struct[f])
    /\ DOMAIN want = Calls /\ DOMAIN request = Calls /\ DOMAIN result = Calls
    /\ DOMAIN outcome = Calls /\ DOMAIN effects = Calls
    /\ \A c \in Calls : CallInv(c)

\* What an update may assign is what the object may hold.
LEMMA AssignableIsStorable ==
    ASSUME NEW c \in Calls, NEW kind \in Kinds
    PROVE  Assignable(c, kind) \subseteq Values(kind)
  BY DEF Kinds, Assignable, Values

LEMMA InvInit == MergeInit => Inv
  <1> SUFFICES ASSUME MergeInit PROVE Inv
    OBVIOUS
  <1>1. PICK blank \in BOOLEAN :
            stored = [f \in DOMAIN struct |-> Initially(struct[f], blank)]
    BY DEF MergeInit
  <1>2. \A f \in DOMAIN struct : stored[f] \in Values(struct[f])
    BY <1>1, StructFields DEF MergeInit, Kinds, Initially, Values
  <1>3. \A c \in Calls : CallInv(c)
    BY DEF MergeInit, Init, CallInv, Outcomes, Effective
  <1> QED BY <1>1, <1>2, <1>3 DEF MergeInit, Init, Inv

\* The three ways to call Update.
LEMMA SendsAreWanted ==
    ASSUME Inv, NEW c \in Calls, Update(c) \/ Disable(c) \/ Enable(c)
    PROVE  \E w : Send(c, w) /\ Wanted(c, w)
  <1>1. CASE Update(c)
    <2>1. PICK w \in Wants(c) : Send(c, w)
      BY <1>1 DEF Update
    <2>2. PICK g \in SUBSET DOMAIN struct :
              /\ g # {} /\ \A f \in DOMAIN struct \ g : struct[f] # "always"
              /\ w \in [g -> {c, "null", "zero"}]
              /\ \A f \in g : w[f] \in Assignable(c, struct[f])
      BY DEF Wants
    <2>3. Wanted(c, w)
      BY <2>2 DEF Wanted
    <2> QED BY <2>1, <2>3
  <1>2. ASSUME NEW v \in {c, "zero"}, "is_disabled" \in DOMAIN struct,
               Send(c, [is_disabled |-> v])
        PROVE  \E w : Send(c, w) /\ Wanted(c, w)
    <2> DEFINE w == [is_disabled |-> v]
    <2>1. DOMAIN w = {"is_disabled"} /\ w["is_disabled"] = v
      OBVIOUS
    <2>2. /\ struct["is_disabled"] = "pointer"
          /\ \A f \in DOMAIN struct : struct[f] # "always"
      BY <1>2, StructFields DEF Inv
    <2> HIDE DEF w
    <2>3. Wanted(c, w)
      BY <1>2, <2>1, <2>2 DEF Wanted, Assignable
    <2> QED BY <1>2, <2>3 DEF w
  <1> QED BY <1>1, <1>2 DEF Disable, Enable

LEMMA SendStep ==
    ASSUME Inv, NEW c \in Calls, NEW w, Send(c, w), Wanted(c, w)
    PROVE  Inv'
  <1>1. PICK r \in Requests(w) : request' = [request EXCEPT ![c] = r]
    BY DEF Send
  <1>2. /\ want[c] = <<>> /\ want' = [want EXCEPT ![c] = w]
        /\ struct' = struct /\ stored' = stored /\ result' = result
        /\ outcome' = outcome /\ effects' = effects
    BY DEF Send
  <1>3. \A d \in Calls \ {c} : want'[d] = want[d] /\ request'[d] = request[d]
    BY <1>1, <1>2 DEF Inv
  <1>4. want'[c] = w /\ request'[c] = r
    BY <1>1, <1>2 DEF Inv
  <1>5. w # <<>>
    BY DEF Wanted
  <1>6. outcome[c] = "none" /\ effects[c] = <<>>
    BY <1>2 DEF Inv, CallInv
  <1>7. CallInv(c)'
    <2>1. Wanted(c, want[c])'
      BY <1>2, <1>4 DEF Wanted, Assignable
    <2>2. (request[c] \in Requests(want[c]))'
      BY <1>1, <1>2, <1>4 DEF Requests, Request
    <2>3. (outcome[c] = "none" /\ effects[c] = <<>>)'
      BY <1>2, <1>6
    <2> QED
      BY <1>4, <1>5, <2>1, <2>2, <2>3 DEF CallInv, Outcomes, Effective
  <1>8. ASSUME NEW d \in Calls \ {c}
        PROVE  CallInv(d)'
    BY <1>2, <1>3 DEF Inv, CallInv, Wanted, Assignable, Requests, Request
  <1> QED BY <1>1, <1>2, <1>7, <1>8 DEF Inv

\* When a request takes effect, the object holds what its caller named, and
\* what it held before elsewhere.
LEMMA EffectIsAssignment ==
    ASSUME Inv, NEW c \in Calls, TakeEffect(c)
    PROVE  stored' = [f \in DOMAIN struct |->
                        IF f \in DOMAIN want[c] THEN want[c][f] ELSE stored[f]]
  <1>1. Wanted(c, want[c]) /\ request[c] \in Requests(want[c])
    BY DEF TakeEffect, Inv, CallInv
  <1>2. PICK null \in {"clear", "zero"} : request[c] = Request(want[c], null)
    BY <1>1 DEF Requests
  <1> DEFINE m(f) == Merged(struct[f], stored[f],
                            Marshal(struct[f], request[c][f]))
  <1>3. stored' = [f \in DOMAIN struct |-> m(f)]
    BY DEF TakeEffect
  <1>4. \A f \in DOMAIN struct :
            m(f) = IF f \in DOMAIN want[c] THEN want[c][f] ELSE stored[f]
    BY <1>1, <1>2, MergeIsAssignment DEF Inv
  <1> HIDE DEF m
  <1> QED BY <1>3, <1>4

LEMMA TakeEffectStep ==
    ASSUME Inv, NEW c \in Calls, TakeEffect(c)
    PROVE  Inv'
  <1>1. /\ struct' = struct /\ want' = want /\ request' = request
        /\ outcome' = outcome
        /\ effects' = [effects EXCEPT ![c] = <<Body[c]>>]
        /\ result' = [result EXCEPT ![c] =
                         [f \in DOMAIN struct |-> Unmarshal(stored'[f])]]
        /\ want[c] # <<>>
    BY DEF TakeEffect, Apply
  <1>2. stored' = [f \in DOMAIN struct |->
                      IF f \in DOMAIN want[c] THEN want[c][f] ELSE stored[f]]
    BY EffectIsAssignment
  <1>3. Wanted(c, want[c])
    BY <1>1 DEF Inv, CallInv
  <1>4. \A f \in DOMAIN struct : stored'[f] \in Values(struct[f])
    BY <1>2, <1>3, StructFields, AssignableIsStorable DEF Inv, Wanted
  <1>5. \A f \in DOMAIN want[c] : result'[c][f] = Shown(want[c][f])
    BY <1>1, <1>2, <1>3 DEF Inv, Wanted, Unmarshal, Shown
  <1>6. CallInv(c)'
    <2>1. CallInv(c) /\ effects'[c] = <<Body[c]>>
      BY <1>1 DEF Inv
    <2>2. (Wanted(c, want[c]) /\ request[c] \in Requests(want[c]))'
      BY <1>1, <2>1 DEF CallInv, Wanted, Assignable, Requests, Request
    <2> QED BY <1>1, <1>5, <2>1, <2>2 DEF CallInv
  <1>7. ASSUME NEW d \in Calls \ {c}
        PROVE  CallInv(d)'
    BY <1>1 DEF Inv, CallInv, Wanted, Assignable, Requests, Request
  <1> QED BY <1>1, <1>2, <1>4, <1>6, <1>7 DEF Inv, Values

LEMMA ReturnedStep ==
    ASSUME Inv, NEW c \in Calls, Returned(c)
    PROVE  Inv'
  <1>1. PICK o \in Results : Return(c, o)
    BY DEF Returned
  <1>2. /\ UNCHANGED <<struct, stored, want, request, result, effects>>
        /\ outcome' = [outcome EXCEPT ![c] = o]
        /\ want[c] # <<>>
        /\ o \in Effective => effects[c] # <<>>
        /\ o \in Outcomes
    BY <1>1, ResultsAssumption DEF Returned, Return
  <1>3. CallInv(c)'
    BY <1>2 DEF Inv, CallInv, Wanted, Assignable, Requests, Request
  <1>4. ASSUME NEW d \in Calls \ {c}
        PROVE  CallInv(d)'
    BY <1>2 DEF Inv, CallInv, Wanted, Assignable, Requests, Request
  <1> QED BY <1>2, <1>3, <1>4 DEF Inv, Values

LEMMA InvStep == Inv /\ [MergeNext]_vars => Inv'
  <1> SUFFICES ASSUME Inv, [MergeNext]_vars PROVE Inv'
    OBVIOUS
  <1>1. ASSUME NEW c \in Calls, Update(c) \/ Disable(c) \/ Enable(c)
        PROVE  Inv'
    BY <1>1, SendsAreWanted, SendStep
  <1>2. CASE UNCHANGED vars
    BY <1>2 DEF vars, Inv, Values, CallInv, Wanted, Assignable, Requests,
                Request
  <1> QED BY <1>1, <1>2, TakeEffectStep, ReturnedStep DEF MergeNext

-----------------------------------------------------------------------------

(* Only a nullable field is ever null and only a bool or a list is ever its
   zero value, whatever updates are made, and what a caller passes spells what
   it wants (null.go:7-22). *)
THEOREM FieldsKeepTheirKinds == MergeSpec => []TypeOK
  <1>1. Inv => TypeOK
    BY DEF Inv, CallInv, TypeOK
  <1> QED BY <1>1, InvInit, InvStep, PTL DEF MergeSpec

(* What a call returns shows the fields its caller named as it gave them, a
   cleared one its zero value, however many others update the object at the
   same time (null.go:7-22). *)
THEOREM AnswersShowUpdates == MergeSpec => []AnswerShowsTheUpdate
  <1>1. Inv => AnswerShowsTheUpdate
    BY DEF Inv, CallInv, AnswerShowsTheUpdate, Shown
  <1> QED BY <1>1, InvInit, InvStep, PTL DEF MergeSpec

(* Updates through the Update methods implement the assignment of the named
   fields, whatever the order in which they take effect. *)
THEOREM UpdatesAssignWhatTheyName == MergeSpec => AssignsWhatItNames
  <1>1. MergeInit => Store!StoreInit
    BY DEF MergeInit, Init, Store!StoreInit, Store!Init
  <1>2. Inv /\ [MergeNext]_vars
            => [Store!StoreNext]_<<outcome, effects, stored, want>>
    <2> SUFFICES ASSUME Inv, MergeNext
                 PROVE  \/ Store!StoreNext
                        \/ UNCHANGED <<outcome, effects, stored, want>>
      BY DEF vars
    <2>1. ASSUME NEW c \in Calls, Update(c) \/ Disable(c) \/ Enable(c)
          PROVE  Store!Names(c, want'[c])
      <3>1. PICK w : Send(c, w) /\ Wanted(c, w)
        BY <2>1, SendsAreWanted
      <3>2. want'[c] = w
        BY <3>1 DEF Send, Inv
      <3> QED BY <3>1, <3>2 DEF Send, Wanted, Inv, Store!Names
    <2>2. ASSUME NEW c \in Calls, TakeEffect(c)
          PROVE  Store!Assigns(c)
      BY <2>2, EffectIsAssignment
         DEF TakeEffect, Apply, Inv, Store!Assigns, Store!Apply
    <2>3. ASSUME NEW c \in Calls, Returned(c)
          PROVE  \E o \in Store!Outcomes : Store!Returns(c, o)
      BY <2>3, ResultsAssumption
         DEF Returned, Return, Outcomes, Effective, Effectless,
             Store!Returns, Store!Return, Store!Outcomes, Store!Effective,
             Store!Effectless
    <2> QED BY <2>1, <2>2, <2>3 DEF MergeNext, Store!StoreNext
  <1> QED
    BY <1>1, <1>2, InvInit, InvStep, PTL
       DEF MergeSpec, AssignsWhatItNames, Store!StoreSpec

=============================================================================
