------------------------------ MODULE MergePatch ------------------------------
(***************************************************************************)
(* Partial updates of one object by concurrent callers: the Update request *)
(* structs, what encoding/json makes of their fields, and the server's     *)
(* merge.  A call is one of CallContract: it may take effect late.         *)
(*                                                                         *)
(* A value is "zero" (the zero value of its type: "", false, no elements), *)
(* "null" (stored or sent), "old" (there at first) or the name of the call *)
(* that gave it.  In a Go request a pointer may also be "nil", and a Null  *)
(* that is not Valid is "clear".                                           *)
(***************************************************************************)
EXTENDS CallContract, FiniteSets, Integers

CONSTANTS
    MaxNamed,       \* how many fields each call names: a bound of the model
    Results         \* the outcomes of calls that are told apart

ASSUME ResultsAssumption == Results \subseteq Outcomes \ {"none"}
ASSUME MaxNamedAssumption == MaxNamed \in [Calls -> Nat]
ASSUME CallsAssumption ==
    Calls \cap {"zero", "null", "old", "nil", "clear", "absent"} = {}

-----------------------------------------------------------------------------
(* The Update structs.  A field is "always" sent, "optional" (omitempty), a  *)
(* "pointer" to a bool or a list (omitempty), or "nullable" (a *Null).       *)

UpdateSiteRequest == [name |-> "optional"]

UpdateGroupRequest == [name |-> "optional"]

UpdateGatewayRequest == [name |-> "always"]

UpdateClientRequest == [name |-> "always"]

UpdateActorRequest ==
    [name |-> "optional", type |-> "optional", email |-> "nullable",
     allow_email_otp_sign_in |-> "pointer", is_disabled |-> "pointer"]

UpdatePolicyRequest ==
    [group_id |-> "optional", resource_id |-> "optional",
     description |-> "nullable", flow_log_uploads_enabled |-> "pointer",
     is_disabled |-> "pointer", conditions |-> "pointer"]

UpdateResourceRequest ==
    [name |-> "optional", type |-> "optional", address |-> "nullable",
     address_description |-> "nullable", ip_stack |-> "nullable",
     site_id |-> "nullable", filters |-> "pointer"]

Structs == {UpdateSiteRequest, UpdateGroupRequest, UpdateGatewayRequest,
            UpdateClientRequest, UpdateActorRequest, UpdatePolicyRequest,
            UpdateResourceRequest}

VARIABLES
    struct,     \* the request struct of the object's kind
    stored,     \* the object's fields on the server
    want,       \* what each caller means to assign, nothing before it calls
    request,    \* the request struct it passes
    result      \* what its call decoded from the answer

vars == <<struct, stored, want, request, result, outcome, effects>>

\* A blank object has nothing in the fields that may be empty.
Initially(kind, blank) ==
    IF ~blank \/ kind \in {"always", "optional"} THEN "old"
    ELSE IF kind = "nullable" THEN "null" ELSE "zero"

MergeInit ==
    /\ Init
    /\ struct \in Structs
    /\ \E blank \in BOOLEAN :
           stored = [f \in DOMAIN struct |-> Initially(struct[f], blank)]
    /\ want = [c \in Calls |-> <<>>]
    /\ request = [c \in Calls |-> <<>>]
    /\ result = [c \in Calls |-> <<>>]

-----------------------------------------------------------------------------
(* The caller. *)

\* What call c may assign to a field of a kind.  Nothing can empty an
\* optional field, and an empty name is no name.
Assignable(c, kind) ==
    CASE kind = "nullable" -> {c, "null"}
      [] kind = "pointer" -> {c, "zero"}
      [] OTHER -> {c}

Unset(kind) == IF kind \in {"always", "optional"} THEN "zero" ELSE "nil"

\* Field by field, the caller leaves unset what it does not name, and writes
\* a null as Clear() or as Set of the zero value.
Request(w, null) ==
    [f \in DOMAIN struct |->
        IF f \notin DOMAIN w THEN Unset(struct[f])
        ELSE IF w[f] = "null" THEN null ELSE w[f]]

Requests(w) == {Request(w, null) : null \in {"clear", "zero"}}

\* A request that leaves out a field that is always sent is not a partial
\* update: it asks for the empty name.
Wants(c) ==
    UNION {{w \in [fields -> {c, "null", "zero"}] :
                \A f \in fields : w[f] \in Assignable(c, struct[f])}
             : fields \in {g \in SUBSET DOMAIN struct :
                             /\ g # {} /\ Cardinality(g) <= MaxNamed[c]
                             /\ \A f \in DOMAIN struct \ g :
                                    struct[f] # "always"}}

Send(c, w) ==
    /\ want[c] = <<>>
    /\ want' = [want EXCEPT ![c] = w]
    /\ \E r \in Requests(w) : request' = [request EXCEPT ![c] = r]
    /\ UNCHANGED <<struct, stored, result, outcome, effects>>

Update(c) == \E w \in Wants(c) : Send(c, w)

\* Conveniences over Update, for Actors and Policies.
Disable(c) == /\ "is_disabled" \in DOMAIN struct
              /\ Send(c, [is_disabled |-> c])

Enable(c) == /\ "is_disabled" \in DOMAIN struct
             /\ Send(c, [is_disabled |-> "zero"])

-----------------------------------------------------------------------------
(* encoding/json. *)

MarshalNull(g) == IF g = "clear" THEN "null" ELSE g

\* Mutant: is_disabled and its like are plain fields with omitempty.
MarshalZeroOmitted(kind, g) ==
    CASE kind = "always" -> g
      [] kind = "optional" -> IF g = "zero" THEN "absent" ELSE g
      [] kind = "pointer" -> IF g \in {"nil", "zero"} THEN "absent" ELSE g
      [] kind = "nullable" -> IF g = "nil" THEN "absent" ELSE MarshalNull(g)

\* Mutant: is_disabled and its like have no omitempty.
MarshalNilAsNull(kind, g) ==
    CASE kind = "always" -> g
      [] kind = "optional" -> IF g = "zero" THEN "absent" ELSE g
      [] kind = "pointer" -> IF g = "nil" THEN "null" ELSE g
      [] kind = "nullable" -> IF g = "nil" THEN "absent" ELSE MarshalNull(g)

Marshal(kind, g) ==
    CASE kind = "always" -> g
      [] kind = "optional" -> IF g = "zero" THEN "absent" ELSE g
      [] kind = "pointer" -> IF g = "nil" THEN "absent" ELSE g
      [] kind = "nullable" -> IF g = "nil" THEN "absent" ELSE MarshalNull(g)

\* Mutant: the object is decoded over what the caller has in hand.
UnmarshalOver(v) == IF v = "null" THEN "old" ELSE v

\* The read models are plain fields of a fresh struct, which null leaves alone.
Unmarshal(v) == IF v = "null" THEN "zero" ELSE v

-----------------------------------------------------------------------------
(* The server. *)

\* An empty value becomes the field's default, null in a nullable field.
Merged(kind, v, json) ==
    CASE json = "absent" -> v
      [] kind = "nullable" /\ json = "zero" -> "null"
      [] OTHER -> json

TakeEffect(c) ==
    /\ want[c] # <<>>
    /\ Apply(c)
    /\ stored' = [f \in DOMAIN struct |->
           Merged(struct[f], stored[f], Marshal(struct[f], request[c][f]))]
    /\ result' = [result EXCEPT ![c] =
                     [f \in DOMAIN struct |-> Unmarshal(stored'[f])]]
    /\ UNCHANGED <<struct, want, request>>

Returned(c) ==
    /\ want[c] # <<>>
    /\ \E o \in Results : Return(c, o)
    /\ UNCHANGED <<struct, stored, want, request, result>>

MergeNext ==
    \E c \in Calls : \/ Update(c) \/ Disable(c) \/ Enable(c)
                     \/ TakeEffect(c) \/ Returned(c)

MergeSpec == MergeInit /\ [][MergeNext]_vars

-----------------------------------------------------------------------------
(* Properties. *)

Values(kind) ==
    Calls \cup {"old"} \cup
    (CASE kind = "nullable" -> {"null"}
       [] kind = "pointer" -> {"zero"}
       [] OTHER -> {})

\* The variables hold what their names say; only a nullable field is ever
\* null, and only a bool or a list is ever its zero value.
TypeOK ==
    /\ struct \in Structs
    /\ DOMAIN stored = DOMAIN struct
    /\ \A f \in DOMAIN struct : stored[f] \in Values(struct[f])
    /\ \A c \in Calls :
           /\ want[c] # <<>> => request[c] \in Requests(want[c])
           /\ outcome[c] \in Outcomes
           /\ effects[c] \in {<<>>, <<Body[c]>>}

Store == INSTANCE FieldStore

(* Whatever the order in which concurrent updates take effect, each assigns
   exactly the fields its caller named: what it left unset survives, null and
   zero are assigned like any other value, and two updates of different
   fields never undo each other (null.go:7-22, firezone.go:18-21). *)
AssignsWhatItNames == Store!StoreSpec

(* What a call returns shows the update: the fields its caller named hold
   what it gave them, a cleared one its zero value, although others update
   the object at the same time and null leaves a decoded field untouched. *)
AnswerShowsTheUpdate ==
    \A c \in Calls : outcome[c] \in Effective =>
        \A f \in DOMAIN want[c] :
            result[c][f] = IF want[c][f] = "null" THEN "zero" ELSE want[c][f]

=============================================================================
