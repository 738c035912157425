------------------------------ MODULE FieldStore ------------------------------
(***************************************************************************)
(* What a partial update promises: it assigns the fields its caller named, *)
(* all at once, and no other; a field holds what the last update to name   *)
(* it gave it.                                                             *)
(***************************************************************************)
EXTENDS CallContract

VARIABLES
    stored,     \* the object's fields
    want        \* what each call assigns: fields to values, nothing at first

StoreInit ==
    /\ Init
    /\ want = [c \in Calls |-> <<>>]

Names(c, w) ==
    /\ want[c] = <<>>
    /\ DOMAIN w \subseteq DOMAIN stored
    /\ want' = [want EXCEPT ![c] = w]
    /\ UNCHANGED <<outcome, effects, stored>>

Assigns(c) ==
    /\ Apply(c)
    /\ stored' = [f \in DOMAIN stored |->
                     IF f \in DOMAIN want[c] THEN want[c][f] ELSE stored[f]]
    /\ UNCHANGED want

Returns(c, o) == Return(c, o) /\ UNCHANGED <<stored, want>>

StoreNext ==
    \E c \in Calls :
        \/ Names(c, want'[c])
        \/ Assigns(c)
        \/ \E o \in Outcomes : Returns(c, o)

StoreSpec ==
    StoreInit /\ [][StoreNext]_<<outcome, effects, stored, want>>

=============================================================================
