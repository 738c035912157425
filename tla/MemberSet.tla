------------------------------ MODULE MemberSet ------------------------------
(***************************************************************************)
(* What an administrator of a group may rely on for the members it manages *)
(* itself: the group behaves as if it managed it alone.  Its members       *)
(* change only when a call of its own takes effect, and then exactly as    *)
(* that call says - unless somebody replaces the whole list.               *)
(***************************************************************************)
EXTENDS CallContract

CONSTANTS
    Mine,   \* the members this administrator manages
    Ops,    \* the operations it issues, as far as they concern those members
    None    \* no operation

VARIABLES
    members,    \* those of Mine that are in the group
    op,         \* the operation of each call issued so far, or None
    replaced    \* whether anybody replaces the list of this group

SetInit ==
    /\ Init
    /\ members \subseteq Mine
    /\ op = [c \in Calls |-> None]

Issued(c, o) ==
    /\ op[c] = None
    /\ op' = [op EXCEPT ![c] = o]
    /\ UNCHANGED <<outcome, effects, members, replaced>>

TakesEffect(c) ==
    /\ op[c] # None
    /\ Apply(c)
    /\ members' = (members \ op[c].remove) \cup op[c].add
    /\ UNCHANGED <<op, replaced>>

Returned(c, o) ==
    /\ op[c] # None
    /\ Return(c, o)
    /\ UNCHANGED <<members, op, replaced>>

\* Somebody's ReplaceAll, which may be one of this administrator's.
Overwritten ==
    /\ replaced
    /\ members' \subseteq Mine
    /\ \/ UNCHANGED effects /\ UNCHANGED outcome
       \/ \E c \in Calls : Apply(c)
    /\ UNCHANGED <<op, replaced>>

SetNext ==
    \/ \E c \in Calls : \/ \E o \in Ops : Issued(c, o)
                        \/ TakesEffect(c)
                        \/ \E o \in Outcomes : Returned(c, o)
    \/ Overwritten

SetSpec ==
    SetInit /\ [][SetNext]_<<outcome, effects, members, op, replaced>>

=============================================================================
