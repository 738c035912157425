---------------------------- MODULE MCMemberships ----------------------------
(* Two administrators; the first makes two calls and reads, by pages that the
   server clamps to two: the second page is where the other's member is.  The
   server does not know the ID 3. *)
EXTENDS Memberships

CONSTANTS a1, a2

MCAdmins == {a1, a2}
MCOwns == [a \in MCAdmins |-> IF a = a1 THEN {1, 2} ELSE {3, 4}]
MCItems == 1..4
MCEligible == {1, 2, 4}

MCChange(add, remove) == [add |-> add, remove |-> remove]

\* Among them a swap, an ID in both lists, and an ID the server refuses.
MCChanges == [a \in MCAdmins |->
    IF a = a1
    THEN {MCChange({1}, {2}), MCChange({2}, {1, 2}), MCChange({}, {1})}
    ELSE {MCChange({4}, {}), MCChange({3, 4}, {}), MCChange({}, {4})}]

MCMaxCalls == [a \in MCAdmins |-> IF a = a1 THEN 2 ELSE 1]
MCReaders == {a1}
MCLimit == [r \in MCReaders |-> 3]
=============================================================================
