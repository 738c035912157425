----------------------------- MODULE Memberships -----------------------------
(***************************************************************************)
(* Several administrators change the members of one group, or of one pool  *)
(* of devices, while they and others read it page by page.  Every write is *)
(* a call in the sense of CallContract: it takes effect at most once, and  *)
(* one that ended in a transport error may take effect much later, after   *)
(* further calls of the same administrator.                                *)
(*                                                                         *)
(* MembershipsService and PoolMembersService are the same code but for     *)
(* names.  A pool accepts only Clients of the account: "Eligible".         *)
(***************************************************************************)
EXTENDS Pagination, Sequences

CONSTANTS
    Admins,     \* the administrators
    Owns,       \* the members each of them manages
    Observed,   \* one of them, any
    Changes,    \* what each may want to change in one call
    MaxCalls,   \* how many writes each makes: a bound of the model
    Returns,    \* the outcomes of calls that are told apart
    Eligible,   \* the IDs the server accepts
    None        \* no request

Calls == UNION {{a} \X (1..MaxCalls[a]) : a \in Admins}

\* The requests, one entry for each ID.
Bodies == [verb : {"PATCH", "PUT"}, add : SUBSET Items, remove : SUBSET Items]

VARIABLES
    replacers,  \* the administrators that use ReplaceAll rather than Patch
    op,         \* the request of each call, or None
    outcome,    \* what each call has returned
    effects,    \* whether each has taken effect: CallContract's effects
    foreign     \* a write took effect since each reader's loop began

writeVars == <<replacers, op, outcome, effects, foreign>>
vars == <<items, pageVars, writeVars>>

Contract == INSTANCE CallContract WITH Body <- [c \in Calls |-> c]

ASSUME AdminsAssumption ==
    /\ Observed \in Admins
    /\ Owns \in [Admins -> SUBSET Items]
    /\ \A a, b \in Admins : a # b => Owns[a] \cap Owns[b] = {}
    /\ \A a \in Admins :
           Changes[a] \subseteq [add : SUBSET Owns[a], remove : SUBSET Owns[a]]
    /\ MaxCalls \in [Admins -> Nat]
    /\ Returns \subseteq Contract!Outcomes \ {"none"}
    /\ Eligible \subseteq Items

ASSUME NoneAssumption ==
    None \notin Bodies \cup [add : SUBSET Items, remove : SUBSET Items]

Init ==
    /\ PageInit
    /\ items \in SUBSET Eligible
    /\ replacers \in SUBSET Admins
    /\ op = [c \in Calls |-> None]
    /\ Contract!Init
    /\ foreign = [r \in Readers |-> FALSE]

-----------------------------------------------------------------------------
(* The administrators. *)

\* The n-th call of an administrator is made when the one before has returned.
MayIssue(c) ==
    /\ op[c] = None
    /\ \A m \in 1..(c[2] - 1) : outcome[<<c[1], m>>] # "none"

Issue(c, body) ==
    /\ MayIssue(c)
    /\ op' = [op EXCEPT ![c] = body]
    /\ UNCHANGED <<items, replacers, outcome, effects, foreign>>

\* Mutant: the patch goes out as a replacement.
PatchBodyPut(add, remove) == [verb |-> "PUT", add |-> add, remove |-> {}]

PatchBody(add, remove) ==
    [verb |-> "PATCH", add |-> add, remove |-> remove]

Patch(c, w) ==
    /\ c[1] \notin replacers
    /\ Issue(c, PatchBody(w.add, w.remove))
    /\ UNCHANGED pageVars

\* One entry for each ID; the server ignores repetitions.
ReplaceAllBody(ids) ==
    [verb |-> "PUT", add |-> ids, remove |-> {}]

\* What the administrator wants to change, applied to the list it has read.
Edited(a, w) == ({i \in Items : seen[a][i] > 0} \ w.remove) \cup w.add

ReplaceAll(c, w) ==
    /\ c[1] \in replacers \cap Readers
    /\ reading[c[1]] = "complete"
    /\ Issue(c, ReplaceAllBody(Edited(c[1], w)))
    /\ UNCHANGED pageVars

\* An administrator that never reads takes its own members for all of them.
ReplaceUnread(c, w) ==
    /\ c[1] \in replacers \ Readers
    /\ Issue(c, ReplaceAllBody(w.add))
    /\ UNCHANGED pageVars

Returned(c) ==
    /\ op[c] # None
    /\ \E o \in Returns : Contract!Return(c, o)
    /\ UNCHANGED <<items, pageVars, replacers, op, foreign>>

-----------------------------------------------------------------------------
(* The server. *)

\* One ID the server does not know and the whole request is refused.
Acceptable(b) == b.add \subseteq Eligible

\* Removals first, so an ID in both lists ends up a member.
Result(b, list) ==
    IF b.verb = "PUT" THEN b.add ELSE (list \ b.remove) \cup b.add

\* Mutant: a request may have been sent twice, and is applied each time.
TakeEffectAgain(c) ==
    /\ op[c] # None
    /\ Acceptable(op[c])
    /\ outcome[c] \in {"none", "transport", "ok"}
    /\ Len(effects[c]) < 2
    /\ effects' = [effects EXCEPT ![c] = Append(@, c)]
    /\ items' = Result(op[c], items)
    /\ foreign' = [r \in Readers |-> reading[r] # "idle"]
    /\ NoteChanges
    /\ UNCHANGED <<reading, cursor, seen, replacers, op, outcome>>

TakeEffect(c) ==
    /\ op[c] # None
    /\ Acceptable(op[c])
    /\ Contract!Apply(c)
    /\ items' = Result(op[c], items)
    /\ foreign' = [r \in Readers |-> reading[r] # "idle"]
    /\ NoteChanges
    /\ UNCHANGED <<reading, cursor, seen, replacers, op>>

-----------------------------------------------------------------------------

Reading ==
    /\ \E r \in Readers : PageStep(r)
    /\ UNCHANGED <<items, writeVars>>

Writing ==
    \E c \in Calls :
        \/ \E w \in Changes[c[1]] : \/ Patch(c, w)
                                     \/ ReplaceAll(c, w)
                                     \/ ReplaceUnread(c, w)
        \/ Returned(c)
        \/ TakeEffect(c)

Next == Reading \/ Writing

\* The loops go on and are answered.  Nobody has to write.
Fairness ==
    \A r \in Readers : WF_vars(ReadPage(r) /\ UNCHANGED <<items, writeVars>>)

Spec == Init /\ [][Next]_vars /\ Fairness

-----------------------------------------------------------------------------
(* Properties. *)

\* The variables hold what their names say.
TypeOK ==
    /\ PageTypeOK
    /\ replacers \subseteq Admins
    /\ op \in [Calls -> Bodies \cup {None}]
    /\ outcome \in [Calls -> Contract!Outcomes]
    /\ \A c \in Calls : effects[c] \in {<<>>, <<c>>}
    /\ foreign \in [Readers -> BOOLEAN]

CallsOf(a) == {c \in Calls : c[1] = a}

Mine == Owns[Observed]

\* What is left of a request for the observed administrator's own members.
Concerning(b) ==
    IF b = None THEN None
    ELSE [add |-> b.add \cap Mine, remove |-> b.remove \cap Mine]

Alone ==
    INSTANCE MemberSet WITH
        Calls <- CallsOf(Observed),
        Body <- [c \in CallsOf(Observed) |-> c],
        Ops <- [add : SUBSET Mine, remove : SUBSET Mine],
        outcome <- [c \in CallsOf(Observed) |-> outcome[c]],
        effects <- [c \in CallsOf(Observed) |-> effects[c]],
        members <- items \cap Mine,
        op <- [c \in CallsOf(Observed) |-> Concerning(op[c])],
        replaced <- replacers # {}

(* As long as nobody uses ReplaceAll, an administrator sees its own members
   behave as if it were the only one: no patch of another, however late,
   disturbs them (memberships.go:80-83, pool_members.go:89-92). *)
Undisturbed == Alone!SetSpec

\* Applying b after the effect of w would not undo any of it.
Agrees(b, w) ==
    /\ (b.remove \ b.add) \cap w.add = {}
    /\ b.add \cap (w.remove \ w.add) = {}

\* The last call an administrator has made.
LastCall(a, c) ==
    /\ c \in CallsOf(a)
    /\ op[c] # None
    /\ \A d \in CallsOf(a) : d[2] > c[2] => op[d] = None

(* A patch that was acknowledged stands: what it added is there and what it
   removed is gone, even if earlier calls of its administrator ended in a
   transport error and take effect only now - provided they ask for nothing
   that contradicts it, as a repetition of the same patch does not
   (memberships.go:85-87). *)
AcknowledgedStands ==
    \A a \in Admins : \A c \in CallsOf(a) :
        (/\ replacers = {}
         /\ LastCall(a, c)
         /\ outcome[c] \in Contract!Effective
         /\ \A d \in CallsOf(a) :
                outcome[d] = "transport" => Agrees(op[d], op[c]))
            => /\ op[c].add \subseteq items
               /\ items \cap (op[c].remove \ op[c].add) = {}

(* A ReplaceAll of an edited list takes away or brings back a member of
   another administrator only if some write has taken effect since its caller
   began to read the list: with nobody else writing, reading page by page,
   editing and replacing is exact (memberships.go:48-54). *)
FreshReplaceSparesOthers ==
    [][\A c \in Calls :
         (/\ effects'[c] # effects[c]
          /\ op[c].verb = "PUT"
          /\ c[1] \in Readers
          /\ ~foreign[c[1]])
             => items' \ Owns[c[1]] = items \ Owns[c[1]]]_vars

=============================================================================
