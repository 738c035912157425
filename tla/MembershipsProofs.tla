--------------------------- MODULE MembershipsProofs ---------------------------
(***************************************************************************)
(* With any number of administrators, calls, readers and members: reading  *)
(* page by page misses nothing and repeats nothing, an acknowledged patch  *)
(* stands, an administrator is undisturbed by the patches of the others,   *)
(* and replacing a freshly read list spares their members.                 *)
(***************************************************************************)
EXTENDS Memberships, WellFoundedInduction, FiniteSetTheorems, TLAPS

-----------------------------------------------------------------------------
(* Least and greatest numbers, from the library's well-foundedness. *)

\* Every set of naturals that is not empty has a least element.
LEMMA LeastElement ==
    ASSUME NEW T \in SUBSET Nat, T # {}
    PROVE  \E x \in T : \A y \in T : x <= y
  <1> DEFINE R == OpToRel(<, Nat)
  <1>1. \E x \in T : \A y \in T : ~ (<<y, x>> \in R)
    <2>1. IsWellFoundedOn(R, Nat)
      BY NatLessThanWellFounded
    <2> HIDE DEF R
    <2> QED BY <2>1, WFMin
  <1>2. \A x, y \in Nat : y < x => <<y, x>> \in R
    BY DEF OpToRel
  <1>3. \A x, y \in Nat : ~(y < x) => x <= y
    OBVIOUS
  <1> HIDE DEF R
  <1> QED BY <1>1, <1>2, <1>3

\* Every finite one has a greatest.  A least counterexample, in the number of
\* its elements, would lose one of them and have a greatest again.
LEMMA GreatestElement ==
    ASSUME NEW S \in SUBSET Nat, IsFiniteSet(S), S # {}
    PROVE  \E x \in S : \A y \in S : y <= x
  <1> DEFINE Greatest(x, U) == \A y \in U : y <= x
             T == {n \in Nat : \E U \in SUBSET S :
                     U # {} /\ Cardinality(U) = n /\ ~\E x \in U : Greatest(x, U)}
  <1>1. SUFFICES ASSUME T # {} PROVE FALSE
    <2>1. Cardinality(S) \in Nat
      BY FS_CardinalityType
    <2> QED BY <2>1
  <1>2. PICK n \in T : \A m \in T : n <= m
    BY <1>1, LeastElement
  <1>3. PICK U \in SUBSET S : /\ U # {} /\ Cardinality(U) = n
                              /\ ~\E x \in U : Greatest(x, U)
    BY <1>2
  <1>4. PICK u \in U : TRUE
    BY <1>3
  <1>5. Cardinality(U \ {u}) = n - 1 /\ Cardinality(U \ {u}) \in Nat
    BY <1>3, <1>4, FS_Subset, FS_RemoveElement, FS_CardinalityType
  <1>6. U \ {u} # {}
    BY <1>3, <1>4
  <1>7. PICK m \in U \ {u} : Greatest(m, U \ {u})
    BY <1>2, <1>5, <1>6
  <1>8. m <= u \/ u <= m
    OBVIOUS
  <1> QED BY <1>3, <1>4, <1>7, <1>8

-----------------------------------------------------------------------------
(* Pages. *)

\* What a cursor has still to deliver.
Ahead(cur) == {i \in items : i > cur}

\* A page begins right after the cursor and skips nothing; the next cursor is
\* its last item, and there is none only if the page is the rest of the list.
LEMMA PagesAreConsecutive ==
    ASSUME items \subseteq Items, NEW r \in Readers, NEW cur \in Items \cup {0},
           NEW q, q = ListOptionsToQuery(Limit[r], cur)
    PROVE  /\ PageData(q) \subseteq Ahead(cur)
           /\ IF NextPage(q) = 0 THEN PageData(q) = Ahead(cur)
              ELSE /\ NextPage(q) \in Ahead(cur)
                   /\ \A i \in Ahead(cur) :
                          i \in PageData(q) <=> i <= NextPage(q)
  <1>1. Items \subseteq Nat /\ 0 \notin Items /\ IsFiniteSet(Items)
    BY ItemsAssumption
  <1>2. q.page_cursor = cur /\ PageSize(q) \in Nat \ {0}
    BY LimitAssumption, ServerLimitsAssumption
       DEF ListOptionsToQuery, PageSize
  <1>3. Following(q) = Ahead(cur)
    BY <1>2 DEF Following, Ahead
  <1>4. PageData(q) \subseteq Ahead(cur)
    BY <1>3 DEF PageData
  <1> DEFINE Before(i) == {j \in Ahead(cur) : j < i}
  <1>0. Ahead(cur) \subseteq Nat
    BY <1>1 DEF Ahead
  <1>5. /\ IsFiniteSet(Ahead(cur)) /\ Ahead(cur) \subseteq Items
        /\ \A i : IsFiniteSet(Before(i)) /\ Cardinality(Before(i)) \in Nat
    <2>1. Ahead(cur) \subseteq Items /\ \A i : Before(i) \subseteq Items
      BY DEF Ahead
    <2> HIDE DEF Before
    <2> QED BY <1>1, <2>1, FS_Subset, FS_CardinalityType
  <1>6. \A i \in Ahead(cur) :
            i \in PageData(q) <=> Cardinality(Before(i)) < PageSize(q)
    BY <1>3 DEF PageData
  <1>7. \A i, j \in Ahead(cur) : i <= j /\ j \in PageData(q) => i \in PageData(q)
    <2> SUFFICES ASSUME NEW i \in Ahead(cur), NEW j \in Ahead(cur), i <= j,
                        j \in PageData(q)
                 PROVE  i \in PageData(q)
      OBVIOUS
    <2>1. Before(i) \subseteq Before(j)
      <3>1. \A k, m, n \in Nat : k < m /\ m <= n => k < n
        OBVIOUS
      <3> QED BY <1>0, <3>1
    <2>2. Cardinality(Before(i)) <= Cardinality(Before(j))
      <3> HIDE DEF Before
      <3> QED BY <1>5, <2>1, FS_Subset
    <2> HIDE DEF Before
    <2> QED BY <1>2, <1>5, <1>6, <2>2
  <1>8. ASSUME PageData(q) # Ahead(cur)
        PROVE  /\ NextPage(q) \in PageData(q)
               /\ \A j \in PageData(q) : j <= NextPage(q)
    <2>1. PICK i \in Ahead(cur) : \A j \in Ahead(cur) : i <= j
      BY <1>1, <1>4, <1>5, <1>8, LeastElement
    <2>2. Before(i) = {}
      <3>1. \A m, n \in Nat : m <= n => ~(n < m)
        OBVIOUS
      <3> QED BY <1>0, <2>1, <3>1
    <2>3. Cardinality(Before(i)) = 0
      BY <2>2, FS_EmptySet
    <2>4. PageData(q) # {}
      <3> HIDE DEF Before
      <3> QED BY <1>2, <1>6, <2>3
    <2>5. IsFiniteSet(PageData(q))
      BY <1>4, <1>5, FS_Subset
    <2>6. \E m \in PageData(q) : \A j \in PageData(q) : j <= m
      BY <1>1, <1>4, <1>5, <2>4, <2>5, GreatestElement
    <2> QED BY <1>3, <1>8, <2>6 DEF NextPage
  <1>9. CASE PageData(q) = Ahead(cur)
    BY <1>3, <1>4, <1>9 DEF NextPage
  <1>10. CASE PageData(q) # Ahead(cur)
    <2>1. NextPage(q) \in Ahead(cur) /\ NextPage(q) # 0
      BY <1>1, <1>4, <1>8, <1>10 DEF Ahead
    <2> HIDE DEF Before
    <2> QED BY <1>4, <1>7, <1>8, <1>10, <2>1
  <1> QED BY <1>9, <1>10

-----------------------------------------------------------------------------
(* The loops over the pages. *)

\* One reader's loop: it has been handed what was listed up to its cursor, and
\* of what has stayed all the while, everything up to there.
LoopInv(r) ==
    /\ stayed[r] \subseteq items
    /\ \A i \in Items : seen[r][i] <= 1
    /\ reading[r] = "idle" =>
           cursor[r] = 0 /\ \A i \in Items : seen[r][i] = 0
    /\ reading[r] = "looping" =>
           /\ \A i \in Items : seen[r][i] = 1 => i <= cursor[r]
           /\ \A i \in stayed[r] : i <= cursor[r] => seen[r][i] = 1
    /\ reading[r] = "complete" => \A i \in stayed[r] : seen[r][i] = 1

PageInv == PageTypeOK /\ \A r \in Readers : LoopInv(r)

\* A step of another reader's loop.
LEMMA OtherLoop ==
    ASSUME PageInv, NEW r \in Readers, PageStep(r), items' = items,
           NEW s \in Readers \ {r}
    PROVE  LoopInv(s)'
  <1>1. /\ reading'[s] = reading[s] /\ cursor'[s] = cursor[s]
        /\ seen'[s] = seen[s] /\ stayed'[s] = stayed[s]
    BY DEF PageInv, PageTypeOK, PageStep, StartReading, ReadPage, ReadFails
  <1> QED BY <1>1 DEF PageInv, LoopInv

\* A page, in terms of what it hands to the loop.
LEMMA PageRead ==
    ASSUME PageInv, NEW r \in Readers, ReadPage(r)
    PROVE  \E page \in SUBSET Ahead(cursor[r]) :
             /\ \A i \in Items :
                    seen'[r][i] = IF i \in page THEN 1 ELSE seen[r][i]
             /\ \/ reading'[r] = "complete" /\ page = Ahead(cursor[r])
                \/ /\ reading'[r] = "looping"
                   /\ cursor'[r] \in Ahead(cursor[r])
                   /\ \A i \in Ahead(cursor[r]) : i \in page <=> i <= cursor'[r]
  <1> DEFINE q == ListOptionsToQuery(Limit[r], cursor[r])
  <1>1. /\ items \subseteq Items /\ cursor[r] \in Items \cup {0}
        /\ seen \in [Readers -> [Items -> 0..2]]
        /\ DOMAIN reading = Readers /\ DOMAIN cursor = Readers
    BY DEF PageInv, PageTypeOK
  <1>2. /\ PageData(q) \subseteq Ahead(cursor[r])
        /\ IF NextPage(q) = 0 THEN PageData(q) = Ahead(cursor[r])
           ELSE /\ NextPage(q) \in Ahead(cursor[r])
                /\ \A i \in Ahead(cursor[r]) :
                       i \in PageData(q) <=> i <= NextPage(q)
    BY <1>1, PagesAreConsecutive
  <1>3. /\ reading[r] = "looping"
        /\ seen' = [seen EXCEPT ![r] = [i \in Items |->
               IF i \in PageData(q) /\ seen[r][i] < 2
               THEN seen[r][i] + 1 ELSE seen[r][i]]]
        /\ reading' = [reading EXCEPT ![r] =
               IF NextPage(q) = 0 THEN "complete" ELSE reading[r]]
        /\ cursor' = [cursor EXCEPT ![r] =
               IF NextPage(q) = 0 THEN cursor[r] ELSE NextPage(q)]
    BY DEF ReadPage, IsLastPage
  <1> HIDE DEF q
  <1>4. \A i \in PageData(q) : seen[r][i] = 0
    <2>1. cursor[r] \in Nat
      <3>1. Items \subseteq Nat /\ 0 \in Nat
        BY ItemsAssumption
      <3> QED BY <1>1, <3>1, Zenon
    <2>2. \A i \in PageData(q) : i \in Items /\ i \in Nat /\ i > cursor[r]
      BY <1>1, <1>2, ItemsAssumption DEF Ahead
    <2>3. \A i \in Items : /\ seen[r][i] \in 0..2 /\ seen[r][i] <= 1
                           /\ seen[r][i] = 1 => i <= cursor[r]
      BY <1>1, <1>3 DEF PageInv, LoopInv
    <2> QED BY <2>1, <2>2, <2>3
  <1>5. \A i \in Items :
            seen'[r][i] = IF i \in PageData(q) THEN 1 ELSE seen[r][i]
    <2>1. \A i \in Items :
              seen'[r][i] = IF i \in PageData(q) /\ seen[r][i] < 2
                            THEN seen[r][i] + 1 ELSE seen[r][i]
      BY <1>1, <1>3
    <2> QED BY <1>4, <2>1
  <1>6. /\ reading'[r] = IF NextPage(q) = 0 THEN "complete" ELSE "looping"
        /\ cursor'[r] = IF NextPage(q) = 0 THEN cursor[r] ELSE NextPage(q)
    BY <1>1, <1>3
  <1> QED BY <1>2, <1>5, <1>6

LEMMA LoopInvRead ==
    ASSUME PageInv, NEW r \in Readers, ReadPage(r), items' = items
    PROVE  LoopInv(r)'
  <1>1. PICK page \in SUBSET Ahead(cursor[r]) :
             /\ \A i \in Items :
                    seen'[r][i] = IF i \in page THEN 1 ELSE seen[r][i]
             /\ \/ reading'[r] = "complete" /\ page = Ahead(cursor[r])
                \/ /\ reading'[r] = "looping"
                   /\ cursor'[r] \in Ahead(cursor[r])
                   /\ \A i \in Ahead(cursor[r]) : i \in page <=> i <= cursor'[r]
    BY PageRead
  <1>2. items \subseteq Nat /\ items \subseteq Items /\ Items \subseteq Nat
    BY ItemsAssumption DEF PageInv, PageTypeOK
  <1>3. cursor[r] \in Nat
    <2>1. cursor[r] \in Items \cup {0} /\ 0 \in Nat
      BY DEF PageInv, PageTypeOK
    <2> QED BY <1>2, <2>1, Zenon
  <1>4. /\ reading[r] = "looping" /\ stayed' = stayed
        /\ stayed[r] \subseteq items
        /\ \A i \in Items : seen[r][i] <= 1
        /\ \A i \in Items : seen[r][i] = 1 => i <= cursor[r]
        /\ \A i \in stayed[r] : i <= cursor[r] => seen[r][i] = 1
    BY DEF ReadPage, PageInv, LoopInv
  <1>5. \A i \in stayed[r] : i \in Ahead(cursor[r]) \/ seen[r][i] = 1
    <2>1. \A m, n \in Nat : m > n \/ m <= n
      OBVIOUS
    <2> QED BY <1>2, <1>3, <1>4, <2>1 DEF Ahead
  <1>6. \A i \in Items : seen'[r][i] <= 1
    BY <1>1, <1>4
  <1>7. CASE reading'[r] = "complete" /\ page = Ahead(cursor[r])
    <2>1. \A i \in stayed[r] : seen'[r][i] = 1
      BY <1>1, <1>2, <1>4, <1>5, <1>7
    <2> QED BY <1>4, <1>6, <1>7, <2>1 DEF LoopInv
  <1>8. CASE /\ reading'[r] = "looping" /\ cursor'[r] \in Ahead(cursor[r])
             /\ \A i \in Ahead(cursor[r]) : i \in page <=> i <= cursor'[r]
    <2>1. /\ \A i \in page : i \in Nat /\ i <= cursor'[r] /\ i > cursor[r]
          /\ cursor'[r] \in Nat
      BY <1>1, <1>2, <1>8 DEF Ahead
    <2>2. \A i \in Items : seen'[r][i] = 1 => i <= cursor'[r]
      <3>1. cursor[r] <= cursor'[r]
        BY <1>2, <1>3, <1>8 DEF Ahead
      <3>2. \A k, m, n \in Nat : k <= m /\ m <= n => k <= n
        OBVIOUS
      <3> QED BY <1>1, <1>2, <1>3, <1>4, <2>1, <3>1, <3>2
    <2>3. \A i \in stayed[r] : i <= cursor'[r] => seen'[r][i] = 1
      BY <1>1, <1>2, <1>4, <1>5, <1>8
    <2> QED BY <1>4, <1>6, <1>8, <2>2, <2>3 DEF LoopInv
  <1> QED BY <1>1, <1>7, <1>8

LEMMA PageTypeRead ==
    ASSUME PageInv, NEW r \in Readers, PageStep(r), items' = items
    PROVE  PageTypeOK'
  <1>1. /\ items \subseteq Items
        /\ reading \in [Readers -> {"idle", "looping", "complete", "failed"}]
        /\ cursor \in [Readers -> Items \cup {0}]
        /\ seen \in [Readers -> [Items -> 0..2]]
        /\ stayed \in [Readers -> SUBSET Items]
    BY DEF PageInv, PageTypeOK
  <1>2. CASE StartReading(r) \/ ReadFails(r)
    BY <1>1, <1>2 DEF StartReading, ReadFails, PageTypeOK
  <1>3. CASE ReadPage(r)
    <2> DEFINE q == ListOptionsToQuery(Limit[r], cursor[r])
               read == [i \in Items |->
                          IF i \in PageData(q) /\ seen[r][i] < 2
                          THEN seen[r][i] + 1 ELSE seen[r][i]]
               to == IF NextPage(q) = 0 THEN "complete" ELSE "looping"
               cur == IF NextPage(q) = 0 THEN cursor[r] ELSE NextPage(q)
    <2>1. cursor[r] \in Items \cup {0}
      BY <1>1
    <2>2. cur \in Items \cup {0}
      BY <1>1, <2>1, PagesAreConsecutive DEF Ahead
    <2>3. read \in [Items -> 0..2]
      <3>1. \A i \in Items : seen[r][i] \in 0..2
        BY <1>1
      <3> HIDE DEF q
      <3> QED BY <3>1
    <2>4. /\ seen' = [seen EXCEPT ![r] = read]
          /\ reading' = [reading EXCEPT ![r] = to]
          /\ cursor' = [cursor EXCEPT ![r] = cur]
          /\ stayed' = stayed
      BY <1>3 DEF ReadPage, IsLastPage
    <2>5. to \in {"complete", "looping"}
      OBVIOUS
    <2> HIDE DEF q, read, to, cur
    <2> QED BY <1>1, <2>2, <2>3, <2>4, <2>5 DEF PageTypeOK
  <1> QED BY <1>2, <1>3 DEF PageStep

LEMMA PageInvRead ==
    ASSUME PageInv, NEW r \in Readers, PageStep(r), items' = items
    PROVE  PageInv'
  <1>1. CASE StartReading(r)
    <2>1. /\ reading[r] = "idle" /\ reading'[r] = "looping"
          /\ stayed'[r] = items /\ cursor' = cursor /\ seen' = seen
      BY <1>1 DEF PageInv, PageTypeOK, StartReading
    <2>2. cursor[r] = 0 /\ \A i \in Items : seen[r][i] = 0
      BY <2>1 DEF PageInv, LoopInv
    <2>3. \A i \in items : i \in Items /\ ~(i <= 0)
      BY ItemsAssumption DEF PageInv, PageTypeOK
    <2> QED BY <1>1, <2>1, <2>2, <2>3, PageTypeRead, OtherLoop DEF PageInv, LoopInv
  <1>2. CASE ReadPage(r)
    BY <1>2, LoopInvRead, PageTypeRead, OtherLoop DEF PageInv
  <1>3. CASE ReadFails(r)
    <2>1. /\ reading'[r] = "failed"
          /\ stayed' = stayed /\ cursor' = cursor /\ seen' = seen
      BY <1>3 DEF PageInv, PageTypeOK, ReadFails
    <2> QED BY <1>3, <2>1, PageTypeRead, OtherLoop DEF PageInv, LoopInv
  <1> QED BY <1>1, <1>2, <1>3 DEF PageStep

\* A write, as the loops notice it.
LEMMA PageInvWrite ==
    ASSUME PageInv, items' \subseteq Items, NoteChanges,
           UNCHANGED <<reading, cursor, seen>>
    PROVE  PageInv'
  <1>1. \A r \in Readers : stayed'[r] = stayed[r] \cap items'
    BY DEF NoteChanges
  <1>2. PageTypeOK'
    BY <1>1 DEF PageInv, PageTypeOK, NoteChanges
  <1> QED BY <1>1, <1>2 DEF PageInv, LoopInv

-----------------------------------------------------------------------------
(* Calls. *)

\* A call is its administrator and its number; the earlier ones are calls too.
LEMMA CallShape ==
    ASSUME NEW c \in Calls
    PROVE  /\ c[1] \in Admins /\ c[2] \in Nat \ {0} /\ c = <<c[1], c[2]>>
           /\ \A m \in 1..(c[2] - 1) : <<c[1], m>> \in Calls
  <1>1. PICK a \in Admins : c \in {a} \X (1..MaxCalls[a])
    BY DEF Calls
  <1>2. MaxCalls[a] \in Nat
    BY AdminsAssumption
  <1>3. c[1] = a /\ c[2] \in 1..MaxCalls[a] /\ c = <<c[1], c[2]>>
    BY <1>1
  <1>4. \A m \in 1..(c[2] - 1) : m \in 1..MaxCalls[a]
    BY <1>2, <1>3
  <1> QED BY <1>2, <1>3, <1>4 DEF Calls

\* The members an administrator manages are members, and no other's.
LEMMA OwnMembers ==
    ASSUME NEW a \in Admins
    PROVE  /\ Owns[a] \subseteq Items
           /\ \A b \in Admins \ {a} : Owns[a] \cap Owns[b] = {}
           /\ \A w \in Changes[a] : w.add \subseteq Owns[a] /\ w.remove \subseteq Owns[a]
  BY AdminsAssumption

\* What the request of call c may ask for: a patch, of its administrator's own
\* members, by one that patches, or a replacement by one that replaces.
Asks(c, b) ==
    /\ b \in Bodies
    /\ b.verb = "PATCH" => b.add \subseteq Owns[c[1]] /\ b.remove \subseteq Owns[c[1]]
    /\ b.verb = "PUT" => c[1] \in replacers /\ b.remove = {}

\* A call that has not been made has done nothing; the calls before it have
\* returned; one that was acknowledged has taken effect.
CallInv(c) ==
    /\ effects[c] \in {<<>>, <<c>>}
    /\ IF op[c] = None THEN outcome[c] = "none" /\ effects[c] = <<>>
       ELSE /\ Asks(c, op[c])
            /\ \A m \in 1..(c[2] - 1) : outcome[<<c[1], m>>] # "none"
    /\ outcome[c] \in Contract!Effective => effects[c] # <<>>

\* An administrator's last call, once it has taken effect, is not undone by an
\* earlier one that agrees with it.
LastStands(a, c) ==
    (/\ replacers = {}
     /\ LastCall(a, c)
     /\ effects[c] # <<>>
     /\ \A d \in CallsOf(a) : outcome[d] = "transport" => Agrees(op[d], op[c]))
        => /\ op[c].add \subseteq items
           /\ items \cap (op[c].remove \ op[c].add) = {}

CallsInv ==
    /\ replacers \subseteq Admins
    /\ op \in [Calls -> Bodies \cup {None}]
    /\ outcome \in [Calls -> Contract!Outcomes]
    /\ DOMAIN effects = Calls
    /\ \A c \in Calls : CallInv(c)
    /\ \A a \in Admins : \A c \in CallsOf(a) : LastStands(a, c)

\* Until a write takes effect, a loop is handed what is there, and a list
\* edited and replaced differs from it in its administrator's members only.
FreshInv ==
    /\ foreign \in [Readers -> BOOLEAN]
    /\ \A r \in Readers : ~foreign[r] =>
           /\ reading[r] # "idle" => stayed[r] = items
           /\ \A i \in Items : seen[r][i] > 0 => i \in items
    /\ \A c \in Calls : op[c] # None /\ op[c].verb = "PUT" /\ c[1] \in Readers =>
           /\ reading[c[1]] = "complete"
           /\ ~foreign[c[1]] => op[c].add \ Owns[c[1]] = items \ Owns[c[1]]

Inv == PageInv /\ CallsInv /\ FreshInv

LEMMA InvInit == Init => Inv
  <1> SUFFICES ASSUME Init PROVE Inv
    OBVIOUS
  <1>1. PageInv
    BY AdminsAssumption DEF Init, PageInit, PageInv, PageTypeOK, LoopInv
  <1>2. CallsInv
    BY DEF Init, Contract!Init, CallsInv, CallInv, LastStands, LastCall,
           CallsOf, Contract!Outcomes, Contract!Effective
  <1>3. FreshInv
    BY DEF Init, PageInit, FreshInv
  <1> QED BY <1>1, <1>2, <1>3 DEF Inv

-----------------------------------------------------------------------------
(* Issuing a request. *)

\* What FreshInv says of a replacement.
Fresh(c, b) ==
    b.verb = "PUT" /\ c[1] \in Readers =>
        /\ reading[c[1]] = "complete"
        /\ ~foreign[c[1]] => b.add \ Owns[c[1]] = items \ Owns[c[1]]

\* The list a replacer edits is, but for its own members, the list on the
\* server if nothing was written since it began to read.
LEMMA EditedIsFresh ==
    ASSUME Inv, NEW a \in Admins \cap Readers, NEW w \in Changes[a],
           reading[a] = "complete", ~foreign[a]
    PROVE  Edited(a, w) \ Owns[a] = items \ Owns[a]
  <1>1. /\ stayed[a] = items
        /\ \A i \in Items : seen[a][i] > 0 => i \in items
        /\ \A i \in stayed[a] : seen[a][i] = 1
        /\ items \subseteq Items
    BY DEF Inv, FreshInv, PageInv, PageTypeOK, LoopInv
  <1>2. {i \in Items : seen[a][i] > 0} = items
    BY <1>1
  <1>3. w.add \subseteq Owns[a] /\ w.remove \subseteq Owns[a]
    BY OwnMembers
  <1> QED BY <1>2, <1>3 DEF Edited

LEMMA Issuing ==
    ASSUME Inv, NEW c \in Calls, NEW w \in Changes[c[1]],
           Patch(c, w) \/ ReplaceAll(c, w) \/ ReplaceUnread(c, w)
    PROVE  \E b : Issue(c, b) /\ Asks(c, b) /\ Fresh(c, b) /\ UNCHANGED pageVars
  <1>1. c[1] \in Admins
    BY CallShape
  <1>2. /\ w.add \subseteq Owns[c[1]] /\ w.remove \subseteq Owns[c[1]]
        /\ Owns[c[1]] \subseteq Items
    BY <1>1, OwnMembers
  <1>3. CASE Patch(c, w)
    <2> DEFINE b == PatchBody(w.add, w.remove)
    <2>1. b.verb = "PATCH" /\ b.add = w.add /\ b.remove = w.remove
      BY DEF PatchBody
    <2>2. b \in Bodies
      BY <1>2 DEF PatchBody, Bodies
    <2> HIDE DEF b
    <2>3. Asks(c, b) /\ Fresh(c, b)
      BY <1>2, <2>1, <2>2 DEF Asks, Fresh
    <2> QED BY <1>3, <2>3 DEF Patch, b
  <1>4. ASSUME NEW ids \in SUBSET Items, c[1] \in replacers,
               Issue(c, ReplaceAllBody(ids)), UNCHANGED pageVars,
               c[1] \in Readers =>
                   /\ reading[c[1]] = "complete"
                   /\ ~foreign[c[1]] => ids \ Owns[c[1]] = items \ Owns[c[1]]
        PROVE  \E b : /\ Issue(c, b) /\ Asks(c, b) /\ Fresh(c, b)
                      /\ UNCHANGED pageVars
    <2> DEFINE b == ReplaceAllBody(ids)
    <2>1. b.verb = "PUT" /\ b.add = ids /\ b.remove = {}
      BY DEF ReplaceAllBody
    <2>2. b \in Bodies
      BY DEF ReplaceAllBody, Bodies
    <2> HIDE DEF b
    <2>3. Asks(c, b) /\ Fresh(c, b)
      BY <1>4, <2>1, <2>2 DEF Asks, Fresh
    <2> QED BY <1>4, <2>3 DEF b
  <1>5. CASE ReplaceAll(c, w)
    <2>1. Edited(c[1], w) \subseteq Items
      BY <1>2 DEF Edited
    <2>2. c[1] \in Readers /\ reading[c[1]] = "complete"
      BY <1>5 DEF ReplaceAll
    <2>3. ~foreign[c[1]] => Edited(c[1], w) \ Owns[c[1]] = items \ Owns[c[1]]
      BY <1>1, <2>2, EditedIsFresh
    <2> QED BY <1>4, <1>5, <2>1, <2>2, <2>3 DEF ReplaceAll
  <1>6. CASE ReplaceUnread(c, w)
    BY <1>2, <1>4, <1>6 DEF ReplaceUnread
  <1> QED BY <1>3, <1>5, <1>6

LEMMA IssueStep ==
    ASSUME Inv, NEW c \in Calls, NEW b, Issue(c, b), Asks(c, b), Fresh(c, b),
           UNCHANGED pageVars
    PROVE  Inv'
  <1>1. /\ op' = [op EXCEPT ![c] = b] /\ DOMAIN op = Calls
        /\ op[c] = None /\ b # None
        /\ items' = items /\ replacers' = replacers /\ outcome' = outcome
        /\ effects' = effects /\ foreign' = foreign /\ reading' = reading
        /\ cursor' = cursor /\ seen' = seen /\ stayed' = stayed
    BY NoneAssumption DEF Issue, MayIssue, pageVars, Asks, Inv, CallsInv
  <1>2. op'[c] = b /\ \A d \in Calls \ {c} : op'[d] = op[d]
    BY <1>1
  <1>3. PageInv'
    BY <1>1 DEF Inv, PageInv, PageTypeOK, LoopInv
  <1>4. ASSUME NEW d \in Calls
        PROVE  CallInv(d)'
    <2>1. CASE d = c
      <3>1. \A m \in 1..(c[2] - 1) : outcome[<<c[1], m>>] # "none"
        BY DEF Issue, MayIssue
      <3> QED BY <1>1, <1>2, <2>1, <3>1 DEF Inv, CallsInv, CallInv, Asks
    <2>2. CASE d # c
      BY <1>1, <1>2, <2>2 DEF Inv, CallsInv, CallInv, Asks
    <2> QED BY <2>1, <2>2
  <1>5. ASSUME NEW a \in Admins, NEW d \in CallsOf(a)
        PROVE  LastStands(a, d)'
    <2>1. d \in Calls /\ \A e \in CallsOf(a) : e \in Calls
      BY DEF CallsOf
    <2>2. CASE d = c
      BY <1>1, <2>2 DEF Inv, CallsInv, CallInv, LastStands
    <2>3. CASE d # c
      <3>1. LastCall(a, d)' => LastCall(a, d)
        BY <1>1, <1>2, <2>1, <2>3 DEF LastCall, CallsOf
      <3>2. \A e \in CallsOf(a) : outcome[e] = "transport" => e # c
        BY <1>1, <2>1 DEF Inv, CallsInv, CallInv
      <3>3. LastStands(a, d)
        BY DEF Inv, CallsInv
      <3> QED
        BY <1>1, <1>2, <2>1, <2>3, <3>1, <3>2, <3>3
           DEF LastStands, Agrees, CallsOf
    <2> QED BY <2>2, <2>3
  <1>6. CallsInv'
    <2>1. op' \in [Calls -> Bodies \cup {None}]
      BY <1>1 DEF Asks, Inv, CallsInv
    <2> QED BY <1>1, <1>4, <1>5, <2>1 DEF Inv, CallsInv, CallsOf
  <1>7. FreshInv'
    BY <1>1, <1>2 DEF Inv, FreshInv, Fresh
  <1> QED BY <1>3, <1>6, <1>7 DEF Inv

-----------------------------------------------------------------------------
(* Reading, returning, taking effect. *)

LEMMA ReadingStep ==
    ASSUME Inv, NEW r \in Readers, PageStep(r), UNCHANGED <<items, writeVars>>
    PROVE  Inv'
  <1>1. /\ items' = items /\ replacers' = replacers /\ op' = op
        /\ outcome' = outcome /\ effects' = effects /\ foreign' = foreign
    BY DEF writeVars
  <1>2. PageInv'
    BY <1>1, PageInvRead DEF Inv
  <1>3. CallsInv'
    BY <1>1 DEF Inv, CallsInv, CallInv, Asks, LastStands, LastCall, CallsOf,
                Agrees
  <1>4. \A s \in Readers :
            /\ s # r => /\ reading'[s] = reading[s] /\ seen'[s] = seen[s]
                        /\ stayed'[s] = stayed[s]
            /\ reading[s] = "complete" => reading'[s] = "complete"
            /\ reading[s] = "idle" /\ reading'[s] # "idle" => stayed'[s] = items
            /\ reading[s] # "idle" => stayed'[s] = stayed[s]
    BY DEF Inv, PageInv, PageTypeOK, PageStep, StartReading, ReadPage, ReadFails
  <1>5. \A i \in Items : seen'[r][i] > 0 => seen[r][i] > 0 \/ i \in items
    <2>1. CASE StartReading(r) \/ ReadFails(r)
      BY <2>1 DEF StartReading, ReadFails
    <2>2. CASE ReadPage(r)
      <3>1. PICK page \in SUBSET Ahead(cursor[r]) :
                \A i \in Items : seen'[r][i] = IF i \in page THEN 1 ELSE seen[r][i]
        BY <2>2, PageRead DEF Inv
      <3> QED BY <3>1 DEF Ahead
    <2> QED BY <2>1, <2>2 DEF PageStep
  <1>6. \A s \in Readers : ~foreign[s] =>
            /\ reading'[s] # "idle" => stayed'[s] = items
            /\ \A i \in Items : seen'[s][i] > 0 => i \in items
    BY <1>4, <1>5 DEF Inv, FreshInv
  <1>7. FreshInv'
    BY <1>1, <1>4, <1>6 DEF Inv, FreshInv
  <1> QED BY <1>2, <1>3, <1>7 DEF Inv

LEMMA ReturnedStep ==
    ASSUME Inv, NEW c \in Calls, Returned(c)
    PROVE  Inv'
  <1>1. PICK o \in Returns : Contract!Return(c, o)
    BY DEF Returned
  <1>2. /\ items' = items /\ replacers' = replacers /\ op' = op
        /\ effects' = effects /\ foreign' = foreign /\ reading' = reading
        /\ cursor' = cursor /\ seen' = seen /\ stayed' = stayed
        /\ outcome' = [outcome EXCEPT ![c] = o] /\ DOMAIN outcome = Calls
        /\ op[c] # None /\ outcome[c] = "none"
        /\ o \in Contract!Outcomes \ {"none"}
        /\ o \in Contract!Effective => effects[c] # <<>>
    BY <1>1, AdminsAssumption
       DEF Returned, pageVars, Contract!Return, Inv, CallsInv
  <1>3. outcome'[c] = o /\ \A d \in Calls \ {c} : outcome'[d] = outcome[d]
    BY <1>2
  <1>4. PageInv'
    BY <1>2 DEF Inv, PageInv, PageTypeOK, LoopInv
  <1>5. ASSUME NEW d \in Calls
        PROVE  CallInv(d)'
    <2>1. CallInv(d)
      BY DEF Inv, CallsInv
    <2>2. \A e \in Calls : outcome[e] # "none" => outcome'[e] # "none"
      BY <1>2, <1>3
    <2>3. op[d] # None =>
              \A m \in 1..(d[2] - 1) : outcome'[<<d[1], m>>] # "none"
      BY <2>1, <2>2, CallShape DEF CallInv
    <2>4. Asks(d, op[d])' <=> Asks(d, op[d])
      BY <1>2 DEF Asks
    <2> QED BY <1>2, <1>3, <2>1, <2>3, <2>4 DEF CallInv
  <1>6. ASSUME NEW a \in Admins, NEW d \in CallsOf(a)
        PROVE  LastStands(a, d)'
    <2>1. \A e \in CallsOf(a) : outcome[e] = "transport" => outcome'[e] = "transport"
      BY <1>2, <1>3 DEF CallsOf
    <2>2. LastStands(a, d)
      BY DEF Inv, CallsInv
    <2> QED BY <1>2, <2>1, <2>2 DEF LastStands, LastCall, CallsOf, Agrees
  <1>7. CallsInv'
    BY <1>2, <1>5, <1>6 DEF Inv, CallsInv, CallsOf
  <1>8. FreshInv'
    BY <1>2 DEF Inv, FreshInv
  <1> QED BY <1>4, <1>7, <1>8 DEF Inv

\* While nobody replaces, an administrator's last call stays done: what takes
\* effect after it is one of its own earlier calls, which agrees with it, or
\* concerns the members of another.
LEMMA LastStillStands ==
    ASSUME Inv, NEW c \in Calls, TakeEffect(c),
           NEW a \in Admins, NEW d \in CallsOf(a), replacers = {},
           LastCall(a, d), d = c \/ effects[d] # <<>>,
           \A e \in CallsOf(a) : outcome[e] = "transport" => Agrees(op[e], op[d])
    PROVE  /\ op[d].add \subseteq items'
           /\ items' \cap (op[d].remove \ op[d].add) = {}
  <1>1. /\ op[c] # None /\ items' = Result(op[c], items)
        /\ effects[c] = <<>> /\ outcome[c] \in {"none", "transport"}
    BY DEF TakeEffect, Contract!Apply
  <1>2. d \in Calls /\ d[1] = a /\ op[d] # None
    BY DEF LastCall, CallsOf
  <1>3. Asks(c, op[c]) /\ Asks(d, op[d])
    BY <1>1, <1>2 DEF Inv, CallsInv, CallInv
  <1>4. op[c].verb = "PATCH" /\ op[d].verb = "PATCH"
    BY <1>3 DEF Asks, Bodies
  <1>5. items' = (items \ op[c].remove) \cup op[c].add
    BY <1>1, <1>4 DEF Result
  <1>6. CASE d = c
    BY <1>5, <1>6
  <1>7. CASE d # c
    <2>1. /\ op[d].add \subseteq items
          /\ items \cap (op[d].remove \ op[d].add) = {}
      BY <1>7 DEF Inv, CallsInv, LastStands
    <2>2. CASE c[1] = a
      <3>1. c \in CallsOf(a) /\ ~(c[2] > d[2])
        BY <1>1, <2>2 DEF LastCall, CallsOf
      <3>2. c[2] # d[2]
        BY <1>2, <1>7, <2>2, CallShape
      <3>3. c[2] \in 1..(d[2] - 1)
        <4>1. c[2] \in Nat \ {0} /\ d[2] \in Nat \ {0}
          BY <1>2, CallShape
        <4> QED BY <3>1, <3>2, <4>1
      <3>4. outcome[c] # "none"
        <4>1. c = <<d[1], c[2]>>
          BY <1>2, <2>2, CallShape
        <4>2. \A m \in 1..(d[2] - 1) : outcome[<<d[1], m>>] # "none"
          BY <1>2 DEF Inv, CallsInv, CallInv
        <4> QED BY <3>3, <4>1, <4>2
      <3>5. Agrees(op[c], op[d])
        BY <1>1, <3>1, <3>4
      <3> QED BY <1>5, <2>1, <3>5 DEF Agrees
    <2>3. CASE c[1] # a
      <3>1. Owns[c[1]] \cap Owns[a] = {}
        BY <2>3, CallShape, OwnMembers
      <3>2. /\ op[c].add \subseteq Owns[c[1]] /\ op[c].remove \subseteq Owns[c[1]]
            /\ op[d].add \subseteq Owns[a] /\ op[d].remove \subseteq Owns[a]
        BY <1>2, <1>3, <1>4 DEF Asks
      <3> QED BY <1>5, <2>1, <3>1, <3>2
    <2> QED BY <2>2, <2>3
  <1> QED BY <1>6, <1>7

LEMMA TakeEffectStep ==
    ASSUME Inv, NEW c \in Calls, TakeEffect(c)
    PROVE  Inv'
  <1>1. /\ op[c] # None /\ items' = Result(op[c], items)
        /\ effects' = [effects EXCEPT ![c] = <<c>>] /\ DOMAIN effects = Calls
        /\ outcome' = outcome /\ replacers' = replacers /\ op' = op
        /\ reading' = reading /\ cursor' = cursor /\ seen' = seen
        /\ foreign' = [r \in Readers |-> reading[r] # "idle"]
        /\ NoteChanges
    BY DEF TakeEffect, Contract!Apply, Inv, CallsInv
  <1>2. effects'[c] = <<c>> /\ \A d \in Calls \ {c} : effects'[d] = effects[d]
    BY <1>1
  <1>3. items' \subseteq Items
    <2>1. op[c] \in Bodies /\ items \subseteq Items
      BY <1>1 DEF Inv, CallsInv, CallInv, Asks, PageInv, PageTypeOK
    <2>2. op[c].add \subseteq Items
      BY <2>1 DEF Bodies
    <2> QED BY <1>1, <2>1, <2>2 DEF Result
  <1>4. PageInv'
    BY <1>1, <1>3, PageInvWrite DEF Inv
  <1>5. ASSUME NEW d \in Calls
        PROVE  CallInv(d)'
    BY <1>1, <1>2 DEF Inv, CallsInv, CallInv, Asks
  <1>6. ASSUME NEW a \in Admins, NEW d \in CallsOf(a)
        PROVE  LastStands(a, d)'
    <2>1. d \in Calls
      BY DEF CallsOf
    <2>2. LastCall(a, d)' => LastCall(a, d)
      BY <1>1 DEF LastCall, CallsOf
    <2>3. effects'[d] # <<>> => d = c \/ effects[d] # <<>>
      BY <1>2, <2>1
    <2> QED
      BY <1>1, <2>2, <2>3, LastStillStands DEF LastStands, Agrees, CallsOf
  <1>7. CallsInv'
    BY <1>1, <1>5, <1>6 DEF Inv, CallsInv, CallsOf
  <1>8. FreshInv'
    <2>1. \A r \in Readers : /\ foreign'[r] <=> reading[r] # "idle"
                             /\ foreign'[r] \in BOOLEAN
      BY <1>1
    <2>2. \A r \in Readers : reading[r] = "idle" => \A i \in Items : seen[r][i] = 0
      BY DEF Inv, PageInv, LoopInv
    <2>3. \A r \in Readers : ~foreign'[r] =>
              /\ reading'[r] = "idle"
              /\ \A i \in Items : ~(seen'[r][i] > 0)
      BY <1>1, <2>1, <2>2
    <2>4. foreign' \in [Readers -> BOOLEAN]
      BY <1>1
    <2> QED BY <1>1, <2>1, <2>3, <2>4 DEF Inv, FreshInv
  <1> QED BY <1>4, <1>7, <1>8 DEF Inv

LEMMA InvStep == Inv /\ [Next]_vars => Inv'
  <1> SUFFICES ASSUME Inv, [Next]_vars PROVE Inv'
    OBVIOUS
  <1>1. CASE Reading
    BY <1>1, ReadingStep DEF Reading
  <1>2. CASE Writing
    BY <1>2, Issuing, IssueStep, ReturnedStep, TakeEffectStep DEF Writing
  <1>3. CASE UNCHANGED vars
    BY <1>3 DEF vars, pageVars, writeVars, Inv, PageInv, PageTypeOK, LoopInv,
                CallsInv, CallInv, Asks, LastStands, LastCall, CallsOf, Agrees,
                FreshInv
  <1> QED BY <1>1, <1>2, <1>3 DEF Next

-----------------------------------------------------------------------------

(* Whoever reads and writes, and whenever requests arrive, the collection holds
   members only, every request is one that the service can build, and no call
   takes effect twice (memberships.go:48-101). *)
THEOREM MembershipsTypeCorrect == Spec => []TypeOK
  <1>1. Inv => TypeOK
    BY DEF Inv, PageInv, CallsInv, CallInv, Asks, FreshInv, TypeOK
  <1> QED BY <1>1, InvInit, InvStep, PTL DEF Spec

(* For collections, page sizes and limits of any size, and any changes between
   two pages: the loop over the pages is handed no item twice, and every item
   that was there all the while (pagination.go:15-33). *)
THEOREM PagingIsExact == Spec => []SeenOnce
  <1>1. Inv => SeenOnce
    BY DEF Inv, PageInv, LoopInv, SeenOnce
  <1> QED BY <1>1, InvInit, InvStep, PTL DEF Spec

(* A patch that was acknowledged stands, however late the requests that ended in
   a transport error arrive, as long as they agree with it
   (memberships.go:85-87). *)
THEOREM AcknowledgedPatchesStand == Spec => []AcknowledgedStands
  <1>1. Inv => AcknowledgedStands
    <2>1. \A a \in Admins : \A c \in CallsOf(a) : c \in Calls
      BY DEF CallsOf
    <2> QED BY <2>1 DEF Inv, CallsInv, CallInv, LastStands, AcknowledgedStands
  <1> QED BY <1>1, InvInit, InvStep, PTL DEF Spec

(* Reading page by page, editing and replacing spares the other administrators'
   members if no write took effect since the reading began
   (memberships.go:48-54). *)
THEOREM FreshReplacementsSpareOthers == Spec => FreshReplaceSparesOthers
  <1> DEFINE A == \A c \in Calls :
         (/\ effects'[c] # effects[c]
          /\ op[c].verb = "PUT"
          /\ c[1] \in Readers
          /\ ~foreign[c[1]])
             => items' \ Owns[c[1]] = items \ Owns[c[1]]
  <1>1. Inv /\ [Next]_vars => [A]_vars
    <2> SUFFICES ASSUME Inv, Next, NEW c \in Calls, effects'[c] # effects[c],
                        op[c].verb = "PUT", c[1] \in Readers, ~foreign[c[1]]
                 PROVE  items' \ Owns[c[1]] = items \ Owns[c[1]]
      OBVIOUS
    <2>1. PICK d \in Calls : TakeEffect(d)
      BY DEF Next, Reading, Writing, writeVars, Patch, ReplaceAll,
             ReplaceUnread, Issue, Returned, Contract!Return
    <2>2. d = c
      BY <2>1 DEF TakeEffect, Contract!Apply, Inv, CallsInv
    <2>3. op[c] # None /\ items' = op[c].add
      BY <2>1, <2>2 DEF TakeEffect, Result
    <2> QED BY <2>3 DEF Inv, FreshInv
  <1> QED BY <1>1, InvInit, InvStep, PTL DEF Spec, FreshReplaceSparesOthers

-----------------------------------------------------------------------------
(* The refinement of MemberSet. *)

Own == CallsOf(Observed)

\* What is left of a request for the observed administrator is one of the
\* abstract operations.
LEMMA ConcerningIsAnOp ==
    ASSUME NEW b \in Bodies
    PROVE  /\ Concerning(b) = [add |-> b.add \cap Mine, remove |-> b.remove \cap Mine]
           /\ Concerning(b) \in [add : SUBSET Mine, remove : SUBSET Mine]
           /\ Concerning(b) # None
  <1>1. Mine \subseteq Items
    BY AdminsAssumption, OwnMembers DEF Mine
  <1>2. b # None
    BY NoneAssumption
  <1>3. [add |-> b.add \cap Mine, remove |-> b.remove \cap Mine]
            \in [add : SUBSET Items, remove : SUBSET Items]
    BY <1>1
  <1> QED BY <1>2, <1>3, NoneAssumption DEF Concerning

LEMMA UndisturbedInit == Init => Alone!SetInit
  BY AdminsAssumption
     DEF Init, Contract!Init, CallsOf, Mine, Concerning, Alone!SetInit, Alone!Init

\* A call is issued: one of the abstract calls, or nothing.
LEMMA UndisturbedIssue ==
    ASSUME Inv, NEW c \in Calls, NEW b, Issue(c, b), b \in Bodies
    PROVE  IF c \in Own THEN Alone!Issued(c, Concerning(b))
           ELSE /\ UNCHANGED <<items, replacers, outcome, effects>>
                /\ \A d \in Own : op'[d] = op[d]
  <1>1. /\ op' = [op EXCEPT ![c] = b] /\ op[c] = None
        /\ op \in [Calls -> Bodies \cup {None}] /\ Own \subseteq Calls
        /\ UNCHANGED <<items, replacers, outcome, effects>>
    BY DEF Issue, MayIssue, Inv, CallsInv, Own, CallsOf
  <1>2. CASE c \in Own
    <2>1. Concerning(op[c]) = None
      BY <1>1 DEF Concerning
    <2>2. [d \in Own |-> Concerning(op'[d])] =
              [[d \in Own |-> Concerning(op[d])] EXCEPT ![c] = Concerning(b)]
      <3>1. \A d \in Own : op'[d] = IF d = c THEN b ELSE op[d]
        BY <1>1
      <3> QED BY <1>2, <3>1
    <2> QED BY <1>1, <1>2, <2>1, <2>2 DEF Own, Alone!Issued
  <1>3. CASE c \notin Own
    BY <1>1, <1>3
  <1> QED BY <1>2, <1>3

LEMMA UndisturbedReturn ==
    ASSUME Inv, NEW c \in Calls, Returned(c)
    PROVE  IF c \in Own THEN \E o \in Alone!Outcomes : Alone!Returned(c, o)
           ELSE /\ UNCHANGED <<items, replacers, op, effects>>
                /\ \A d \in Own : outcome'[d] = outcome[d]
  <1>1. PICK o \in Returns : Contract!Return(c, o)
    BY DEF Returned
  <1>2. /\ outcome' = [outcome EXCEPT ![c] = o] /\ outcome[c] = "none"
        /\ outcome \in [Calls -> Contract!Outcomes] /\ Own \subseteq Calls
        /\ o \in Contract!Effective => effects[c] # <<>>
        /\ o \in Contract!Effectless => effects[c] = <<>>
        /\ o \in Contract!Outcomes
        /\ UNCHANGED <<items, replacers, op, effects>> /\ op[c] # None
    BY <1>1, AdminsAssumption
       DEF Returned, Contract!Return, Inv, CallsInv, Own, CallsOf
  <1>3. CASE c \in Own
    <2>1. Concerning(op[c]) # None
      BY <1>2, ConcerningIsAnOp DEF Inv, CallsInv
    <2>2. [d \in Own |-> outcome'[d]] =
              [[d \in Own |-> outcome[d]] EXCEPT ![c] = o]
      BY <1>2, <1>3
    <2>3. Alone!Return(c, o)
      BY <1>2, <1>3, <2>2
         DEF Own, Contract!Effective, Contract!Effectless, Alone!Return,
             Alone!Effective, Alone!Effectless
    <2> QED
      BY <1>2, <1>3, <2>1, <2>3
         DEF Own, Contract!Outcomes, Alone!Outcomes, Alone!Returned
  <1>4. CASE c \notin Own
    BY <1>2, <1>4
  <1> QED BY <1>3, <1>4

\* A request takes effect: an abstract effect, an overwriting, or nothing that
\* concerns the observed members.
LEMMA UndisturbedEffect ==
    ASSUME Inv, NEW c \in Calls, TakeEffect(c)
    PROVE  \/ c \in Own /\ Alone!TakesEffect(c)
           \/ Alone!Overwritten
           \/ /\ UNCHANGED <<replacers, op, outcome>>
              /\ items' \cap Mine = items \cap Mine
              /\ \A d \in Own : effects'[d] = effects[d]
  <1>1. /\ op[c] \in Bodies /\ Asks(c, op[c]) /\ items' = Result(op[c], items)
        /\ effects' = [effects EXCEPT ![c] = <<c>>] /\ effects[c] = <<>>
        /\ outcome[c] \in {"none", "transport"}
        /\ DOMAIN effects = Calls /\ Own \subseteq Calls
        /\ UNCHANGED <<replacers, op, outcome>>
    BY DEF TakeEffect, Contract!Apply, Inv, CallsInv, CallInv, Asks, Own, CallsOf
  <1>2. c \in Own => Alone!Apply(c)
    <2> SUFFICES ASSUME c \in Own PROVE Alone!Apply(c)
      OBVIOUS
    <2>1. [d \in Own |-> effects'[d]] =
              [[d \in Own |-> effects[d]] EXCEPT ![c] = <<c>>]
      BY <1>1
    <2> QED BY <1>1, <2>1 DEF Own, Alone!Apply
  <1>3. c \notin Own => \A d \in Own : effects'[d] = effects[d]
    BY <1>1
  <1>4. CASE op[c].verb = "PUT"
    <2>1. replacers # {}
      BY <1>1, <1>4 DEF Asks
    <2>2. CASE c \in Own
      BY <1>1, <1>2, <2>1, <2>2 DEF Own, Alone!Overwritten
    <2>3. CASE c \notin Own
      BY <1>1, <1>3, <2>1, <2>3 DEF Own, Alone!Overwritten
    <2> QED BY <2>2, <2>3
  <1>5. CASE op[c].verb = "PATCH"
    <2>1. items' = (items \ op[c].remove) \cup op[c].add
      BY <1>1, <1>5 DEF Result
    <2>2. CASE c \in Own
      <3>1. /\ Concerning(op[c]) # None
            /\ Concerning(op[c]).add = op[c].add \cap Mine
            /\ Concerning(op[c]).remove = op[c].remove \cap Mine
        BY <1>1, ConcerningIsAnOp
      <3>2. items' \cap Mine = ((items \cap Mine) \ Concerning(op[c]).remove)
                                   \cup Concerning(op[c]).add
        BY <2>1, <3>1
      <3> QED BY <1>1, <1>2, <2>2, <3>1, <3>2 DEF Own, Alone!TakesEffect
    <2>3. CASE c \notin Own
      <3>1. c[1] # Observed
        BY <2>3 DEF Own, CallsOf
      <3>2. Owns[c[1]] \cap Mine = {}
        BY <3>1, AdminsAssumption, CallShape, OwnMembers DEF Mine
      <3>3. items' \cap Mine = items \cap Mine
        BY <1>1, <1>5, <2>1, <3>2 DEF Asks
      <3> QED BY <1>1, <1>3, <2>3, <3>3
    <2> QED BY <2>2, <2>3
  <1> QED BY <1>1, <1>4, <1>5 DEF Bodies

(* Among any number of administrators, each sees its own members behave as if it
   were the only one, as long as nobody replaces the list: every step of the
   others, however late their requests, is a stutter of MemberSet
   (memberships.go:80-83, pool_members.go:89-92). *)
THEOREM AdministratorsAreUndisturbed == Spec => Undisturbed
  <1> DEFINE bar == <<[c \in Own |-> outcome[c]], [c \in Own |-> effects[c]],
                      items \cap Mine, [c \in Own |-> Concerning(op[c])],
                      replacers # {}>>
  <1>1. Inv /\ [Next]_vars => [Alone!SetNext]_bar
    <2> SUFFICES ASSUME Inv, [Next]_vars PROVE Alone!SetNext \/ bar' = bar
      OBVIOUS
    <2>1. CASE Reading \/ UNCHANGED vars
      BY <2>1 DEF Reading, writeVars, vars, Concerning
    <2>2. ASSUME NEW c \in Calls, NEW w \in Changes[c[1]],
                 Patch(c, w) \/ ReplaceAll(c, w) \/ ReplaceUnread(c, w)
          PROVE  Alone!SetNext \/ bar' = bar
      <3>1. PICK b : Issue(c, b) /\ Asks(c, b)
        BY <2>2, Issuing
      <3>2. b \in Bodies
        BY <3>1 DEF Asks
      <3>3. CASE c \in Own
        BY <3>1, <3>2, <3>3, UndisturbedIssue, ConcerningIsAnOp
           DEF Own, Alone!SetNext
      <3>4. CASE c \notin Own
        BY <3>1, <3>2, <3>4, UndisturbedIssue DEF Concerning
      <3> QED BY <3>3, <3>4
    <2>3. ASSUME NEW c \in Calls, Returned(c)
          PROVE  Alone!SetNext \/ bar' = bar
      <3>1. CASE c \in Own
        BY <2>3, <3>1, UndisturbedReturn DEF Own, Alone!SetNext
      <3>2. CASE c \notin Own
        BY <2>3, <3>2, UndisturbedReturn DEF Concerning
      <3> QED BY <3>1, <3>2
    <2>4. ASSUME NEW c \in Calls, TakeEffect(c)
          PROVE  Alone!SetNext \/ bar' = bar
      BY <2>4, UndisturbedEffect DEF Own, Alone!SetNext, Concerning
    <2> QED BY <2>1, <2>2, <2>3, <2>4 DEF Next, Writing
  <1> QED
    BY <1>1, UndisturbedInit, InvInit, InvStep, PTL
       DEF Spec, Undisturbed, Alone!SetSpec, Own

=============================================================================
