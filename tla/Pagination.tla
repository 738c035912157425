------------------------------ MODULE Pagination ------------------------------
(***************************************************************************)
(* Callers that read a collection page by page while others change it: the *)
(* cursor loop of example_test.go:48-67 over the List methods.             *)
(*                                                                         *)
(* The server lists a collection in a fixed order, here the order of       *)
(* numbers, and a cursor names the last item of the page it came from; the *)
(* source says of it only that it leads to the following page.  Each List  *)
(* is one step: the loop is sequential, and only its own answer matters.   *)
(***************************************************************************)
EXTENDS Integers, FiniteSets

CONSTANTS
    Readers,        \* who reads
    Items,          \* everything that may ever be in the collection
    Limit,          \* the ListOptions.Limit each of them uses
    DefaultLimit,   \* the API's page size (50)
    MaxLimit        \* the largest page it serves (100)

ASSUME ItemsAssumption == Items \subseteq Nat \ {0} /\ IsFiniteSet(Items)
ASSUME LimitAssumption == Limit \in [Readers -> Int]
ASSUME ServerLimitsAssumption ==
    /\ DefaultLimit \in Nat \ {0} /\ MaxLimit \in Nat \ {0}
    /\ DefaultLimit <= MaxLimit

VARIABLES
    items,      \* the collection
    reading,    \* where each reader's loop is
    cursor,     \* its ListOptions.PageCursor: the last item read, 0 for ""
    seen,       \* how often its loop was handed each item: 0, 1, or 2 for more
    stayed      \* the items that have been there since its loop began

pageVars == <<reading, cursor, seen, stayed>>

PageInit ==
    /\ reading = [r \in Readers |-> "idle"]
    /\ cursor = [r \in Readers |-> 0]
    /\ seen = [r \in Readers |-> [i \in Items |-> 0]]
    /\ stayed = [r \in Readers |-> {}]

\* Mutant: the cursor is left out of the query.
QueryWithoutCursor(lim, cur) ==
    [limit |-> IF lim > 0 THEN lim ELSE 0, page_cursor |-> 0]

\* A parameter that is not set is 0.
ListOptionsToQuery(lim, cur) ==
    [limit |-> IF lim > 0 THEN lim ELSE 0, page_cursor |-> cur]

-----------------------------------------------------------------------------
(* The server: one page and its metadata. *)

PageSize(q) == IF q.limit = 0 THEN DefaultLimit
               ELSE IF q.limit > MaxLimit THEN MaxLimit ELSE q.limit

Following(q) == {i \in items : i > q.page_cursor}

\* The first PageSize items after the cursor.
PageData(q) ==
    {i \in Following(q) :
        Cardinality({j \in Following(q) : j < i}) < PageSize(q)}

\* null on the last page, which decodes to "".
NextPage(q) ==
    IF PageData(q) = Following(q) THEN 0
    ELSE CHOOSE i \in PageData(q) : \A j \in PageData(q) : j <= i

-----------------------------------------------------------------------------
(* The loop. *)

StartReading(r) ==
    /\ reading[r] = "idle"
    /\ reading' = [reading EXCEPT ![r] = "looping"]
    /\ stayed' = [stayed EXCEPT ![r] = items]
    /\ UNCHANGED <<cursor, seen>>

\* Mutant: a page shorter than asked for is taken for the last.
LastWhenShort(r, q) ==
    Cardinality(PageData(q)) < (IF q.limit = 0 THEN DefaultLimit ELSE q.limit)

IsLastPage(r, q) == NextPage(q) = 0

ReadPage(r) ==
    LET q == ListOptionsToQuery(Limit[r], cursor[r])
    IN  /\ reading[r] = "looping"
        /\ seen' = [seen EXCEPT ![r] = [i \in Items |->
               IF i \in PageData(q) /\ @[i] < 2 THEN @[i] + 1 ELSE @[i]]]
        /\ reading' = [reading EXCEPT ![r] =
               IF IsLastPage(r, q) THEN "complete" ELSE @]
        /\ cursor' = [cursor EXCEPT ![r] =
               IF IsLastPage(r, q) THEN @ ELSE NextPage(q)]
        /\ UNCHANGED stayed

\* A List that fails ends the loop, with what it has read so far discarded.
ReadFails(r) ==
    /\ reading[r] = "looping"
    /\ reading' = [reading EXCEPT ![r] = "failed"]
    /\ UNCHANGED <<cursor, seen, stayed>>

PageStep(r) == StartReading(r) \/ ReadPage(r) \/ ReadFails(r)

\* For the steps that change the collection.
NoteChanges == stayed' = [r \in Readers |-> stayed[r] \cap items']

-----------------------------------------------------------------------------
(* Properties. *)

PageTypeOK ==
    /\ items \subseteq Items
    /\ reading \in [Readers -> {"idle", "looping", "complete", "failed"}]
    /\ cursor \in [Readers -> Items \cup {0}]
    /\ seen \in [Readers -> [Items -> 0..2]]
    /\ stayed \in [Readers -> SUBSET Items]

(* Whatever is added and removed between two pages, a loop is handed no item
   twice, and by its end it has been handed every item that was there all the
   while (pagination.go:15-33). *)
SeenOnce ==
    \A r \in Readers :
        /\ \A i \in Items : seen[r][i] <= 1
        /\ reading[r] = "complete" => \A i \in stayed[r] : seen[r][i] = 1

(* A loop that keeps being answered comes to an end, however the collection
   changes under it. *)
LoopEnds ==
    \A r \in Readers :
        reading[r] = "looping" ~> reading[r] \in {"complete", "failed"}

=============================================================================
