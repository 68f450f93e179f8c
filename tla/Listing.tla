------------------------------ MODULE Listing -------------------------------
(***************************************************************************)
(* Pages of a list: SqlBuilder::new (apexkit-core/src/query/builder.rs)    *)
(* and list_records (connections/records.rs).  A client reads one page     *)
(* after the other while records are created, changed and deleted; every   *)
(* page counts the rows and selects its window in two statements, outside  *)
(* a transaction.                                                          *)
(*                                                                         *)
(* A record is its id; the collection, the policy and the filter of the    *)
(* query decide which of them are selected, and an update may change that. *)
(***************************************************************************)
EXTENDS Naturals, Sequences, FiniteSets

CONSTANTS
    MaxId,      \* bound on the ids
    Start,      \* the ids in the table at first
    Asked,      \* values of per_page, and of limit
    Cap         \* the largest per_page (100 in the code)

Ids == 1..MaxId

ConstantsAssumption == Start \subseteq Ids /\ Asked \subseteq Nat \ {0} /\ Cap \in Nat \ {0}

VARIABLES
    rows,       \* ids in the table
    selected,   \* those of them that the WHERE clause admits
    lastId,     \* the highest id ever
    sort,       \* ORDER BY records.id: "asc", or "desc" as without a sort
    by,         \* the client gives a page and per_page, or limit and offset
    asked,      \* per_page or limit of the client
    turn,       \* pages read
    step,       \* "count", "select" or "over"
    total,      \* of the page being read
    seen,       \* the items of all pages
    left, came  \* ids that left the selection, and came into it, since the first page

vars == <<rows, selected, lastId, sort, by, asked, turn, step, total, seen, left, came>>

Init ==
    /\ rows = Start /\ selected \in SUBSET Start
    /\ lastId = Cardinality(Start)
    /\ sort \in {"asc", "desc"} /\ by \in {"page", "offset"} /\ asked \in Asked
    /\ turn = 0 /\ step = "count" /\ total = 0
    /\ seen = << >> /\ left = {} /\ came = {}

-----------------------------------------------------------------------------
(* The query.                                                              *)

\* a comes before b in the order of the list.
Before(a, b) == IF sort = "asc" THEN a < b ELSE a > b

\* The selected rows in their order.
Ordered == [n \in 1..Cardinality(selected) |->
              CHOOSE i \in selected : Cardinality({j \in selected : Before(j, i)}) = n - 1]

\* limit and offset are taken as they are, per_page is cut to the cap.
Limit == IF by = "offset" \/ asked <= Cap THEN asked ELSE Cap

\* Mutant: the first page is page 0.
MutOffset(page) == page * Limit
Offset(page) == (page - 1) * Limit

Window(page) ==
    LET last == Offset(page) + Limit
    IN  SubSeq(Ordered, Offset(page) + 1, IF last <= Len(Ordered) THEN last ELSE Len(Ordered))

\* SELECT COUNT(*) with the same WHERE clause.
Count ==
    /\ step = "count"
    /\ total' = Cardinality(selected) /\ step' = "select"
    /\ UNCHANGED <<rows, selected, lastId, sort, by, asked, turn, seen, left, came>>

\* The client goes on while it has not asked for as many as there are.
Select ==
    /\ step = "select"
    /\ turn' = turn + 1
    /\ seen' = seen \o Window(turn + 1)
    /\ step' = IF turn' * Limit >= total THEN "over" ELSE "count"
    /\ UNCHANGED <<rows, selected, lastId, sort, by, asked, total, left, came>>

-----------------------------------------------------------------------------
(* Meanwhile.                                                              *)

Create ==
    /\ lastId < MaxId /\ step # "over"
    /\ lastId' = lastId + 1 /\ rows' = rows \cup {lastId'}
    /\ \E hit \in BOOLEAN :
         /\ selected' = IF hit THEN selected \cup {lastId'} ELSE selected
         /\ came' = IF hit THEN came \cup {lastId'} ELSE came
    /\ UNCHANGED <<sort, by, asked, turn, step, total, seen, left>>

Update(i) ==
    /\ i \in rows /\ step # "over" /\ i \notin left \cup came
    /\ IF i \in selected
         THEN selected' = selected \ {i} /\ left' = left \cup {i} /\ UNCHANGED came
         ELSE selected' = selected \cup {i} /\ came' = came \cup {i} /\ UNCHANGED left
    /\ UNCHANGED <<rows, lastId, sort, by, asked, turn, step, total, seen>>

Delete(i) ==
    /\ i \in rows /\ step # "over"
    /\ rows' = rows \ {i} /\ selected' = selected \ {i}
    /\ left' = IF i \in selected THEN left \cup {i} ELSE left
    /\ UNCHANGED <<lastId, sort, by, asked, turn, step, total, seen, came>>

Next == Count \/ Select \/ Create \/ \E i \in Ids : Update(i) \/ Delete(i)

Spec == Init /\ [][Next]_vars

-----------------------------------------------------------------------------
TypeOK ==
    /\ selected \subseteq rows /\ rows \subseteq Ids /\ lastId \in 0..MaxId
    /\ total \in 0..MaxId /\ step \in {"count", "select", "over"}

Listed(i) == {n \in DOMAIN seen : seen[n] = i}
Steady == selected \ came

\* NothingSkipped: when the client has read all pages, it has had every record
\* that was there all the time, unless one before it left the list meanwhile or
\* the count was taken before others came.
NothingSkipped ==
    step = "over" => \A i \in Steady :
        \/ Listed(i) # {}
        \/ \E j \in left : Before(j, i)
        \/ \E j \in came : Before(j, i)

\* OnceEach: no record comes twice, unless it or one before it came into the list
\* meanwhile; creations alone repeat nothing in an ascending list.
OnceEach ==
    \A i \in Ids : Cardinality(Listed(i)) > 1 => i \in came \/ \E j \in came : Before(j, i)
=============================================================================
