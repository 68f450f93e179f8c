------------------------------ MODULE Pipeline ------------------------------
(***************************************************************************)
(* The query engine (apexkit-core/src/query/processor.rs and               *)
(* connections/queries.rs): one SELECT with grouping, order and limit, and *)
(* then the steps of a pipeline on its rows.                               *)
(*                                                                         *)
(* A cell is a number, a text (with the number that CAST makes of it) or   *)
(* null; a row maps names to cells.  Sorting is by id, newest first, as    *)
(* without a sort.                                                         *)
(***************************************************************************)
EXTENDS Naturals, Sequences, FiniteSets, SequencesExt, FiniteSetsExt

CONSTANTS
    Default,    \* the limit of a query without one (100)
    Cap         \* the largest limit (10000)

VARIABLES
    table,      \* [id -> row], the records of the collection
    query,      \* [group, func, limit, offset]
    pipeline    \* its steps

vars == <<table, query, pipeline>>

Number(n) == [type |-> "number", value |-> n]
Text(s, n) == [type |-> "text", text |-> s, value |-> n]
Null == [type |-> "null", value |-> 0]

AsNumber(x) == IF x.type = "number" THEN x.value ELSE 0
AsText(x) == IF x.type = "text" THEN x.text ELSE "unknown"
Cell(row, name) == IF name \in DOMAIN row THEN row[name] ELSE Null

-----------------------------------------------------------------------------
(* SQL.                                                                    *)

\* Limits are cut to the cap.
Limit(q) == LET l == IF q.limit = 0 THEN Default ELSE q.limit IN IF l <= Cap THEN l ELSE Cap

Clip(rows, q) ==
    LET last == q.offset + Limit(q)
    IN  SubSeq(rows, q.offset + 1, IF last <= Len(rows) THEN last ELSE Len(rows))

\* A record's column: `data ->> field', or the id itself.
Column(i, field) == IF field = "id" THEN Number(i) ELSE Cell(table[i], field)

\* SUM(CAST(... AS REAL)) and COUNT(...) pass over nulls.
Total(ids, field) ==
    LET present == {i \in ids : Column(i, field) # Null}
    IN  Number(MapThenSumSet(LAMBDA i : Column(i, field).value, present))
Aggregate(func, ids, field) ==
    LET present == {i \in ids : Column(i, field) # Null}
    IN  IF func = "count" THEN Number(Cardinality(present))
        ELSE IF present = {} THEN Null ELSE Total(ids, field)

Groups(field) == {{i \in DOMAIN table : Column(i, field) = Column(j, field)} : j \in DOMAIN table}

\* A group sorted by id is placed by the id of one of its rows, SQLite's choice;
\* here of the newest, and no property depends on it.
Newest(S) == CHOOSE i \in S : \A j \in S : j <= i
Plain(i) == [key |-> Column(i, "key"), value |-> Column(i, "value")]
Grouped(q, ids) ==
    [key |-> Column(Newest(ids), "key"), value |-> Aggregate(q.func, ids, "value")]

\* The result of the statement.
Rows(q) ==
    LET newest(S) == SetToSortSeq(S, LAMBDA a, b : a > b)
        byGroup == SetToSortSeq(Groups("key"), LAMBDA S, T : Newest(S) > Newest(T))
        ids == newest(DOMAIN table)
    IN  Clip(IF q.group THEN [n \in DOMAIN byGroup |-> Grouped(q, byGroup[n])]
             ELSE [n \in DOMAIN ids |-> Plain(ids[n])], q)

-----------------------------------------------------------------------------
(* The pipeline.                                                           *)

Cumulative(rows, field, output) ==
    LET sum[n \in 0..Len(rows)] == IF n = 0 THEN 0 ELSE sum[n - 1] + AsNumber(Cell(rows[n], field))
    IN  [n \in DOMAIN rows |->
            [name \in DOMAIN rows[n] \cup {output} |-> IF name = output THEN Number(sum[n]) ELSE rows[n][name]]]

\* Mutant: the first row of a key is inserted without being added.
MutPivoted(rows, agg, ns) ==
    Number(IF agg = "sum" THEN MapThenSumSet(LAMBDA n : AsNumber(Cell(rows[n], "value")), ns \ {Min(ns)})
           ELSE Cardinality(ns))
Pivoted(rows, agg, ns) ==
    Number(IF agg = "sum" THEN MapThenSumSet(LAMBDA n : AsNumber(Cell(rows[n], "value")), ns) ELSE Cardinality(ns))

\* One row that maps every key to the aggregate of its rows; an agg that is
\* neither "sum" nor "count" gives a row without keys.
Pivot(rows, agg) ==
    LET keys == IF agg \in {"sum", "count"} THEN {AsText(Cell(rows[n], "key")) : n \in DOMAIN rows} ELSE {}
    IN  << [k \in keys |-> Pivoted(rows, agg, {n \in DOMAIN rows : AsText(Cell(rows[n], "key")) = k})] >>

Step(rows, step) ==
    CASE step.op = "cumulative" -> Cumulative(rows, step.field, step.output)
      [] step.op = "pivot" -> Pivot(rows, step.agg)
      [] step.op = "map" -> rows

Process(rows, steps) == FoldLeft(Step, rows, steps)

Answer == Process(Rows(query), pipeline)

-----------------------------------------------------------------------------
(* Properties.                                                             *)

\* Keys are texts and values numbers, in every record.
Typed == \A i \in DOMAIN table : table[i].key.type = "text" /\ table[i].value.type = "number"
Whole(q) == q.offset = 0 /\ Cardinality(DOMAIN table) <= Limit(q)

\* PivotIsGroupBy: a pivot of the plain rows is the statement with GROUP BY, read
\* as a map, as long as the limit leaves out no record.
PivotIsGroupBy ==
    \A agg \in {"sum", "count"} :
        Typed /\ Whole(query) =>
            LET grouped == Rows([query EXCEPT !.group = TRUE, !.func = agg])
                pivot == Pivot(Rows([query EXCEPT !.group = FALSE]), agg)[1]
            IN  /\ DOMAIN pivot = {grouped[n].key.text : n \in DOMAIN grouped}
                /\ \A n \in DOMAIN grouped : pivot[grouped[n].key.text] = grouped[n].value

\* RunningTotal: a running total ends with what SUM makes of the column, and the
\* step leaves the other cells of every row as the statement gave them.
RunningTotal ==
    LET rows == Rows([query EXCEPT !.group = FALSE])
        totals == Cumulative(rows, "value", "sum")
    IN  /\ Len(totals) = Len(rows)
        /\ \A n \in DOMAIN rows : totals[n].key = rows[n].key /\ totals[n].value = rows[n].value
        /\ Typed /\ Whole(query) /\ rows # << >> =>
              totals[Len(rows)].sum = Total(DOMAIN table, "value")

\* Bounded: no query has more rows than the cap, whatever its pipeline.
Bounded == Len(Answer) <= Cap
=============================================================================
