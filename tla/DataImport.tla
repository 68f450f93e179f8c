----------------------------- MODULE DataImport -----------------------------
(***************************************************************************)
(* A file of records that an admin imports (apexkit-api/src/api/migration/ *)
(* import/data.rs): how its texts are read, which schema is inferred from  *)
(* its first rows, which rows are stored and under which ids.  That rows   *)
(* are sent to the write queue five hundred at a time, and that a schema is*)
(* merged while others change it, are the matter of WriteManager and of    *)
(* SchemaChanges.                                                          *)
(*                                                                         *)
(* A row is a sequence of <<header, value>>.  Of a text the model knows    *)
(* what it looks like; a number or a text of digits has its number n.      *)
(***************************************************************************)
EXTENDS Naturals, FiniteSetsExt, SequencesExt

CONSTANTS
    KeyOf,      \* the field name that sanitize_key makes of each header
    Scan,       \* the rows that infer_schema looks at, 100 in the code
    None

VARIABLES
    format,     \* "csv" or "json"
    file,       \* its rows
    existing    \* types of the fields of the collection, when there is one

Null == [type |-> "null", looks |-> "", n |-> None]
Number(n) == [type |-> "number", looks |-> "whole", n |-> n]
Float(n) == [type |-> "number", looks |-> "float", n |-> n]
Boolean == [type |-> "boolean", looks |-> "", n |-> None]
Json == [type |-> "json", looks |-> "", n |-> None]
Text(looks, n) == [type |-> "string", looks |-> looks, n |-> n]
Word == Text("word", None)
Blank == Text("blank", None)

-----------------------------------------------------------------------------
(* Reading.                                                                *)

\* parse_csv: a number becomes a float whatever it looked like.
CsvValue(text) ==
    CASE text.looks = "blank" -> Null
      [] text.looks = "digits" -> Float(text.n)
      [] text.looks = "boolean" -> Boolean
      [] text.looks = "json" -> Json
      [] OTHER -> text

\* Of two headers with one name the later wins; a csv drops its nulls first.
Named(cells) ==
    [k \in {KeyOf[cells[i][1]] : i \in DOMAIN cells} |->
        cells[Max({i \in DOMAIN cells : KeyOf[cells[i][1]] = k})][2]]

ReadCsv(row) ==
    Named(SelectSeq([i \in DOMAIN row |-> <<row[i][1], CsvValue(row[i][2])>>], LAMBDA c : c[2] # Null))

Read(form, rows) == [i \in DOMAIN rows |-> IF form = "csv" THEN ReadCsv(rows[i]) ELSE Named(rows[i])]

-----------------------------------------------------------------------------
(* The schema.                                                             *)

\* Mutant: a column of texts and objects stays a column of texts.
MutUpgraded(old, new) == IF old = "number" /\ new = "string" THEN new ELSE old

\* The type of a column after another value of it.
Upgraded(old, new) ==
    IF old = None \/ new = "json" \/ (old = "number" /\ new = "string") THEN new ELSE old

Columns(rows) == UNION {DOMAIN rows[i] : i \in DOMAIN rows} \ {"id"}
ValuesOf(rows, k) ==
    LET with == SelectSeq(rows, LAMBDA row : k \in DOMAIN row /\ row[k] # Null)
    IN  [i \in DOMAIN with |-> with[i][k]]
TypeOf(rows, k) == FoldLeft(LAMBDA type, x : Upgraded(type, x.type), None, ValuesOf(rows, k))

Inferred(rows) ==
    LET first == SubSeq(rows, 1, Min({Scan, Len(rows)}))
        known == {k \in Columns(first) : ValuesOf(first, k) # << >>}
    IN  [k \in known |-> TypeOf(first, k)]

\* A field that the collection has already is left as it is.
Schema(rows) ==
    LET inferred == Inferred(rows)
    IN  [k \in DOMAIN existing \cup DOMAIN inferred |->
            IF k \in DOMAIN existing THEN existing[k] ELSE inferred[k]]

-----------------------------------------------------------------------------
(* The rows.                                                               *)

\* The id of the row, if it is a whole number or a text of digits (as_i64).
ExplicitId(row) ==
    IF "id" \in DOMAIN row /\ row["id"].looks \in {"whole", "digits"} THEN row["id"].n ELSE None

\* The store drops what has the name of a column of its own.
Reserved == {"created", "updated", "expand"}
DataOf(row) == [k \in DOMAIN row \ ({"id"} \cup Reserved) |-> row[k]]

\* A row with an id goes in as it is, another is sanitized and validated.
Cleaned(row, schema) ==
    [k \in DOMAIN row \cap DOMAIN schema |->
        IF schema[k] = "number" /\ row[k] = Blank THEN Null ELSE row[k]]
Fits(data, schema) == \A k \in DOMAIN data : data[k] = Null \/ data[k].type = schema[k]

Refused == [stored |-> FALSE, id |-> None, data |-> << >>]
Stored(id, data) == [stored |-> TRUE, id |-> id, data |-> data]
Import(row, schema) ==
    LET id == ExplicitId(row)  data == DataOf(row)
    IN  IF id # None THEN Stored(id, data)
        ELSE IF Fits(Cleaned(data, schema), schema) THEN Stored(None, Cleaned(data, schema))
        ELSE Refused

Imported(form, rows) ==
    LET read == Read(form, rows) IN [i \in DOMAIN read |-> Import(read[i], Schema(read))]

-----------------------------------------------------------------------------
(* Properties.                                                             *)

\* Columns of one type, which agree with the collection and begin within the
\* rows that are looked at.
Uniform(rows, k) ==
    LET types == {x.type : x \in ToSet(ValuesOf(rows, k))}
    IN  /\ Cardinality(types) <= 1
        /\ k \in DOMAIN existing => types \subseteq {existing[k]}
        /\ types # {} => k \in DOMAIN Schema(rows)

\* A file whose columns each have one type is imported as it was read: no row is
\* refused and no value is dropped but those under a reserved name (infer_schema, import_data_handler).
UniformKept ==
    LET read == Read(format, file)
        imported == Imported(format, file)
        holds(x, data, k) == x = Null \/ (k \in DOMAIN data /\ data[k] = x)
    IN  (\A k \in Columns(read) : Uniform(read, k)) =>
            \A i \in DOMAIN read :
                /\ imported[i].stored
                /\ \A k \in DOMAIN DataOf(read[i]) : holds(read[i][k], imported[i].data, k)

\* The type that is inferred does not depend on the order of the rows, unless a
\* column mixes booleans with numbers or texts (infer_schema).
OrderFree ==
    LET read == Read(format, file)
    IN  Len(read) <= Scan =>
            \A k \in DOMAIN Inferred(read) :
                LET types == {x.type : x \in ToSet(ValuesOf(read, k))}
                IN  "json" \in types \/ "boolean" \notin types \/ types = {"boolean"}
                        => Inferred(Reverse(read))[k] = Inferred(read)[k]

\* How a JSON value is written into a csv.
Written(x) ==
    CASE x.type = "null" -> Blank
      [] x.type = "number" -> Text("digits", x.n)
      [] x.type \in {"boolean", "json"} -> Text(x.type, None)
      [] OTHER -> x

\* Two texts of one number are the same value to a schema.
Same(x, y) == x.type = y.type /\ x.n = y.n

\* The csv and the JSON form of one table give the same schema and store and refuse
\* the same rows, if no row has an id and no text looks like something else
\* (parse_csv, parse_json_array).
FormatsAlike ==
    LET plain == \A i \in DOMAIN file : \A j \in DOMAIN file[i] :
                     /\ KeyOf[file[i][j][1]] # "id" /\ file[i][j][2] # Null
                     /\ file[i][j][2].type = "string" => file[i][j][2] = Word
        csv == [i \in DOMAIN file |-> [j \in DOMAIN file[i] |-> <<file[i][j][1], Written(file[i][j][2])>>]]
    IN  format = "json" /\ plain =>
            /\ Inferred(Read("csv", csv)) = Inferred(Read("json", file))
            /\ \A i \in DOMAIN file :
                 LET a == Imported("json", file)[i]  b == Imported("csv", csv)[i]
                 IN  /\ a.stored = b.stored
                     /\ DOMAIN a.data = DOMAIN b.data
                     /\ \A k \in DOMAIN a.data : Same(a.data[k], b.data[k])
=============================================================================
