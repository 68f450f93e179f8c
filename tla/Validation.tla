----------------------------- MODULE Validation -----------------------------
(***************************************************************************)
(* What a record has to be (apexkit-core/src/validation.rs) and the ways   *)
(* into the table: the REST handler fills in what is missing and validates *)
(* before it asks the store, the GraphQL resolver only fills in, an update *)
(* merges into the stored row, an import is not validated.  The store      *)
(* sanitizes and validates once more (connections/records.rs).             *)
(*                                                                         *)
(* A value is its JSON type with what the rules look at: its number, its   *)
(* length, the id that it parses to and the formats and patterns it fits.  *)
(***************************************************************************)
EXTENDS Naturals, FiniteSets

CONSTANTS
    Fields,     \* [name -> [type, required, auto, default, limits]]
    Relations,  \* [name -> [required]]
    Inputs,     \* the data of creations and imports
    Patches,    \* the data of updates
    MaxCalls,   \* bound on the updates
    None

VARIABLES
    row,        \* the stored data, None before the record is created
    checked,    \* the row was validated when it was written
    event,      \* what the last creation broadcast
    last,       \* [names, errors] of the last update
    calls

vars == <<row, checked, event, last, calls>>

Value(json, content, number, len, id, fits) ==
    [json |-> json, content |-> content, number |-> number, len |-> len, id |-> id, fits |-> fits]
Null == Value("null", "", 0, 0, None, {})
\* "", which is blank like every text of spaces only.
Empty == Value("string", "", 0, 0, None, {"blank"})
Number(n) == Value("number", "", n, 0, None, {})
String(text, len, id, fits) == Value("string", text, 0, len, id, fits)

Names == DOMAIN Fields \cup DOMAIN Relations
Keys == {f \in DOMAIN Fields : Fields[f].type \in {"owner", "relation"}}

Blank(x) == x.json = "string" /\ "blank" \in x.fits
With(data, name, x) == [n \in DOMAIN data \cup {name} |-> IF n = name THEN x ELSE data[n]]
Only(data, names) == [n \in DOMAIN data \cap names |-> data[n]]

-----------------------------------------------------------------------------
(* Sanitizing.                                                             *)

\* Mutant: a field that the schema does not know stays.
MutStripped(data) == data
Stripped(data) == Only(data, Names)

\* A text of digits becomes the id it denotes.
Coerced(x) == IF x.json = "string" /\ x.id # None THEN Number(x.id) ELSE x

\* Blank texts become null where a text has no meaning; a relation that is not
\* one of the fields keeps them.
SanitizedValue(name, x) ==
    CASE name \in Keys -> IF Blank(Coerced(x)) THEN Null ELSE Coerced(x)
      [] name \in DOMAIN Fields /\ Fields[name].type \in {"number", "date"} -> IF Blank(x) THEN Null ELSE x
      [] name \in DOMAIN Relations -> Coerced(x)
      [] OTHER -> x

Sanitized(data) ==
    LET known == Stripped(data) IN [n \in DOMAIN known |-> SanitizedValue(n, known[n])]

-----------------------------------------------------------------------------
(* Validating.                                                             *)

TypeFits(x, type) ==
    CASE type = "text" -> x.json = "string"
      [] type \in {"owner", "relation", "number"} -> x.json = "number"
      [] type = "boolean" -> x.json = "boolean"
      [] type = "json" -> x.json \in {"object", "array"}
      [] type = "vector" -> x.json = "array" /\ "numbers" \in x.fits
      [] type = "geo" -> x.json = "object" /\ "geo" \in x.fits
      [] OTHER -> x.json = "string" /\ type \in x.fits

\* min, max, min_length, max_length and the pattern, each where it applies.
WithinLimits(x, limits) ==
    /\ x.json = "number" => x.number \in limits.range
    /\ x.json \in {"string", "array"} => x.len \in limits.lengths
    /\ x.json = "string" /\ limits.pattern # None => limits.pattern \in x.fits

FieldError(name, data) ==
    LET def == Fields[name]
    IN  IF name \notin DOMAIN data \/ data[name] = Null THEN def.required
        ELSE ~(TypeFits(data[name], def.type) /\ WithinLimits(data[name], def.limits))

RelationError(name, data) ==
    IF name \notin DOMAIN data \/ data[name] = Null THEN Relations[name].required
    ELSE data[name].json \notin {"number", "string"}

Errors(data) ==
    {n \in DOMAIN Fields : FieldError(n, data)} \cup {n \in DOMAIN Relations : RelationError(n, data)}

-----------------------------------------------------------------------------
(* Filling in.                                                             *)

\* What goes into a field that is missing: the caller, the time or the default.
Filling(name, user, key) ==
    LET def == Fields[name]
    IN CASE def.type = "owner" /\ def.auto -> IF user = None THEN None ELSE key
         [] def.type = "date" /\ def.auto -> String("now", 3, None, {"date"})
         [] OTHER -> def.default

Filled(data, gone, user, key) ==
    LET filled == {n \in gone : Filling(n, user, key) # None}
    IN  [n \in (DOMAIN data \ gone) \cup filled |-> IF n \in filled THEN Filling(n, user, key) ELSE data[n]]

\* REST: a null and an empty text are missing as well; ids become numbers.
InjectAuto(data, user) ==
    LET keyed == [n \in DOMAIN data |-> IF n \in Keys THEN Coerced(data[n]) ELSE data[n]]
        gone == {n \in DOMAIN Fields : n \notin DOMAIN data \/ data[n] \in {Null, Empty}}
    IN  Filled(keyed, gone, user, Number(user))

\* GraphQL: the id of the caller is stored as a text, for the store to coerce.
PrepareData(data, user) ==
    Filled(data, DOMAIN Fields \ DOMAIN data, user, String("id", 1, user, {}))

-----------------------------------------------------------------------------
(* The calls.                                                              *)

\* The data that the handler passes to the store.
Passed(entry, data, user) == IF entry = "rest" THEN InjectAuto(data, user) ELSE PrepareData(data, user)
Accepted(entry, data, user) ==
    LET passed == Passed(entry, data, user)
    IN  /\ entry = "rest" => Errors(passed) = {}
        /\ Errors(Sanitized(passed)) = {}

Create(entry, data, user) ==
    /\ row = None
    /\ Accepted(entry, data, user)
    /\ row' = Sanitized(Passed(entry, data, user))
    /\ event' = Passed(entry, data, user)
    /\ checked' = TRUE
    /\ UNCHANGED <<last, calls>>

\* Without validation, and without sanitizing.
Import(data) ==
    /\ row = None
    /\ row' = data /\ checked' = FALSE
    /\ UNCHANGED <<event, last, calls>>

Merged(data) == [n \in DOMAIN row \cup DOMAIN data |-> IF n \in DOMAIN data THEN data[n] ELSE row[n]]

Update(data) ==
    /\ row # None /\ calls < MaxCalls
    /\ LET errors == Errors(Sanitized(Merged(data)))
       IN  /\ last' = [names |-> DOMAIN data, errors |-> errors]
           /\ row' = IF errors = {} THEN Sanitized(Merged(data)) ELSE row
           /\ checked' = (checked \/ errors = {})
    /\ calls' = calls + 1 /\ UNCHANGED event

Init ==
    /\ row = None /\ checked = FALSE /\ event = None
    /\ last = [names |-> {}, errors |-> {}] /\ calls = 0

Next ==
    \/ \E data \in Inputs : Import(data)
    \/ \E data \in Inputs, entry \in {"rest", "graphql"}, user \in {None, 7} : Create(entry, data, user)
    \/ \E data \in Patches : Update(data)

-----------------------------------------------------------------------------
(* Properties.                                                             *)

\* StoredConforms: a row that was validated obeys every rule as it stands, and
\* sanitizing it again would not change it.
StoredConforms == checked => Errors(row) = {} /\ Sanitized(row) = row

\* BlamesItsOwn: an update is refused for the fields it sends, not for what is
\* stored already, unless that came from an import.
BlamesItsOwn == checked => last.errors \subseteq last.names

\* EventExplained: the row of a creation is what its event shows, but for the
\* unknown fields and the ids that the store sanitizes away.
EventExplained ==
    event # None /\ calls = 0 =>
        /\ DOMAIN row = DOMAIN event \cap Names
        /\ \A n \in DOMAIN row :
              row[n] \in {event[n], Coerced(event[n])} \cup (IF Blank(event[n]) THEN {Null} ELSE {})

HasValues(data) == \A n \in DOMAIN data : data[n] # Null /\ ~Blank(data[n])

\* EntriesAlike: a creation whose fields have values stores the same row through
\* REST and through GraphQL, and is accepted by both or by none.
EntriesAlike(data, user) ==
    HasValues(data) =>
        /\ Accepted("rest", data, user) <=> Accepted("graphql", data, user)
        /\ Accepted("rest", data, user) =>
              Sanitized(Passed("rest", data, user)) = Sanitized(Passed("graphql", data, user))
=============================================================================
