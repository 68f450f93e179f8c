---------------------------- MODULE SchemaChanges ----------------------------
(***************************************************************************)
(* Changing the schema of a collection that has records                    *)
(* (connections/collections.rs, utils.rs, the handlers of collections and  *)
(* of the imports).  A field has a name and a uid that stays when it is    *)
(* renamed.  update_collection writes the schema and then moves the values *)
(* of the records, one statement per renamed or removed field, each with   *)
(* its own commit, while other requests read the schema and write records. *)
(***************************************************************************)
EXTENDS Naturals, FiniteSets, TLC

CONSTANTS
    Names, Uids,
    Links,      \* the uids that are relations
    Indexed,    \* the uids that are sql_indexed
    Admins, Writers,
    Records,    \* ids
    Absent,
    MaxChanges  \* bound on the changes and the imports

ConstantsAssumption ==
    /\ Links \subseteq Uids /\ Indexed \subseteq Uids
    /\ Absent \notin Uids /\ MaxChanges \in Nat

\* A schema: the uid of each name, Absent for a name that is no field.
Schemas == {s \in [Names -> Uids \cup {Absent}] :
                \A m, n \in Names : s[m] = s[n] /\ m # n => s[m] = Absent}
UidsOf(s) == {s[n] : n \in Names} \ {Absent}
NameIn(s, u) == CHOOSE n \in Names : s[n] = u

VARIABLES
    exists,     \* the row of the collection
    schema,
    rows,       \* the ids of the records, and
    data,       \* the values of each record: the uid that each was written for
    links,      \* the names under which each record has rows in _relations
    indexes,    \* the SQL indexes: pairs of the uid in the name and the path
    admin,      \* what each admin's call is doing
    writer,     \* what each creation is doing
    lastId, changes,
    \* history, read by the properties only
    given,      \* the uids each record was given a value for
    moved,      \* uids renamed to a name that was another field's, or back
    broken,     \* a change failed half-way, or met another one
    raced,      \* records that were written while a change was under way
    dropped     \* indexed uids that were renamed

vars == <<exists, schema, rows, data, links, indexes, admin, writer, lastId, changes,
          given, moved, broken, raced, dropped>>
history == <<given, moved, broken, raced, dropped>>

Idle == [at |-> "idle"]
At(a, step) == admin[a].at = step
NoRecord == [n \in Names |-> Absent]

\* A record that holds a value for each field.
Filled(s) == s
LinkNames(s) == {n \in Names : s[n] \in Links}

Init ==
    /\ exists = TRUE
    /\ schema \in {s \in Schemas : Cardinality(UidsOf(s)) = 2}
    /\ rows = {1} /\ lastId = 1
    /\ data = [r \in Records |-> IF r = 1 THEN Filled(schema) ELSE NoRecord]
    /\ links = [r \in Records |-> IF r = 1 THEN LinkNames(schema) ELSE {}]
    /\ indexes = {<<schema[n], n>> : n \in {m \in Names : schema[m] \in Indexed}}
    /\ admin = [a \in Admins |-> Idle]
    /\ writer = [w \in Writers |-> Idle]
    /\ changes = 0
    /\ given = [r \in Records |-> IF r = 1 THEN UidsOf(schema) ELSE {}]
    /\ moved = {} /\ broken = FALSE /\ raced = {} /\ dropped = {}

----------------------------------------------------------------------------
(* update_collection *)

\* The old and the new name of each field that keeps its uid and not its name.
Renames(old, new) ==
    {[op |-> "rename", uid |-> u, from |-> NameIn(old, u), to |-> NameIn(new, u)] :
        u \in {v \in UidsOf(old) \cap UidsOf(new) : NameIn(old, v) # NameIn(new, v)}}
\* Mutant: fields are told apart by their names.
MutRemovals(old, new) ==
    {[op |-> "remove", uid |-> old[n], from |-> n, to |-> n] :
        n \in {m \in Names : old[m] # Absent /\ new[m] = Absent}}
Removals(old, new) ==
    {[op |-> "remove", uid |-> u, from |-> NameIn(old, u), to |-> NameIn(old, u)] :
        u \in UidsOf(old) \ UidsOf(new)}
\* Four passes, each over a HashMap: the renames of the fields, those of the
\* relations, the removals of the fields and those of the relations.
Pass(o) == (IF o.op = "rename" THEN 0 ELSE 2) + (IF o.uid \in Links THEN 1 ELSE 0)
Firsts(todo) == {o \in todo : \A p \in todo : Pass(o) <= Pass(p)}

\* Names that a rename takes while another field of the old schema has them.
Crossed(old, new) ==
    {o.uid : o \in {p \in Renames(old, new) : old[p.to] # Absent}}
        \cup {old[o.to] : o \in {p \in Renames(old, new) : old[p.to] # Absent}}

Busy == \E a \in Admins : ~At(a, "idle")
Change(a, new) ==
    /\ changes < MaxChanges /\ changes' = changes + 1
    /\ admin' = [admin EXCEPT ![a] = [at |-> "read", new |-> new]]
    /\ broken' = (broken \/ Busy)

\* PATCH: the admin sends the whole schema.
Update(a) ==
    /\ At(a, "idle") /\ exists
    /\ \E new \in Schemas : Change(a, new)
    /\ UNCHANGED <<exists, schema, rows, data, links, indexes, writer, lastId, given, moved, raced, dropped>>

\* import_data_handler adds the fields that the schema it read lacks.
Merged(s, n, u) == IF s[n] = Absent THEN [s EXCEPT ![n] = u] ELSE s
Import(a) ==
    /\ At(a, "idle") /\ exists
    /\ \E n \in Names, u \in Uids \ UidsOf(schema) :
          Merged(schema, n, u) # schema /\ Change(a, Merged(schema, n, u))
    /\ UNCHANGED <<exists, schema, rows, data, links, indexes, writer, lastId, given, moved, raced, dropped>>

\* get_collection, then the UPDATE of the schema.
ReadOld(a) ==
    /\ At(a, "read")
    /\ admin' = [admin EXCEPT ![a] = IF exists THEN [at |-> "schema", new |-> @.new, old |-> schema]
                                     ELSE Idle]
    /\ UNCHANGED <<exists, schema, rows, data, links, indexes, writer, lastId, changes, history>>
WriteSchema(a) ==
    LET k == admin[a] IN
    /\ At(a, "schema")
    /\ schema' = IF exists THEN k.new ELSE schema
    /\ admin' = [admin EXCEPT ![a] = [at |-> "migrate", new |-> k.new, old |-> k.old,
                     todo |-> Renames(k.old, k.new) \cup Removals(k.old, k.new)]]
    /\ moved' = moved \cup Crossed(k.old, k.new)
    /\ given' = [r \in Records |-> given[r] \cap UidsOf(k.new)]
    /\ raced' = raced \cup {writer[w].id : w \in {x \in Writers : writer[x] # Idle}}
    /\ dropped' = dropped \cup {o.uid : o \in {p \in Renames(k.old, k.new) : p.uid \in Indexed}}
    /\ UNCHANGED <<exists, rows, data, links, indexes, writer, lastId, changes, broken>>

\* json_set of the new name and json_remove of the old one, where there is one.
Renamed(d, from, to) ==
    IF d[from] = Absent THEN d ELSE [d EXCEPT ![to] = d[from], ![from] = Absent]
\* Mutant: the old name stays.
MutMigrated(d, o) ==
    IF o.op = "rename" THEN (IF d[o.from] = Absent THEN d ELSE [d EXCEPT ![o.to] = d[o.from]])
    ELSE [d EXCEPT ![o.from] = Absent]
Migrated(d, o) ==
    IF o.op = "rename" THEN Renamed(d, o.from, o.to) ELSE [d EXCEPT ![o.from] = Absent]

MigrateField(a) == \E o \in Firsts(admin[a].todo) :
    /\ data' = [r \in Records |-> Migrated(data[r], o)]
    /\ admin' = [admin EXCEPT ![a] = IF o.uid \in Links
                     THEN [@ EXCEPT !.at = "links"] @@ [op |-> o]
                     ELSE [@ EXCEPT !.todo = @ \ {o}]]
    /\ UNCHANGED <<exists, schema, rows, links, indexes, writer, lastId, changes, history>>

\* The second statement for a relation, on _relations.
MovedLink(names, o) ==
    IF o.from \notin names THEN names
    ELSE (names \ {o.from}) \cup (IF o.op = "rename" THEN {o.to} ELSE {})
MigrateLinks(a) ==
    LET o == admin[a].op IN
    /\ At(a, "links")
    /\ links' = [r \in Records |-> MovedLink(links[r], o)]
    /\ admin' = [admin EXCEPT ![a] = [at |-> "migrate", new |-> @.new, old |-> @.old, todo |-> @.todo \ {o}]]
    /\ UNCHANGED <<exists, schema, rows, data, indexes, writer, lastId, changes, history>>

\* reconcile_sql_indexes: CREATE INDEX IF NOT EXISTS for the indexed names that
\* were not indexed, then DROP INDEX for those that are not any more.  An
\* index has the uid in its name and the field's name in its path.
IndexedNames(s) == {n \in Names : s[n] \in Indexed}
Created(old, new) ==
    {<<new[n], n>> : n \in {m \in IndexedNames(new) \ IndexedNames(old) :
                                ~ \E p \in Names : <<new[m], p>> \in indexes}}
\* Mutant: the index of a field that stays is dropped, too.
MutDropped(old, new) == {old[n] : n \in IndexedNames(old)}
Dropped(old, new) == {old[n] : n \in IndexedNames(old) \ IndexedNames(new)}
Reconcile(a) ==
    LET k == admin[a] IN
    /\ At(a, "migrate") /\ k.todo = {}
    /\ indexes' = {i \in indexes \cup Created(k.old, k.new) : i[1] \notin Dropped(k.old, k.new)}
    /\ admin' = [admin EXCEPT ![a] = Idle]
    /\ UNCHANGED <<exists, schema, rows, data, links, writer, lastId, changes, history>>

\* A statement fails: the call returns, what is done stays done.
Fail(a) ==
    /\ admin[a].at \in {"schema", "migrate", "links"}
    /\ admin' = [admin EXCEPT ![a] = Idle]
    /\ broken' = TRUE
    /\ UNCHANGED <<exists, schema, rows, data, links, indexes, writer, lastId, changes, given, moved, raced, dropped>>

Migrate(a) == At(a, "migrate") /\ MigrateField(a)

----------------------------------------------------------------------------
(* delete_collection: the records, the relations from and to them, the row *)

DeleteCollection(a) ==
    /\ At(a, "idle") /\ exists /\ changes < MaxChanges
    /\ changes' = changes + 1
    /\ admin' = [admin EXCEPT ![a] = [at |-> "records"]]
    /\ broken' = (broken \/ Busy)
    /\ UNCHANGED <<exists, schema, rows, data, links, indexes, writer, lastId, given, moved, raced, dropped>>
DeleteRecords(a) ==
    /\ At(a, "records")
    /\ rows' = {}
    /\ data' = [r \in Records |-> NoRecord]
    /\ given' = [r \in Records |-> {}]
    /\ admin' = [admin EXCEPT ![a] = [at |-> "relations"]]
    /\ raced' = raced \cup {writer[w].id : w \in {x \in Writers : writer[x] # Idle}}
    /\ UNCHANGED <<exists, schema, links, indexes, writer, lastId, changes, moved, broken, dropped>>
DeleteRelations(a) ==
    /\ At(a, "relations")
    /\ links' = [r \in Records |-> {}]
    /\ admin' = [admin EXCEPT ![a] = [at |-> "row"]]
    /\ UNCHANGED <<exists, schema, rows, data, indexes, writer, lastId, changes, history>>
DeleteRow(a) ==
    /\ At(a, "row")
    /\ exists' = FALSE
    /\ admin' = [admin EXCEPT ![a] = Idle]
    /\ UNCHANGED <<schema, rows, data, links, indexes, writer, lastId, changes, history>>

----------------------------------------------------------------------------
(* _write_record_internal: the schema is read, the values of other fields  *)
(* are stripped, the row and then the links are inserted.                  *)

Create(w) ==
    /\ writer[w] = Idle /\ exists /\ lastId + 1 \in Records
    /\ lastId' = lastId + 1
    /\ writer' = [writer EXCEPT ![w] = [at |-> "row", id |-> lastId + 1, schema |-> schema]]
    /\ raced' = IF Busy THEN raced \cup {lastId + 1} ELSE raced
    /\ UNCHANGED <<exists, schema, rows, data, links, indexes, admin, changes, given, moved, broken, dropped>>
InsertRow(w) ==
    LET k == writer[w] IN
    /\ k.at = "row"
    /\ rows' = rows \cup {k.id}
    /\ data' = [data EXCEPT ![k.id] = Filled(k.schema)]
    /\ given' = [given EXCEPT ![k.id] = UidsOf(k.schema)]
    /\ writer' = [writer EXCEPT ![w].at = "links"]
    /\ UNCHANGED <<exists, schema, links, indexes, admin, lastId, changes, moved, broken, raced, dropped>>
InsertLinks(w) ==
    LET k == writer[w] IN
    /\ k.at = "links"
    /\ links' = [links EXCEPT ![k.id] = LinkNames(k.schema)]
    /\ writer' = [writer EXCEPT ![w] = Idle]
    /\ UNCHANGED <<exists, schema, rows, data, indexes, admin, lastId, changes, history>>

Next ==
    \/ \E a \in Admins :
          \/ Update(a) \/ Import(a) \/ ReadOld(a) \/ WriteSchema(a)
          \/ Migrate(a) \/ MigrateLinks(a) \/ Reconcile(a) \/ Fail(a)
          \/ DeleteCollection(a) \/ DeleteRecords(a) \/ DeleteRelations(a) \/ DeleteRow(a)
    \/ \E w \in Writers : Create(w) \/ InsertRow(w) \/ InsertLinks(w)

Spec == Init /\ [][Next]_vars

----------------------------------------------------------------------------
TypeOK ==
    /\ exists \in BOOLEAN /\ schema \in Schemas
    /\ data \in [Records -> [Names -> Uids \cup {Absent}]]
    /\ links \in [Records -> SUBSET Names]
    /\ indexes \subseteq Indexed \X Names
    /\ rows \subseteq 1..lastId /\ changes \in 0..MaxChanges

Quiet == ~Busy /\ ~broken
Settled(r) == r \notin raced /\ \A w \in Writers : writer[w] # Idle => writer[w].id # r

\* After a change, however many fields it renames or removes, each record has
\* the values of its fields under their present names and no others, unless
\* the change failed half-way, met another change or a writer of the record,
\* or gave a field a name that another field of the old schema had.
ValuesFollow ==
    Quiet /\ exists => \A r \in Records : Settled(r) =>
        \A n \in Names : schema[n] \notin moved =>
            data[r][n] = IF schema[n] \in given[r] THEN schema[n] ELSE Absent

\* The rows of _relations of a record have the names of its relations.
LinksFollow ==
    Quiet /\ exists => \A r \in Records : Settled(r) =>
        {n \in links[r] : schema[n] \notin moved} =
            {n \in Names : data[r][n] \in Links /\ schema[n] \notin moved}

\* An indexed field has its SQL index, unless it was renamed: then the index
\* of the old name is dropped after the new one was found to exist.
IndexesCover ==
    Quiet /\ exists => \A n \in Names :
        schema[n] \in Indexed /\ schema[n] \notin dropped => <<schema[n], n>> \in indexes

\* A deleted collection leaves no record behind, unless a writer was under way.
NoOrphans ==
    ~exists /\ Quiet => \A r \in Records : Settled(r) => r \notin rows /\ links[r] = {}
=============================================================================
