------------------------------- MODULE GraphQL -------------------------------
(***************************************************************************)
(* The root's GraphQL schema: how build_schema makes it from the           *)
(* collections, the policy of the users and the scripts, and how the       *)
(* reloads that follow a change replace it under the lock that the         *)
(* requests hold while they are executed.                                  *)
(***************************************************************************)
EXTENDS Integers, Sequences, FiniteSets, SequencesExt

CONSTANTS
    Catalogues, \* what the collections may be: sets of collections
    TypeOf,     \* capitalize: the name of a collection |-> that of its type
    Policies,   \* values of policy_users
    ScriptSets, \* what the active GraphQL scripts may be
    Clients,    \* requests executed at a time
    Reloads,    \* bound on the reloads at a time
    MaxChanges  \* bound on the changes

ASSUME InputsAssumption == {} \in ScriptSets /\ MaxChanges \in Nat

\* A collection: its name, its fields, those of type Owner that are filled in
\* automatically, and its relations: a name |-> the collection it points to.
Collections == UNION Catalogues

VARIABLES
    db,         \* the collections, the policy and the scripts of the database
    changes,    \* number of changes so far
    schema,     \* what the schema in force was built from
    reload,     \* the reloads
    executing,  \* the requests that hold the read lock
    up,         \* the server runs
    overtaken,  \* a reload replaced the schema of a later one, and none of all changes has since
    failed      \* the inputs of the last reload that built nothing

vars == <<db, changes, schema, reload, executing, up, overtaken, failed>>

----------------------------------------------------------------------------
(* The builder.  A field is put on an object under a name that the tracker *)
(* of that object has not handed out yet: <<name, 0>>, or <<name, k>> for  *)
(* the k-th name that collided.                                            *)

\* Names are tuples of the words they are put together from.
Entry(object, tracked, name) == [object |-> object, tracked |-> tracked, name |-> name]
On(object, names) == [i \in DOMAIN names |-> Entry(object, object, names[i])]
Words(strings) == SetToSeq({<<s>> : s \in strings})
Type(c) == <<TypeOf[c.name]>>

\* Mutant: the name as it is.
MutUniqueName(tracker, tracked, name) == <<name, 0>>
UniqueName(tracker, tracked, name) ==
    <<name, Cardinality({t \in tracker : t[1] = tracked /\ t[2][1] = name})>>

Unnamed == [tracker |-> {}, fields |-> {}, panic |-> FALSE]
AddField(built, e) ==
    LET name == UniqueName(built.tracker, e.tracked, e.name)
    IN [tracker |-> built.tracker \cup {<<e.tracked, name>>},
        fields  |-> built.fields \cup {<<e.object, name>>},
        panic   |-> built.panic \/ <<e.object, name>> \in built.fields]

\* The owner fields that lead from a user to the records.
UserReverse(cols) == {<<c.name, f>> : c \in cols, f \in UNION {d.owners : d \in cols}}
                        \cap UNION {{<<c.name, f>> : f \in c.owners} : c \in cols}
\* The relations of other collections that lead to a collection.
ReverseRelations(cols, c) ==
    UNION {{<<o.name, r>> : r \in {n \in DOMAIN o.relations : o.relations[n] = c.name}} : o \in cols}
\* The name of the origin, with the field when the origin has two that lead here.
ReverseNames(reverse) ==
    LET key(p) == IF \E q \in reverse : q # p /\ q[1] = p[1] THEN p ELSE <<p[1]>>
    IN SetToSeq({[of |-> p, key |-> key(p)] : p \in reverse})
ReverseKeys(reverse) == [i \in DOMAIN ReverseNames(reverse) |-> ReverseNames(reverse)[i].key]

UserFields(cols) == On(<<"_AuthUser">>, <<<<"id">>, <<"email">>, <<"role">>>> \o ReverseKeys(UserReverse(cols)))
UserListFields == On(<<"_AuthUserList">>, <<<<"total">>, <<"items">>>>)

OwnFields(c) == <<<<"id">>>> \o Words(c.fields \ {"id"})
RelationFields(c) == Words(DOMAIN c.relations)
ReverseFields(cols, c) == ReverseKeys(ReverseRelations(cols, c))
ObjectFields(cols, c) == On(Type(c), OwnFields(c) \o RelationFields(c) \o ReverseFields(cols, c))
ListFields(c) == On(Type(c) \o <<"List">>, <<<<"total">>, <<"items">>>>)
UsersField == <<"_users">>
CollectionQueries(cols) == Words({c.name : c \in cols})
QueryFields(cols) == On(<<"Query">>, <<<<"_status">>, UsersField>> \o CollectionQueries(cols))
CreateField(c) == Entry(<<"Mutation">>, <<"Mutation">>, <<"create">> \o Type(c))
UpdateField(c) == Entry(<<"Mutation">>, <<"Mutation">>, <<"update">> \o Type(c))
DeleteField(c) == Entry(<<"Mutation">>, <<"Mutation">>, <<"delete">> \o Type(c))
MutationFields(cols) ==
    On(<<"Mutation">>, <<<<"_ping">>>>)
        \o FlattenSeq(SetToSeq({<<CreateField(c), UpdateField(c), DeleteField(c)>> : c \in cols}))

\* The names in an input type are not tracked.
InputNames(c) == [create |-> SetToSeq((c.fields \ {"id"}) \ c.owners) \o SetToSeq(DOMAIN c.relations),
                  update |-> SetToSeq(c.fields \ {"id"}) \o SetToSeq(DOMAIN c.relations)]
InputClash(c) == \E kind \in {"create", "update"} :
    ~IsInjective(InputNames(c)[kind])

\* A script's field goes on the object of its parent; "User" is _AuthUser, but
\* has a tracker of its own, and an unknown parent is skipped.
ParentObject(parent) == IF parent = "User" THEN <<"_AuthUser">> ELSE <<parent>>
TypesOf(cols) == {<<"Query">>, <<"Mutation">>, <<"_AuthUser">>, <<"_AuthUserList">>, <<"JSON">>}
                    \cup {Type(c) : c \in cols}
ScriptFields(cols, scripts) ==
    LET known == {s \in scripts : ParentObject(s.parent) \in TypesOf(cols) \ {<<"_AuthUserList">>, <<"JSON">>}}
    IN SetToSeq({Entry(ParentObject(s.parent), <<s.parent>>, <<s.name>>) : s \in known})

AllFields(input) ==
    UserFields(input.cols) \o UserListFields \o QueryFields(input.cols)
        \o FlattenSeq(SetToSeq({ObjectFields(input.cols, c) \o ListFields(c) : c \in input.cols}))
        \o MutationFields(input.cols) \o ScriptFields(input.cols, input.scripts)

Panics(input) ==
    \/ \E c \in input.cols : InputClash(c)
    \/ FoldLeft(AddField, Unnamed, AllFields(input)).panic

\* finish() refuses a field whose type is not registered.
Dangling(input) ==
    \/ \E c \in input.cols, n \in UNION {DOMAIN d.relations : d \in input.cols} :
          n \in DOMAIN c.relations /\ <<TypeOf[c.relations[n]]>> \notin TypesOf(input.cols)
    \/ \E s \in input.scripts : <<s.returns>> \notin TypesOf(input.cols)

Buildable == {<<input.cols, input.scripts>> :
    input \in {i \in [cols : Catalogues, scripts : ScriptSets] : ~Panics(i) /\ ~Dangling(i)}}
Builds(input) == <<input.cols, input.scripts>> \in Buildable

----------------------------------------------------------------------------
Idle == [at |-> "idle"]

\* A schema, or what one is built from: the inputs, and when they were read.
From(input, seen) ==
    [cols |-> input.cols, users |-> input.users, scripts |-> input.scripts, seen |-> seen]

Init ==
    /\ db \in [cols : Catalogues, users : Policies, scripts : {{}}]
    /\ Builds(db)
    /\ changes = 0 /\ schema = From(db, 0)
    /\ reload = [r \in Reloads |-> Idle]
    /\ executing = {} /\ up = TRUE /\ overtaken = FALSE /\ failed = {}

\* trigger_scope_reload, spawned by the handler after its write.
Spawned == \E r \in Reloads :
    /\ reload[r] = Idle
    /\ \A q \in Reloads : reload[q] = Idle => r <= q
    /\ reload' = [reload EXCEPT ![r] = [at |-> "collections"]]

Changed(new) ==
    /\ up /\ changes < MaxChanges /\ new # db
    /\ db' = new /\ changes' = changes + 1
    /\ UNCHANGED <<schema, executing, up, overtaken, failed>>

\* create_collection, update_collection and delete_collection.
ChangeCollections == \E cols \in Catalogues : Changed([db EXCEPT !.cols = cols]) /\ Spawned
\* Mutant: the key is not among those that reload.
MutReloading == UNCHANGED reload
\* set_config and delete_config of a key that starts with policy_.
Reloading == Spawned
SetPolicy == \E p \in Policies : Changed([db EXCEPT !.users = p]) /\ Reloading
\* The handlers of the scripts do not reload; an admin does, by hand.
SetScripts == \E s \in ScriptSets :
    /\ up /\ db' = [db EXCEPT !.scripts = s]
    /\ UNCHANGED <<changes, schema, reload, executing, up, overtaken, failed>>
ReloadSystem ==
    /\ up /\ Spawned
    /\ \A r \in Reloads : reload[r] = Idle
    /\ schema.scripts # db.scripts
    /\ UNCHANGED <<db, changes, schema, executing, up, overtaken, failed>>

\* build_schema: three reads, and the rest.
ReadCollections(r) ==
    /\ reload[r].at = "collections"
    /\ reload' = [reload EXCEPT ![r] = [at |-> "policy", cols |-> db.cols, seen |-> changes]]
    /\ UNCHANGED <<db, changes, schema, executing, up, overtaken, failed>>
ReadPolicy(r) ==
    /\ reload[r].at = "policy"
    /\ reload' = [reload EXCEPT ![r] =
          [at |-> "scripts", cols |-> @.cols, users |-> db.users, seen |-> @.seen]]
    /\ UNCHANGED <<db, changes, schema, executing, up, overtaken, failed>>
ReadScripts(r) ==
    /\ reload[r].at = "scripts"
    /\ LET built == [cols |-> reload[r].cols, users |-> reload[r].users,
                     scripts |-> db.scripts, seen |-> reload[r].seen]
       IN IF Builds(built)
          THEN /\ reload' = [reload EXCEPT ![r] = [at |-> "write", built |-> built]]
               /\ UNCHANGED failed
          ELSE /\ reload' = [reload EXCEPT ![r] = Idle]
               /\ failed' = {built}
    /\ UNCHANGED <<db, changes, schema, executing, up, overtaken>>
Swap(r) ==
    /\ reload[r].at = "write" /\ executing = {}
    /\ schema' = reload[r].built
    /\ overtaken' = (reload[r].built.seen # changes
                        /\ (overtaken \/ reload[r].built.seen < schema.seen))
    /\ reload' = [reload EXCEPT ![r] = Idle]
    /\ failed' = IF reload[r].built.seen = changes THEN {} ELSE failed
    /\ UNCHANGED <<db, changes, executing, up>>

\* Mutant: a reader passes the writers that wait.
MutCanRead == TRUE
\* graphql_handler: the read lock, behind the writers that wait for it, is held
\* until the resolvers and their scripts have answered or timed out.
CanRead == \A r \in Reloads : reload[r].at # "write"
BeginRequest(c) ==
    /\ up /\ c \notin executing /\ CanRead
    /\ executing' = executing \cup {c}
    /\ UNCHANGED <<db, changes, schema, reload, up, overtaken, failed>>
EndRequest(c) ==
    /\ c \in executing
    /\ executing' = executing \ {c}
    /\ UNCHANGED <<db, changes, schema, reload, up, overtaken, failed>>

\* A start builds the schema and expects that it can.
Restart ==
    /\ up
    /\ reload' = [r \in Reloads |-> Idle] /\ executing' = {}
    /\ up' = Builds(db)
    /\ schema' = IF Builds(db) THEN From(db, changes) ELSE schema
    /\ overtaken' = FALSE /\ failed' = IF Builds(db) THEN {} ELSE {db}
    /\ UNCHANGED <<db, changes>>

Reload(r) == ReadCollections(r) \/ ReadPolicy(r) \/ ReadScripts(r)
Next ==
    \/ ChangeCollections \/ SetPolicy \/ SetScripts \/ ReloadSystem
    \/ \E r \in Reloads : Reload(r) \/ Swap(r)
    \/ \E c \in Clients : BeginRequest(c) \/ EndRequest(c)
    \/ Restart

Spec == Init /\ [][Next]_vars

\* The spawned tasks are polled; the resolvers of a request time out.
FairSpec ==
    /\ Spec
    /\ \A r \in Reloads : WF_vars(Reload(r)) /\ WF_vars(Swap(r))
    /\ \A c \in Clients : WF_vars(EndRequest(c))

----------------------------------------------------------------------------
Inputs == [cols : Catalogues, users : Policies, scripts : ScriptSets]
TypeOK ==
    /\ db \in Inputs /\ changes \in 0..MaxChanges
    /\ [cols |-> schema.cols, users |-> schema.users, scripts |-> schema.scripts] \in Inputs
    /\ schema.seen \in 0..changes
    /\ \A r \in Reloads : reload[r].at \in {"idle", "collections", "policy", "scripts", "write"}
    /\ executing \subseteq Clients
    /\ {up, overtaken} \subseteq BOOLEAN
    /\ \A input \in failed : input.cols \in Catalogues /\ ~Builds(input)

\* When no reload is under way the schema has the present collections and the
\* present policy, but for a reload that was overtaken by an earlier one and
\* for one that could not be built.
SchemaCurrent ==
    up /\ ~overtaken /\ failed = {} /\ (\A r \in Reloads : reload[r] = Idle)
        => schema.cols = db.cols /\ schema.users = db.users

\* A reload fails for three reasons only: a relation or a script names a type
\* that does not exist, a collection has a field and a relation of the same
\* name, or a script puts a field that is there already on "User".  Fields of
\* one object that collide are renamed.
FailureExplained ==
    \A input \in failed :
        \/ Dangling(input)
        \/ \E c \in input.cols : c.fields \cap DOMAIN c.relations # {}
        \/ \E s \in input.scripts : s.parent = "User"

\* The server can be started again (lib.rs expects the schema to build).
Startable == up

\* ReloadEnds: a reload ends, however many requests come: those that come after
\* a writer has asked for the lock wait behind it.
Underway(r) == reload[r].at # "idle"
ReloadEnds == \A r \in Reloads : Underway(r) ~> ~Underway(r)

----------------------------------------------------------------------------
(* The inductive invariant.                                                *)

Schemas == [cols : Catalogues, users : Policies, scripts : ScriptSets, seen : Nat]
Stages ==
    {Idle, [at |-> "collections"]}
        \cup [at : {"policy"}, cols : Catalogues, seen : Nat]
        \cup [at : {"scripts"}, cols : Catalogues, users : Policies, seen : Nat]
        \cup [at : {"write"}, built : Schemas]

\* What was read after the last change is what there is.
Fresh(stage) ==
    /\ stage.at = "policy" =>
          stage.seen =< changes /\ (stage.seen = changes => stage.cols = db.cols)
    /\ stage.at = "scripts" =>
          /\ stage.seen =< changes
          /\ stage.seen = changes => stage.cols = db.cols /\ stage.users = db.users
    /\ stage.at = "write" =>
          /\ stage.built.seen =< changes
          /\ stage.built.seen = changes => stage.built.cols = db.cols /\ stage.built.users = db.users

\* A reload that has read, or will read, after the last change.
Newest(stage) ==
    \/ stage.at = "collections"
    \/ stage.at \in {"policy", "scripts"} /\ stage.seen = changes
    \/ stage.at = "write" /\ stage.built.seen = changes

\* SchemaInv: the schema has the present collections and policy, or a reload
\* that knows them is on its way.
SchemaInv ==
    /\ TypeOK /\ schema \in Schemas /\ reload \in [Reloads -> Stages]
    /\ schema.seen = changes => schema.cols = db.cols /\ schema.users = db.users
    /\ \A r \in Reloads : Fresh(reload[r])
    /\ up /\ ~overtaken /\ failed = {} =>
          schema.seen = changes \/ \E r \in Reloads : Newest(reload[r])
=============================================================================
