----------------------------- MODULE MCServices -----------------------------
(***************************************************************************)
(* The services of one scope, checked by TLC in one run: a behaviour is    *)
(* one of one component, which `part' names for good.  Its variables are   *)
(* x1, x2, ... in the order of their declaration, and those it does not    *)
(* need stay at None.  Where a component is an algorithm without steps, a  *)
(* state is one of its inputs and has no successor but itself.             *)
(***************************************************************************)
EXTENDS Naturals, Sequences, SequencesExt, TLC

CONSTANTS p, q, r, v, w, None, Absent

VARIABLES part, x1, x2, x3, x4, x5, x6, x7, x8, x9, x10, x11, x12, x13, x14, x15

mcVars == <<part, x1, x2, x3, x4, x5, x6, x7, x8, x9, x10, x11, x12, x13, x14, x15>>

\* Two clients or files that nothing tells apart.
Interchangeable == Permutations({p, q})

-----------------------------------------------------------------------------
(* Instances: who writes.                                                  *)

\* The write queue when SQLite rolls a whole transaction back on its own, or
\* leaves it open after a failed COMMIT: three statements and a bulk insert.
Sizes == [req \in {p, q, r, "bulk"} |-> IF req = "bulk" THEN 2 ELSE 1]
W == INSTANCE WriteManager WITH
        Reqs <- DOMAIN Sizes, Rows <- Sizes, ChanCap <- 2, MaxBatch <- 2,
        Faults <- {"stmt", "abort", "commit", "open", "crash"},
        status <- x1, arrivals <- x2, queue <- x3, open <- x4, phase <- x5, buffer <- x6,
        pending <- x7, inTx <- x8, changes <- x9, db <- x10, events <- x11, base <- x12

\* Two handlers at a time, two users, two records.
H == INSTANCE RecordHandlers WITH
        Clients <- {p, q}, Users <- {"u", "w"}, HookText <- r, NoRow <- None,
        MaxRecords <- 2, MaxCalls <- 2,
        rows <- x1, call <- x2, calls <- x3, version <- x4, view <- x5, stray <- x6,
        job <- x7, missed <- x8, wrote <- x9, lost <- x10

\* Two creators, one of which deletes too, two rebuilds, and a restart.
X == INSTANCE SearchIndex WITH
        Clients <- {"c", "d"}, Rebuilders <- {p, q}, Deletes <- {"c"}, MaxId <- 3, Stored <- 2,
        MaxBoots <- 2, Base <- 2, Faults <- {"sql", "crash"},
        rows <- x1, lastId <- x2, boots <- x3, call <- x4, count <- x5, jobs <- x6, rebuild <- x7,
        handle <- x8, docs <- x9, missed <- x10, ghosts <- x11

\* One record whose text changes twice, three jobs and two permits.
V == INSTANCE Vectors WITH
        MaxIds <- 1, MaxText <- 3, MaxJobs <- 3, Permits <- 2, MaxLoads <- 2,
        text <- x1, changes <- x2, queue <- x3, jobs <- x4, bulk <- x5, table <- x6,
        points <- x7, loads <- x8, hydrated <- x9, deleting <- x10, excused <- x11,
        straddled <- x12

\* One upload of two chunks with faults, and two uploads that share the quota.
U1 == INSTANCE Uploads WITH
        Clients <- {p, q}, Uploads <- {"u"}, Size <- 2, Quota <- 2, MaxRows <- 2, MaxFaults <- 1,
        opened <- x1, info <- x2, part <- x3, stored <- x4, rows <- x5, call <- x6,
        faults <- x7, crowded <- x8, raced <- x9, broken <- x10
U2 == INSTANCE Uploads WITH
        Clients <- {p, q}, Uploads <- {"u", "v"}, Size <- 1, Quota <- 1, MaxRows <- 1, MaxFaults <- 0,
        opened <- x1, info <- x2, part <- x3, stored <- x4, rows <- x5, call <- x6,
        faults <- x7, crowded <- x8, raced <- x9, broken <- x10

\* Two files of a single node, and one file of a master and its replica.
F1 == INSTANCE FileStorage WITH
        Nodes <- {"master"}, Scopes <- {"root", "t"}, Names <- {p, q}, Page <- 1, MaxSwitch <- 1,
        s3 <- x1, cached <- x2, files <- x3, rows <- x4, scope <- x5, jobs <- x6, home <- x7,
        told <- x8, copied <- x9, migration <- x10, switches <- x11
F2 == INSTANCE FileStorage WITH
        Nodes <- {"master", "replica"}, Scopes <- {"root", "t"}, Names <- {p}, Page <- 1,
        MaxSwitch <- 1,
        s3 <- x1, cached <- x2, files <- x3, rows <- x4, scope <- x5, jobs <- x6, home <- x7,
        told <- x8, copied <- x9, migration <- x10, switches <- x11

\* Two requests at a time; the identity's address is that of a local user.
A == INSTANCE Accounts WITH
        Clients <- {p, q}, Emails <- {"e", "f"}, Identities <- {"gh"},
        EmailOf <- [gh |-> "e"], Keys <- {"k", "l"}, MaxUsers <- 2, MaxTokens <- 1, MaxCalls <- 5,
        users <- x1, nextId <- x2, links <- x3, tokens <- x4, nextToken <- x5, open <- x6,
        call <- x7, calls <- x8, greeted <- x9, first <- x10, moved <- x11, used <- x12,
        sent <- x13, raced <- x14

\* Three fields and one admin; two fields, two admins and two changes.
S1 == INSTANCE SchemaChanges WITH
        Names <- {"a", "b", "c"}, Uids <- {"u", "v", "w"}, Links <- {"v"}, Indexed <- {"u"},
        Admins <- {"i"}, Writers <- {"j"}, Records <- {1, 2}, MaxChanges <- 1,
        exists <- x1, schema <- x2, rows <- x3, data <- x4, links <- x5, indexes <- x6,
        admin <- x7, writer <- x8, lastId <- x9, changes <- x10, given <- x11, moved <- x12,
        broken <- x13, raced <- x14, dropped <- x15
S2 == INSTANCE SchemaChanges WITH
        Names <- {"a", "b"}, Uids <- {"u", "v"}, Links <- {"v"}, Indexed <- {"u"},
        Admins <- {p, q}, Writers <- {"j"}, Records <- {1, 2}, MaxChanges <- 2,
        exists <- x1, schema <- x2, rows <- x3, data <- x4, links <- x5, indexes <- x6,
        admin <- x7, writer <- x8, lastId <- x9, changes <- x10, given <- x11, moved <- x12,
        broken <- x13, raced <- x14, dropped <- x15

\* Three calls of the record store, one after the other, on a record that
\* refers to another: everything that can be asked.
Data(value, ref) == [val |-> value, ref |-> ref]
Related == [i \in 1..4 |-> CASE i = 1 -> Data(v, 0) [] i = 2 -> Data(w, 1) [] OTHER -> None]
Anything ==
    [c \in {p, q, r} |->
        [kind : {"create"}, data : [val : {v, w, None}, ref : {0, 1, 2}]]
        \cup [kind : {"update"}, id : {1, 2}, field : {"val"}, to : {v, w, None}]
        \cup [kind : {"import"}, id : {2, 4}, data : [val : {v, w}, ref : {0, 1}]]
        \cup [kind : {"update"}, id : {1, 2, 3}, field : {"ref"}, to : {0, 1, 2, 3}]
        \cup [kind : {"delete"}, id : {1, 2}]]

R == INSTANCE RecordStore WITH
        Calls <- {p, q, r}, Requests <- Anything, Vals <- {v, w}, MaxId <- 4,
        LastId <- 2, Initial <- Related, MaxActive <- 1, Faulty <- FALSE,
        records <- x1, uniq <- x2, links <- x3, lastId <- x4, call <- x5

-----------------------------------------------------------------------------
(* Filters and policies.                                                   *)

\* Written forms in the order in which they compare; "a" occurs in "ab".
Forms == <<"0", "1", "7", "a", "ab", "editor", "false", "null", "true">>
Order == [form \in ToSet(Forms) |-> CHOOSE n \in DOMAIN Forms : Forms[n] = form]
Within == {<<form, form>> : form \in ToSet(Forms)} \cup {<<"a", "ab">>}
Rules == INSTANCE Policies WITH
            Rank <- Order, Parts <- Within, Nonzero <- {"1", "7"},
            Found <- [type |-> "array", items |-> <<[type |-> "number", text |-> "7"]>>]

Num(form) == Rules!Scalar("number", form)
Txt(form) == Rules!Scalar("text", form)
True == Rules!Scalar("boolean", "true")
Scalars == {Num("0"), Num("1"), Txt("1"), Txt("a"), Txt("ab"), Txt("true"), True, Rules!Null}
Lists == {Rules!Array(items) : items \in {<< >>} \cup [1..1 -> Scalars] \cup [1..2 -> Scalars]}

Conditions ==
    {Rules!Condition("f", op, x) : op \in Rules!Ops \ {"in", "nin"}, x \in Scalars}
    \cup {Rules!Condition("f", op, x) : op \in {"in", "nin"}, x \in Lists \cup {Txt("a")}}
Few == {Rules!Condition("f", op, x) : op \in {"eq", "neq", "gt", "contains"}, x \in {Num("1"), Txt("a"), True}}
Groups == {Rules!Group(op, cs) : op \in {"and", "or"}, cs \in {<< >>} \cup [1..2 -> Few \cup {Rules!Empty}]}
Nested == {Rules!Group(op, <<c, g>>) : op \in {"and", "or"}, c \in {Rules!Condition("f", "eq", Txt("a"))}, g \in Groups}

\* A filter and the field of a record.
FilterInit == x1 \in Conditions \cup Groups \cup Nested /\ x2 \in Scalars \cup {Rules!Missing}

User(id, role) == [id |-> id, role |-> role, email |-> "e"]
People == {Rules!Nobody, User("7", "editor"), User("1", "user"), User("9", "admin")}
Owned == {Num("7"), Num("1"), Txt("7"), Txt("a"), Txt("editor"), True, Rules!Null, Rules!Missing}

Operands == {Rules!Auth("id"), Rules!Auth("role"), Rules!FieldOf("f"), Rules!Quoted("a"), Rules!Quoted("editor"),
             Rules!Bare("true"), Rules!Bare("f"), Rules!Bare("7")}
Simple == {<<Rules!Keyword(name)>> : name \in {"public", "auth", "admin"}} \cup {<<Rules!OwnerOf("f")>>}
          \cup {<<a, Rules!Mark(mark), b>> : a \in Operands, mark \in {"==", "!="}, b \in Operands}

Same(a, b) == Rules!Binary("==", Rules!Leaf(a), Rules!Leaf(b))
Other(a, b) == Rules!Binary("!=", Rules!Leaf(a), Rules!Leaf(b))
Joined(S, T) == {Rules!Binary(mark, a, b) : mark \in {"&&", "||"}, a \in S, b \in T}
Deep(S) == Joined(S, S) \cup Joined(Joined(S, S), S) \cup Joined(S, Joined(S, S))
Tests == {Rules!Leaf(Rules!Keyword("auth")), Same(Rules!FieldOf("f"), Rules!Quoted("a")),
          Other(Rules!Auth("id"), Rules!FieldOf("f")), Same(Rules!Auth("role"), Rules!Quoted("editor"))}
Marks == LET two == {Rules!Keyword("auth"), Rules!FieldOf("f")}
         IN {Rules!Leaf(t) : t \in two} \cup {Same(a, b) : a \in two, b \in two} \cup {Other(a, b) : a \in two, b \in two}

Entry(key, x) == Rules!Object(<< <<key, x>> >>)
Entries ==
    {<<"f", x>> : x \in {Txt(text) : text \in {"a", "@request.auth.id", "@request.auth.role", "@record.f"}}
                        \cup {Num("7"), Entry("neq", Txt("a")),
                              Entry("in", Rules!Array(<<Txt("a"), Txt("@request.auth.role")>>)),
                              Entry("in", Entry("@get()", Rules!Null))}}
    \cup {<<"@request.auth.role", x>> :
            x \in {Txt("editor"), Entry("neq", Txt("user")), Entry("in", Rules!Array(<<Txt("user")>>))}}
    \cup {<<"@request.record.f", Txt("a")>>}
Lone == {Rules!Object(<<e>>) : e \in Entries}
Filters == Lone \cup {Rules!Object(<<d, e>>) : d \in Entries, e \in Entries}
           \cup {Entry(key, Rules!Array(<<a, b>>)) : key \in {"and", "or"}, a \in Lone, b \in Lone}

\* A policy, a user and the field of a record.
PolicyInit ==
    /\ x1 \in {Rules!Words(ts) : ts \in Simple \cup {Rules!Tokens(t, 1) : t \in Deep(Tests)} \cup {<<Rules!Mark("(")>>}}
              \cup {Rules!Json(j) : j \in Filters} \cup {Rules!EmptyPolicy}
    /\ x2 \in People /\ x3 \in Owned

\* An expression.
ParserInit == x1 \in Marks \cup Deep(Marks)

RecordOf(x) == IF x = Rules!Missing THEN << >> ELSE [f |-> x]

-----------------------------------------------------------------------------
(* Pages: three records at first, four ids.                                *)

Pages == INSTANCE Listing WITH
            MaxId <- 4, Start <- {1, 2, 3}, Asked <- {1, 3}, Cap <- 2,
            rows <- x1, selected <- x2, lastId <- x3, sort <- x4, by <- x5, asked <- x6,
            turn <- x7, step <- x8, total <- x9, seen <- x10, left <- x11, came <- x12

-----------------------------------------------------------------------------
(* Expansion: a post with its topic, comments that refer to posts twice.   *)

Relation(target, many) == [target |-> target, many |-> many]
NoFields == << >>
Schemas ==
    [posts |-> [owners |-> {"owner"}, relations |-> [topic |-> Relation("topics", TRUE)]],
     topics |-> [owners |-> {}, relations |-> NoFields],
     comments |-> [owners |-> {"user"}, relations |-> [post |-> Relation("posts", TRUE),
                                                       about |-> Relation("posts", FALSE)]]]
Tree == INSTANCE Expand WITH
    Users <- {1, 2},
    rows <- x1, links <- x2, via <- x3, request <- x4, readable <- x5

Post(owner, topic) == [col |-> "posts", owner |-> [owner |-> owner], refs |-> [topic |-> topic]]
Comment(user, post, about) ==
    [col |-> "comments", owner |-> [user |-> user], refs |-> [post |-> post, about |-> about]]

To(name) == Tree!Part(name)
Requests ==
    {{}, {<<To("topic")>>}, {<<To("owner")>>, <<To("comments"), To("user")>>},
     {<<Tree!Paged("comments", 1, 1), To("user")>>, <<To("owner")>>},
     {<<To("comments"), To("post"), To("owner")>>, <<To("comments"), To("user")>>, <<To("topic")>>},
     {<<To("post"), To("comments"), To("user")>>, <<To("user")>>},
     {<<To("posts"), To("owner")>>}, {<<To("nowhere"), To("owner")>>},
     {<<To("topics")>>, <<To("comments"), To("about"), To("topic")>>}}

\* The links follow the data in either order, are missing, or have one more.
TreeInit ==
    /\ \E owner \in {None, 1, 3}, topic \in {None, 2, 9}, a \in {1, 5}, b \in {None, 1}, user \in {1, 3} :
         x1 = <<Post(owner, topic), [col |-> "topics", owner |-> NoFields, refs |-> NoFields],
                Comment(user, a, b), Comment(2, 1, 1), Post(2, None)>>
    /\ LET all == SetToSeq(Tree!References)
       IN  x2 \in {all, Reverse(all), << >>,
                   Append(all, [from |-> 1, rel |-> "topic", to |-> 2, toCol |-> "topics"])}
    /\ \E rel \in {"post", "about"} : x3 = (<<"comments", "posts">> :> rel @@ <<"posts", "topics">> :> "topic")
    /\ x4 \in Requests /\ x5 \in {{1}, {2}}

-----------------------------------------------------------------------------
(* The query engine: up to three records, a pipeline of up to two steps.   *)

Report == INSTANCE Pipeline WITH
            Default <- 2, Cap <- 4, table <- x1, query <- x2, pipeline <- x3

Cells == [key : {Report!Text("a", 0), Report!Text("5", 5), Report!Null},
          value : {Report!Number(1), Report!Number(3), Report!Null}]
Sum(output) == [op |-> "cumulative", field |-> "value", output |-> output]
Pivot(agg) == [op |-> "pivot", agg |-> agg]
Pipelines ==
    {<< >>, <<[op |-> "map"]>>, <<Sum("sum")>>, <<Sum("value"), Pivot("sum")>>, <<Pivot("count"), Sum("sum")>>}

ReportInit ==
    /\ x1 \in UNION {[1..n -> Cells] : n \in 0..3}
    /\ x2 \in [group : BOOLEAN, func : {"sum", "count"}, limit : {0, 9}, offset : {0, 1}]
    /\ x3 \in Pipelines

-----------------------------------------------------------------------------
(* Validation: a title, a size, who and when, and a relation.              *)

NoLimits == [range |-> 0..9, lengths |-> 0..9, pattern |-> None]
Definition(type, required, auto, default, limits) ==
    [type |-> type, required |-> required, auto |-> auto, default |-> default, limits |-> limits]
Json(json, number, len, id, fits) ==
    [json |-> json, content |-> "", number |-> number, len |-> len, id |-> id, fits |-> fits]
N(n) == Json("number", n, 0, None, {})
Word(text, id, fits) == [Json("string", 0, 1, id, fits) EXCEPT !.content = text]

Usual == [title |-> Word("w", None, {"word"}), size |-> N(3), by |-> N(7), at |-> Word("d", None, {"date"}),
          ref |-> N(5), other |-> N(1)]
Blanks == {Json("string", 0, 0, None, {"blank"}), Word(" ", None, {"blank"})}
Odd == LET null == Json("null", 0, 0, None, {})
           list == Json("array", 0, 2, None, {"numbers"})
           five == Word("5", 5, {"word"})
       IN  [title |-> {Word("!", None, {}), null, N(1)}, size |-> {N(9), null, five},
            by |-> {five, Word("x", None, {"word"}), list}, at |-> {Word("!", None, {})},
            ref |-> {five, list, null}, other |-> {N(2)}]

\* Data with the given fields, of which at most one is odd.
Put(data, n, x) == [m \in DOMAIN data \cup {n} |-> IF m = n THEN x ELSE data[m]]
Given(names) == [n \in names |-> Usual[n]]
Variants(sets) ==
    {Given(names) : names \in sets}
    \cup UNION {UNION {{Put(Given(names), n, x) : x \in Odd[n] \cup Blanks} : n \in DOMAIN Usual} : names \in sets}

Inputs == Variants({{}, {"title"}, {"title", "by", "ref", "other"}, DOMAIN Usual})
Patched == UNION {{Put(Given({}), n, x) : x \in {Usual[n]} \cup Odd[n] \cup Blanks} : n \in DOMAIN Usual}

Fields ==
    [title |-> Definition("text", TRUE, FALSE, None, [NoLimits EXCEPT !.lengths = 1..9, !.pattern = "word"]),
     size |-> Definition("number", FALSE, FALSE, N(3), [NoLimits EXCEPT !.range = 1..5]),
     by |-> Definition("owner", TRUE, TRUE, None, NoLimits),
     at |-> Definition("date", FALSE, TRUE, None, NoLimits)]
Relations == [ref |-> [required |-> FALSE]]
Values == INSTANCE Validation WITH
    Patches <- Patched, MaxCalls <- 2,
    row <- x1, checked <- x2, event <- x3, last <- x4, calls <- x5

\* The data and the user of a creation.
EntryInit == x1 \in Variants(SUBSET DOMAIN Usual) /\ x2 \in {None, 7}

-----------------------------------------------------------------------------
(* Imports: up to three rows of one column, up to two of more.             *)

Files == INSTANCE DataImport WITH
    KeyOf <- [A |-> "a", a |-> "a", B |-> "b", Id |-> "id", Created |-> "created"], Scan <- 2,
    format <- x1, file <- x2, existing <- x3

Texts == {Files!Word, Files!Blank, Files!Text("digits", 5), Files!Text("boolean", None), Files!Text("json", None)}
Scalar == {Files!Number(4), Files!Word, Files!Text("digits", 5), Files!Boolean, Files!Json, Files!Null}
Lines(values) ==
    {<< <<"Id", x>>, <<"A", y>> >> : x \in values, y \in values}
    \cup {<< <<"A", x>>, <<head, y>> >> : head \in {"a", "B", "Created"}, x \in {Files!Word}, y \in values}
ImportInit ==
    /\ x1 \in {"csv", "json"}
    /\ LET values == IF x1 = "csv" THEN Texts ELSE Scalar \cup {Files!Blank}
       IN  x2 \in UNION {[1..n -> {<< <<"A", x>> >> : x \in values}] : n \in 1..3}
                  \cup {<<one>> : one \in Lines(values)} \cup {<<one, two>> : one \in Lines(values), two \in Lines(values)}
    /\ x3 \in {<< >>, [a |-> "string"], [a |-> "number"]}

-----------------------------------------------------------------------------
(* Jobs of scripts: two callers, three jobs, two windows.                  *)

Jobs == INSTANCE ScriptJobs WITH
            Callers <- {p, q}, Estimates <- {2}, Limit <- 2,
            MaxJobs <- 3, MaxIncr <- 2, MaxForgets <- 1, MaxWindows <- 1,
            cache <- x1, window <- x2, call <- x3, jobs <- x4, reserved <- x5, added <- x6,
            incrs <- x7, forgets <- x8, raced <- x9

-----------------------------------------------------------------------------
ASSUME
    /\ H!ConstantsAssumption /\ X!ConstantsAssumption
    /\ S1!ConstantsAssumption /\ S2!ConstantsAssumption
    /\ Pages!ConstantsAssumption

-----------------------------------------------------------------------------
Free15 == x15 = None
Free13 == x13 = None /\ x14 = None /\ Free15
Free12 == x12 = None /\ Free13
Free11 == x11 = None /\ Free12
Free10 == x10 = None /\ Free11
Free9 == x9 = None /\ Free10
Free6 == x6 = None /\ x7 = None /\ x8 = None /\ Free9
Free4 == x4 = None /\ x5 = None /\ Free6
Free3 == x3 = None /\ Free4
Free2 == x2 = None /\ Free3

Keep15 == UNCHANGED part
Keep13 == UNCHANGED <<x13, x14, x15>> /\ Keep15
Keep12 == UNCHANGED x12 /\ Keep13
Keep11 == UNCHANGED x11 /\ Keep12
Keep10 == UNCHANGED x10 /\ Keep11
Keep9 == UNCHANGED x9 /\ Keep10
Keep6 == UNCHANGED <<x6, x7, x8>> /\ Keep9

MCInit ==
    \/ part = "queue" /\ W!Init /\ Free13
    \/ part = "handlers" /\ H!Init /\ Free11
    \/ part = "vectors" /\ V!Init /\ Free13
    \/ part = "upload" /\ U1!Init /\ Free11
    \/ part = "uploads" /\ U2!Init /\ Free11
    \/ part = "files" /\ F1!Init /\ Free12
    \/ part = "replica" /\ F2!Init /\ Free12
    \/ part = "accounts" /\ A!Init /\ Free15
    \/ part = "search" /\ X!Init /\ Free12
    \/ part = "fields" /\ S1!Init
    \/ part = "admins" /\ S2!Init
    \/ part = "records" /\ R!Init /\ Free6
    \/ part = "filter" /\ FilterInit /\ Free3
    \/ part = "policy" /\ PolicyInit /\ Free4
    \/ part = "parser" /\ ParserInit /\ Free2
    \/ part = "pages" /\ Pages!Init /\ Free13
    \/ part = "expand" /\ TreeInit /\ Free6
    \/ part = "report" /\ ReportInit /\ Free4
    \/ part = "values" /\ Values!Init /\ Free6
    \/ part = "entries" /\ EntryInit /\ Free3
    \/ part = "import" /\ ImportInit /\ Free4
    \/ part = "jobs" /\ Jobs!Init /\ Free10

MCNext ==
    \/ part = "queue" /\ W!Next /\ Keep13
    \/ part = "handlers" /\ H!Next /\ Keep11
    \/ part = "vectors" /\ V!Next /\ Keep13
    \/ part = "upload" /\ U1!Next /\ Keep11
    \/ part = "uploads" /\ U2!Next /\ Keep11
    \/ part = "files" /\ F1!Next /\ Keep12
    \/ part = "replica" /\ F2!Next /\ Keep12
    \/ part = "accounts" /\ A!Next /\ UNCHANGED x15 /\ Keep15
    \/ part = "search" /\ X!Next /\ Keep12
    \/ part = "fields" /\ S1!Next /\ Keep15
    \/ part = "admins" /\ S2!Next /\ Keep15
    \/ part = "records" /\ R!Next /\ Keep6
    \/ part = "pages" /\ Pages!Next /\ Keep13
    \/ part = "values" /\ Values!Next /\ Keep6
    \/ part = "jobs" /\ Jobs!Next /\ Keep10

MCSpec == MCInit /\ [][MCNext]_mcVars

-----------------------------------------------------------------------------
(* The properties; each names those of one or two components.              *)

\* Write queue: no acknowledged row is missing, no row is doubled and the order is
\* kept, whatever SQLite does to a transaction (database/batching.rs).
QueueSafe == part = "queue" => W!AckInv /\ W!RowsInOrder

\* Record handlers: an update loses only what another one wrote after it had
\* read, and events and jobs tell what is stored (api/data/records.rs,
\* graphql/builder.rs, hooks.rs).
HandlersSafe ==
    part = "handlers" => H!TypeOK /\ H!LostExplained /\ H!EventsMatch /\ H!JobsMatch

\* Steps: no handler writes to a record its policy refused it, and a script's job
\* that has ended keeps its status (scripting/builtins/queue.rs).
StepsHeld ==
    [][/\ part = "handlers" => H!PolicyHeldStep
       /\ part = "jobs" => Jobs!FinalStays]_mcVars

\* Jobs: no record is missing from the search index and every ghost in it is
\* explained; the table of vectors and its index hold the vector of a record's
\* text, but for jobs that were lost or overtaken (connections/search.rs,
\* workers/tasks/vectorization.rs); the counters of a scope's cache and the budget
\* of its scripts' jobs are exact until increments overlap (context.rs).
JobsSafe ==
    /\ part = "search" => X!TypeOK /\ X!NeverMissed /\ X!GhostsExplained
    /\ part = "vectors" => V!TypeOK /\ V!TableCurrent /\ V!IndexComplete
    /\ part = "jobs" => Jobs!TypeOK /\ Jobs!Counted /\ Jobs!BudgetKept

\* Files: an uploaded file is what its client sent, it has one row, and the
\* temporary files keep to the quota (api/storage/tus.rs); a migration that
\* succeeded has copied every file, and a file that was deleted is nowhere
\* (api/storage/backends.rs, admin.rs).
FilesSafe ==
    /\ part = "upload" => U1!TypeOK /\ U1!Assembled /\ U1!OneRow /\ U1!TempBound
    /\ part = "uploads" => U2!TypeOK /\ U2!Assembled /\ U2!OneRow /\ U2!TempBound
    /\ part = "files" => F1!TypeOK /\ F1!Migrated /\ F1!DeletedIsGone
    /\ part = "replica" => F2!TypeOK /\ F2!Migrated /\ F2!DeletedIsGone

\* Accounts: an identity signs in as one user, a token is used once, and the
\* metadata keeps the keys nobody changed (api/auth).
AccountsSafe == part = "accounts" => A!TypeOK /\ A!SameUser /\ A!TokenOnce /\ A!MetaKept

\* Schema changes: values and links follow their field, indexes are on the
\* fields of the schema, and no record outlives its collection
\* (connections/collections.rs).
SchemaSafe ==
    /\ part = "fields" =>
          S1!TypeOK /\ S1!ValuesFollow /\ S1!LinksFollow /\ S1!IndexesCover /\ S1!NoOrphans
    /\ part = "admins" =>
          S2!TypeOK /\ S2!ValuesFollow /\ S2!LinksFollow /\ S2!IndexesCover /\ S2!NoOrphans

\* Record store: after every call the unique index and the links are what the
\* records say, and no two records share a value (connections/records.rs).
RecordsExact == part = "records" => R!TypeOK /\ R!IndexExact /\ R!UniqueValues

\* Readers: a list, a fetch and a subscription choose the same records, the pages
\* of a list give each of them once, expanded records and profiles are those the
\* request asks for and the viewer may read, and a pivot is a GROUP BY
\* (query/filter.rs, auth/policies.rs, query/builder.rs, query/processor.rs).
ReadersAgree ==
    /\ part = "filter" => Rules!ReadAlike(x1, RecordOf(x2))
    /\ part = "policy" => Rules!ListAsGet(x1, x2, RecordOf(x3))
    /\ part = "parser" => Rules!ParsesBack(x1)
    /\ part = "pages" => Pages!TypeOK /\ Pages!NothingSkipped /\ Pages!OnceEach
    /\ part = "expand" => Tree!AsRequested /\ Tree!ProfilesRead /\ Tree!RelatedAlike
    /\ part = "report" => Report!PivotIsGroupBy /\ Report!RunningTotal /\ Report!Bounded

\* Owners: a list shows its owner every record that the policy owner:f lets the
\* owner fetch (auth/policies.rs, compile_to_sql).
OwnersListed ==
    part = "policy" /\ x1 = Rules!Words(<<Rules!OwnerOf("f")>>) => Rules!OwnerListed("f", x2, RecordOf(x3))

\* Validation: what is validated obeys the schema and stays so, an update is
\* refused for its own fields only, an event shows the row, and REST and GraphQL
\* accept the same records (validation.rs); a file with uniform columns is imported
\* as it was read, whatever the order of its rows and its format
\* (api/migration/import/data.rs).
ValuesChecked ==
    /\ part = "values" => Values!StoredConforms /\ Values!BlamesItsOwn /\ Values!EventExplained
    /\ part = "entries" => Values!EntriesAlike(x1, x2)
    /\ part = "import" => Files!UniformKept /\ Files!OrderFree /\ Files!FormatsAlike
=============================================================================
