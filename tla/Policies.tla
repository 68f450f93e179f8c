------------------------------ MODULE Policies ------------------------------
(***************************************************************************)
(* FilterNode (apexkit-core/src/query/filter.rs): a filter or a policy in  *)
(* JSON is parsed into a tree of conditions, which is read in three ways:  *)
(* `matches' compares a record in memory, to_sql writes a WHERE clause     *)
(* with bound parameters and to_inline_sql one with literals.  SQLite      *)
(* decides the clauses, in its three-valued logic and by its own           *)
(* comparison of types.                                                    *)
(*                                                                         *)
(* A JSON scalar is its type and the form it is written in; an object is   *)
(* the sequence of its entries, in the order of their keys (serde_json     *)
(* keeps a map sorted).  The fields of records hold scalars.               *)
(*                                                                         *)
(* Access policies (apexkit-core/src/auth/policies.rs).  A policy is a     *)
(* text, an expression or a filter in JSON; check_access decides it for    *)
(* one record in memory, compile_to_sql turns it into the condition that a *)
(* list adds to its WHERE clause.                                          *)
(*                                                                         *)
(* An expression arrives as its tokens: a name, a text in quotes, or a     *)
(* mark.  Names are told apart by what they begin with.  A user is a       *)
(* record of the written forms of uid, role and email, or nobody.  What    *)
(* @get() finds and the fields of a request are part of the instance.      *)
(***************************************************************************)
EXTENDS Naturals, Sequences

CONSTANTS
    Rank,       \* the order of the written forms, as numbers and as texts
    Parts,      \* pairs <<a, b>> of written forms such that a occurs in b
    Nonzero,    \* the written forms that begin with a number other than 0
    Found       \* what the query of a @get() returns

Scalar(type, text) == [type |-> type, text |-> text]
Array(items) == [type |-> "array", items |-> items]
Object(entries) == [type |-> "object", entries |-> entries]
Null == Scalar("null", "null")
Missing == Scalar("missing", "")

-----------------------------------------------------------------------------
(* Parsing.                                                                *)

Condition(field, op, value) == [node |-> "condition", field |-> field, op |-> op, value |-> value]
Group(op, children) == [node |-> "group", op |-> op, children |-> children]
Empty == [node |-> "empty"]

Ops == {"eq", "neq", "gt", "gte", "lt", "lte", "in", "nin", "like", "contains"}

\* The first entry of an object is the operator, the others are ignored; an
\* object that begins with something else is compared as it stands.
FieldCondition(field, val) ==
    IF val.type = "object" /\ val.entries # << >> /\ val.entries[1][1] \in Ops
      THEN Condition(field, val.entries[1][1], val.entries[1][2])
      ELSE Condition(field, "eq", val)

\* A condition alone stands for itself, several for their conjunction.
Conjoined(parts) ==
    CASE parts = << >> -> Empty
      [] Len(parts) = 1 -> parts[1]
      [] OTHER -> Group("and", parts)

RECURSIVE Parse(_)
Parse(json) ==
    LET kept(e) == e[1] \in {"and", "or"} => e[2].type = "array"
        part(e) == IF e[1] \in {"and", "or"}
                     THEN Group(e[1], [i \in DOMAIN e[2].items |-> Parse(e[2].items[i])])
                     ELSE FieldCondition(e[1], e[2])
        entries == IF json.type = "object" THEN SelectSeq(json.entries, kept) ELSE << >>
    IN Conjoined([i \in DOMAIN entries |-> part(entries[i])])

-----------------------------------------------------------------------------
(* In memory: compare_values on the written forms, json_cmp on one type.   *)

Ordered(a, b) == a.type = b.type /\ a.type \in {"number", "text"}

Compare(x, op, v) ==
    CASE x = Missing -> op = "neq" /\ v # Null
      [] op = "eq" -> x.text = v.text
      [] op = "neq" -> x.text # v.text
      [] op = "gt" -> Ordered(x, v) /\ Rank[x.text] > Rank[v.text]
      [] op = "gte" -> Ordered(x, v) /\ Rank[x.text] >= Rank[v.text]
      [] op = "lt" -> Ordered(x, v) /\ Rank[x.text] < Rank[v.text]
      [] op = "lte" -> Ordered(x, v) /\ Rank[x.text] <= Rank[v.text]
      [] op = "in" -> v.type = "array" /\ \E i \in DOMAIN v.items : v.items[i].text = x.text
      [] op = "nin" -> v.type = "array" => \A i \in DOMAIN v.items : v.items[i].text # x.text
      [] op = "contains" -> x.type = "text" /\ v.type = "text" /\ <<v.text, x.text>> \in Parts
      [] OTHER -> FALSE

Field(record, field) == IF field \in DOMAIN record THEN record[field] ELSE Missing

RECURSIVE Matches(_, _)
Matches(n, record) ==
    CASE n.node = "condition" -> Compare(Field(record, n.field), n.op, n.value)
      [] n.node = "group" /\ n.op = "and" -> \A i \in DOMAIN n.children : Matches(n.children[i], record)
      [] n.node = "group" /\ n.op = "or" -> \E i \in DOMAIN n.children : Matches(n.children[i], record)
      [] OTHER -> TRUE

-----------------------------------------------------------------------------
(* In SQL: 0 is false, 1 is NULL and 2 is true; a node that writes no SQL  *)
(* is left out of its group.                                               *)

No == 0
Unknown == 1
Yes == 2
LeftOut == 3

Truth(b) == IF b THEN Yes ELSE No
Not3(a) == Yes - a
All3(S) == CHOOSE m \in S : \A n \in S : m <= n
Any3(S) == CHOOSE m \in S : \A n \in S : m >= n

\* What `->>' extracts and what json_to_inline_sql writes.
Cell(x) ==
    CASE x.type = "number" -> [class |-> "integer", text |-> x.text]
      [] x.type = "boolean" -> [class |-> "integer", text |-> IF x.text = "true" THEN "1" ELSE "0"]
      [] x.type = "text" -> [class |-> "text", text |-> x.text]
      [] OTHER -> [class |-> "null", text |-> ""]

\* A bound number is a REAL (json_to_sql_val).
Bound(x) == IF x.type = "number" THEN [class |-> "real", text |-> x.text] ELSE Cell(x)

Param(reading, x) == IF reading = "bound" THEN Bound(x) ELSE Cell(x)

\* CAST(... AS TEXT): a REAL keeps its point.
Cast(c) ==
    IF c.class = "null" THEN c
    ELSE [class |-> "text", text |-> IF c.class = "real" THEN c.text \o ".0" ELSE c.text]

Numeric(c) == c.class \in {"integer", "real"}
Known(a, b) == a.class # "null" /\ b.class # "null"
Unless3(a, b, holds) == IF Known(a, b) THEN Truth(holds) ELSE Unknown

Equal3(a, b) == Unless3(a, b, Numeric(a) = Numeric(b) /\ a.text = b.text)
\* Every number comes before every text.
Less3(a, b) ==
    Unless3(a, b, IF Numeric(a) = Numeric(b) THEN Rank[a.text] < Rank[b.text] ELSE Numeric(a))

Same3(a, b) == Any3({Equal3(a, b), Equal3(Cast(a), Cast(b))})
Like3(a, b, within) ==
    LET s == Cast(a).text  t == Cast(b).text
    IN Unless3(a, b, IF within THEN <<t, s>> \in Parts ELSE s = t)

\* Mutant: the NOT is written before the first value of a $nin only.
MutNotIn3(tests) == All3({Not3(tests[1])} \cup {tests[i] : i \in DOMAIN tests \ {1}})
NotIn3(tests) == All3({Not3(tests[i]) : i \in DOMAIN tests})

InSql(c, reading, x) ==
    LET tests == [i \in DOMAIN c.value.items |-> Same3(Cell(x), Param(reading, c.value.items[i]))]
    IN CASE c.value.type # "array" -> LeftOut
         [] c.value.type = "array" /\ c.value.items = << >> -> No
         [] OTHER -> IF c.op = "in" THEN Any3({tests[i] : i \in DOMAIN tests}) ELSE NotIn3(tests)

CompareSql(c, reading, x) ==
    LET a == Cell(x)  b == Param(reading, c.value)
    IN CASE c.op = "eq" -> Same3(a, b)
         [] c.op = "neq" -> Not3(Same3(a, b))
         [] c.op = "gt" -> Less3(b, a)
         [] c.op = "gte" -> Not3(Less3(a, b))
         [] c.op = "lt" -> Less3(a, b)
         [] c.op = "lte" -> Not3(Less3(b, a))
         [] OTHER -> Like3(a, b, c.op = "contains" /\ c.value.type = "text")

ConditionSql(c, reading, x) ==
    IF c.op \in {"in", "nin"} THEN InSql(c, reading, x) ELSE CompareSql(c, reading, x)

RECURSIVE Sql(_, _, _)
Sql(n, reading, record) ==
    CASE n.node = "condition" -> ConditionSql(n, reading, Field(record, n.field))
      [] n.node = "group" ->
            LET parts == {Sql(n.children[i], reading, record) : i \in DOMAIN n.children} \ {LeftOut}
            IN IF parts = {} THEN LeftOut ELSE IF n.op = "and" THEN All3(parts) ELSE Any3(parts)
      [] OTHER -> LeftOut

-----------------------------------------------------------------------------
\* The row is selected: a filter without SQL adds nothing to the WHERE clause.
Selected(n, reading, record) == Sql(n, reading, record) \in {Yes, LeftOut}

\* The conditions that every reading decides alike: values of one type, which
\* have an order where it is asked for, a list that is not empty, and no
\* inequality with a field that is missing.
Values(c) ==
    IF c.value.type = "array" THEN {c.value.items[i] : i \in DOMAIN c.value.items} ELSE {c.value}

Regular(c, x) ==
    /\ c.op \in {"in", "nin"} <=> c.value.type = "array"
    /\ Values(c) # {} /\ c.op # "like"
    /\ \/ x = Missing /\ c.op # "neq"
       \/ /\ \A v \in Values(c) : v.type = x.type
          /\ x.type \in {"text", "number", "boolean"}
          /\ c.op \in {"gt", "gte", "lt", "lte"} => x.type # "boolean"
          /\ c.op = "contains" => x.type = "text"

RECURSIVE AllRegular(_, _)
AllRegular(n, record) ==
    CASE n.node = "condition" -> Regular(n, Field(record, n.field))
      [] n.node = "group" -> n.children # << >> /\ \A i \in DOMAIN n.children : AllRegular(n.children[i], record)
      [] OTHER -> FALSE

\* ReadAlike: a filter "translates JSON logic into efficient SQL for database
\* queries and performs high-speed in-memory evaluation for real-time WebSocket
\* subscriptions" (docs/v0_1_0/records-filters-api.md:6): where its conditions
\* are regular, a list, a policy and a subscription choose the same records.
ReadAlike(n, record) ==
    n = Empty \/ AllRegular(n, record) =>
        \A reading \in {"bound", "inline"} : Selected(n, reading, record) <=> Matches(n, record)

-----------------------------------------------------------------------------
(* Policies.                                                               *)

Token(kind, name) == [kind |-> kind, name |-> name]
Mark(name) == Token("mark", name)
Keyword(name) == Token("keyword", name)     \* public, auth, admin
Auth(name) == Token("auth", name)           \* auth.id, auth.role, auth.email
FieldOf(name) == Token("field", name)       \* field:name
OwnerOf(name) == Token("owner", name)       \* owner:name
Bare(name) == Token("bare", name)           \* true, false, a number, a field
Quoted(name) == Token("quoted", name)

Nobody == [id |-> "", role |-> "", email |-> ""]

-----------------------------------------------------------------------------
(* The parser: each operator returns the tree and the tokens that are left,*)
(* or no tree.                                                             *)

Leaf(token) == [op |-> "leaf", token |-> token]
Binary(op, l, r) == [op |-> op, left |-> l, right |-> r]
Bad == [op |-> "bad"]

Begins(ts, mark) == ts # << >> /\ ts[1] = Mark(mark)

RECURSIVE ParseOr(_), MoreOr(_, _), ParseAnd(_), MoreAnd(_, _), ParseEquality(_), ParsePrimary(_)

ParsePrimary(ts) ==
    IF ts # << >> /\ ts[1].kind # "mark" THEN <<Leaf(ts[1]), Tail(ts)>>
    ELSE IF ~Begins(ts, "(") THEN <<Bad, ts>>
    ELSE LET inner == ParseOr(Tail(ts))
         IN IF inner[1] # Bad /\ Begins(inner[2], ")") THEN <<inner[1], Tail(inner[2])>> ELSE <<Bad, ts>>

\* One comparison: a second one is left to the caller.
ParseEquality(ts) ==
    LET l == ParsePrimary(ts) IN
    IF l[1] # Bad /\ (Begins(l[2], "==") \/ Begins(l[2], "!="))
      THEN LET other == ParsePrimary(Tail(l[2]))
           IN IF other[1] = Bad THEN other ELSE <<Binary(l[2][1].name, l[1], other[1]), other[2]>>
      ELSE l

MoreAnd(e, ts) ==
    IF e # Bad /\ Begins(ts, "&&")
      THEN LET next == ParseEquality(Tail(ts))
           IN IF next[1] = Bad THEN next ELSE MoreAnd(Binary("&&", e, next[1]), next[2])
      ELSE <<e, ts>>
\* Mutant: && and || bind alike, from left to right.
MutParseAnd(ts) ==
    LET l == ParseEquality(ts)
    IN IF l[1] # Bad /\ Begins(l[2], "&&")
         THEN LET next == ParseOr(Tail(l[2])) IN <<Binary("&&", l[1], next[1]), next[2]>>
         ELSE l
ParseAnd(ts) == LET l == ParseEquality(ts) IN MoreAnd(l[1], l[2])

MoreOr(e, ts) ==
    IF e # Bad /\ Begins(ts, "||")
      THEN LET next == ParseAnd(Tail(ts))
           IN IF next[1] = Bad THEN next ELSE MoreOr(Binary("||", e, next[1]), next[2])
      ELSE <<e, ts>>
ParseOr(ts) == LET l == ParseAnd(ts) IN MoreOr(l[1], l[2])

\* Tokens that are left over are ignored.
Expression(ts) == ParseOr(ts)[1]

-----------------------------------------------------------------------------
(* In memory.                                                              *)

\* resolve_value and extract_field; nothing is the empty text.
Resolve(t, user, record) ==
    CASE t.kind = "auth" -> user[t.name]
      [] t.kind \in {"field", "bare"} -> Field(record, t.name).text
      [] OTHER -> ""

ValueOf(e, user, record) ==
    IF e.op # "leaf" THEN ""
    ELSE IF e.token.kind = "quoted" THEN e.token.name ELSE Resolve(e.token, user, record)

\* check_owner_policy.
Owns(field, user, record) ==
    /\ user # Nobody
    /\ Field(record, field).type \in {"number", "text"}
    /\ Field(record, field).text = user.id

HoldsLeaf(t, user, record) ==
    CASE t = Keyword("public") -> TRUE
      [] t = Keyword("auth") -> user # Nobody
      [] t = Keyword("admin") -> user.role = "admin"
      [] t.kind = "owner" -> Owns(t.name, user, record)
      [] t.kind = "quoted" -> t.name # ""
      [] OTHER -> Resolve(t, user, record) \in {"true", "1"}

RECURSIVE Evaluate(_, _, _)
Evaluate(e, user, record) ==
    CASE e.op = "&&" -> Evaluate(e.left, user, record) /\ Evaluate(e.right, user, record)
      [] e.op = "||" -> Evaluate(e.left, user, record) \/ Evaluate(e.right, user, record)
      [] e.op = "==" -> ValueOf(e.left, user, record) = ValueOf(e.right, user, record)
      [] e.op = "!=" -> ValueOf(e.left, user, record) # ValueOf(e.right, user, record)
      [] OTHER -> HoldsLeaf(e.token, user, record)

-----------------------------------------------------------------------------
(* In SQL: an expression is a cell, a truth value an integer.              *)

TextCell(s) == [class |-> "text", text |-> s]
NullCell == [class |-> "null", text |-> ""]
BoolCell(n) == IF n = Unknown THEN NullCell ELSE [class |-> "integer", text |-> IF n = Yes THEN "1" ELSE "0"]
Truthy(c) == IF c.class = "null" THEN Unknown ELSE Truth(c.text \in Nonzero)

\* Expr::to_sql of an identifier or a literal.
LeafSql(t, user, record) ==
    CASE t.kind = "keyword" -> BoolCell(Truth(HoldsLeaf(t, user, record)))
      [] t.kind = "auth" -> IF user = Nobody THEN NullCell ELSE TextCell(user[t.name])
      [] t.kind = "field" -> Cell(Field(record, t.name))
      [] t.kind = "bare" /\ t.name \in {"true", "false"} -> BoolCell(Truth(t.name = "true"))
      [] t.kind = "owner" -> TextCell("owner:" \o t.name)
      [] OTHER -> TextCell(t.name)

RECURSIVE ToSql(_, _, _)
ToSql(e, user, record) ==
    IF e.op = "leaf" THEN LeafSql(e.token, user, record)
    ELSE LET left == ToSql(e.left, user, record)  right == ToSql(e.right, user, record)
         IN BoolCell(CASE e.op = "&&" -> All3({Truthy(left), Truthy(right)})
                       [] e.op = "||" -> Any3({Truthy(left), Truthy(right)})
                       [] e.op = "==" -> Equal3(left, right)
                       [] OTHER -> Not3(Equal3(left, right)))

-----------------------------------------------------------------------------
(* preprocess_policy: the context of a request in a JSON policy.           *)

\* resolve_literal: a path that leads nowhere is null, another text stays.
ContextKeys == {"@request.auth.id", "@request.auth.role", "@request.record.f"}
AsNull(x) == IF x = Missing THEN Null ELSE x
Context(name, user, record, request) ==
    CASE name = "@request.auth.id" -> IF user = Nobody THEN Null ELSE Scalar("number", user.id)
      [] name = "@request.auth.role" -> IF user = Nobody THEN Null ELSE Scalar("text", user.role)
      [] name = "@request.record.f" -> AsNull(Field(request, "f"))
      [] name = "@record.f" -> AsNull(Field(record, "f"))
      [] OTHER -> Scalar("text", name)

\* eval_static_condition, on written forms; no other operator holds.
Static(x, v) ==
    CASE v.type # "object" -> x.text = v.text
      [] v.entries = << >> -> FALSE
      [] v.entries[1][1] = "eq" -> x.text = v.entries[1][2].text
      [] v.entries[1][1] = "neq" -> x.text # v.entries[1][2].text
      [] v.entries[1][1] = "in" -> Compare(x, "in", v.entries[1][2])
      [] v.entries[1][1] = "nin" -> Compare(x, "nin", v.entries[1][2])
      [] OTHER -> FALSE

\* What no record matches: its data have no id.
ForceFalse == <<"id", Scalar("text", "_force_false")>>

RECURSIVE Preprocess(_, _, _, _)
Preprocess(json, user, record, request) ==
    LET in(v) == Preprocess(v, user, record, request)
        holds(e) == Static(Context(e[1], user, record, request), e[2])
        resolved == [i \in DOMAIN json.entries |-> <<json.entries[i][1], in(json.entries[i][2])>>]
        kept(e) == e[1] \in ContextKeys => ~holds(e)
        left == SelectSeq(resolved, kept)
    IN CASE json.type = "text" -> Context(json.text, user, record, request)
         [] json.type = "array" -> Array([i \in DOMAIN json.items |-> in(json.items[i])])
         [] json.type = "object" /\ json.entries # << >> /\ json.entries[1][1] = "@get()" -> Found
         [] json.type = "object" ->
               Object([i \in DOMAIN left |-> IF left[i][1] \in ContextKeys THEN ForceFalse ELSE left[i]])
         [] OTHER -> json

-----------------------------------------------------------------------------
(* The two entries.  A policy is empty, an expression or JSON.             *)

EmptyPolicy == [form |-> "empty"]
Words(ts) == [form |-> "words", tokens |-> ts]
Json(v) == [form |-> "json", value |-> v]

Admin(user) == user.role = "admin"

CheckAccess(policy, user, record, request) ==
    CASE policy = EmptyPolicy -> FALSE
      [] policy = Words(<<Keyword("public")>>) \/ Admin(user) -> TRUE
      [] policy.form = "json" ->
            Matches(Parse(Preprocess(policy.value, user, record, request)), record)
      [] OTHER ->
            LET e == Expression(policy.tokens) IN e # Bad /\ Evaluate(e, user, record)

\* compile_to_sql, and the row that its condition admits.  Where it returns an
\* error the list is refused.
Admitted(policy, user, record) ==
    CASE policy \in {EmptyPolicy, Words(<<Keyword("public")>>)} \/ Admin(user) -> TRUE
      [] policy.form = "json" ->
            Selected(Parse(Preprocess(policy.value, user, << >>, << >>)), "inline", record)
      [] Len(policy.tokens) = 1 /\ policy.tokens[1].kind = "owner" ->
            user # Nobody /\ Equal3(Cell(Field(record, policy.tokens[1].name)), TextCell(user.id)) = Yes
      [] OTHER ->
            LET e == Expression(policy.tokens) IN e # Bad /\ Truthy(ToSql(e, user, record)) = Yes
-----------------------------------------------------------------------------
(* Where the two are to agree: truth values are keywords, comparisons are  *)
(* of texts that are known, or of one that is missing with a quoted one.   *)

Given(e, user, record) ==
    /\ e.op = "leaf"
    /\ \/ e.token.kind = "quoted"
       \/ e.token.kind = "auth" /\ user # Nobody
       \/ e.token.kind = "field" /\ Field(record, e.token.name).type = "text"
Lacking(e, user, record) ==
    /\ e.op = "leaf"
    /\ \/ e.token.kind = "auth" /\ user = Nobody
       \/ e.token.kind = "field" /\ Field(record, e.token.name) = Missing
Literal(e) == e.op = "leaf" /\ e.token.kind = "quoted" /\ e.token.name # ""

RECURSIVE Plain(_, _, _)
Plain(e, user, record) ==
    CASE e.op \in {"&&", "||"} -> Plain(e.left, user, record) /\ Plain(e.right, user, record)
      [] e.op \in {"==", "!="} ->
            \/ Given(e.left, user, record) /\ Given(e.right, user, record)
            \/ e.op = "==" /\ Lacking(e.left, user, record) /\ Literal(e.right)
            \/ e.op = "==" /\ Literal(e.left) /\ Lacking(e.right, user, record)
      [] e.op = "leaf" -> e.token.kind = "keyword"
      [] OTHER -> TRUE

\* A value that only the record in memory can give.
RECURSIVE AsksRecord(_)
AsksRecord(json) ==
    CASE json.type = "array" -> \E i \in DOMAIN json.items : AsksRecord(json.items[i])
      [] json.type = "object" -> \E i \in DOMAIN json.entries : AsksRecord(json.entries[i][2])
      [] OTHER -> json.text = "@record.f"

Settled(policy, user, record) ==
    CASE policy.form = "empty" -> FALSE
      [] policy.form = "json" ->
            LET n == Parse(Preprocess(policy.value, user, record, << >>))
            IN ~AsksRecord(policy.value) /\ (n = Empty \/ AllRegular(n, record))
      [] Len(policy.tokens) = 1 /\ policy.tokens[1].kind = "owner" ->
            Field(record, policy.tokens[1].name).type # "number"
      [] OTHER -> Plain(Expression(policy.tokens), user, record)

\* ListAsGet: "security is enforced at the database level, maintaining perfect
\* consistency" (docs/v0_1_0/policies-refined.md:6): a settled policy puts into
\* a list exactly the records that can be fetched one by one; one that does not
\* parse refuses both.
ListAsGet(policy, user, record) ==
    Settled(policy, user, record) =>
        (Admitted(policy, user, record) <=> CheckAccess(policy, user, record, << >>))

\* OwnerListed: a record that owner:field lets its owner fetch is in the owner's
\* list too.  "This guarantees that numeric-to-string comparisons succeed
\* seamlessly" (docs/v0_1_0/policies-refined.md:95) says so of the SQL.
OwnerListed(field, user, record) ==
    LET policy == Words(<<OwnerOf(field)>>)
    IN  CheckAccess(policy, user, record, << >>) => Admitted(policy, user, record)

\* The tokens of a tree, in parentheses only where the operators need them.
Level(op) == CASE op = "||" -> 1 [] op = "&&" -> 2 [] op \in {"==", "!="} -> 3 [] OTHER -> 4
RECURSIVE Tokens(_, _)
Tokens(e, level) ==
    LET l == Level(e.op)
        ts == IF l = 4 THEN <<e.token>>
              ELSE Tokens(e.left, IF l = 3 THEN 4 ELSE l) \o <<Mark(e.op)>> \o Tokens(e.right, l + 1)
    IN IF l < level THEN <<Mark("(")>> \o ts \o <<Mark(")")>> ELSE ts

\* ParsesBack: an expression is read as it was meant: comparisons first, && before
\* ||, equals from the left (docs/v0_1_0/policies.md:43).
ParsesBack(e) == Expression(Tokens(e, 1)) = e
=============================================================================
