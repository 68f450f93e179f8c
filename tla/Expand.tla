------------------------------- MODULE Expand -------------------------------
(***************************************************************************)
(* Related records in one answer.  REST: build_expand_json_object          *)
(* (apexkit-core/src/query/builder.rs) nests subqueries over _relations,   *)
(* hydrate_owners_recursive (connections/users.rs) then puts the profiles  *)
(* of owners into the answer and sanitize_expand_node (apexkit-api         *)
(* api/data/records.rs) takes out those the viewer may not read: three     *)
(* walks along the paths of the request.  GraphQL: a loader                *)
(* (graphql/dataloaders.rs) follows a relation and a filtered list its     *)
(* reverse.                                                                *)
(*                                                                         *)
(* A path is a sequence of parts; a part is a name with the page asked for *)
(* in parentheses, if any.  A request names each relation once at a level  *)
(* and gives no offset without a limit (SQLite refuses the statement).     *)
(***************************************************************************)
EXTENDS Naturals, Sequences, FiniteSets, SequencesExt

CONSTANTS
    Schemas,    \* [collection -> [owners, relations : [name -> [target, many]]]]
    Users,      \* ids of the users there are
    None

VARIABLES
    rows,       \* [id -> [col, owner : [field -> user], refs : [relation -> id or None]]]
    links,      \* _relations in the order of their ids: [from, rel, to, toCol]
    via,        \* the relation a reverse expansion happens to find: [<<origin, target>> -> name]
    request,    \* the paths
    readable    \* users that policy_users lets the viewer read

vars == <<rows, links, via, request, readable>>

Part(name) == [name |-> name, limit |-> None, offset |-> 0]
Paged(name, limit, offset) == [name |-> name, limit |-> limit, offset |-> offset]

RelationsOf(c) == Schemas[c].relations
\* The relations of collection n that lead to c.
Back(n, c) == {r \in DOMAIN RelationsOf(n) : RelationsOf(n)[r].target = c}

Nil == [kind |-> "null"]
Failure == [kind |-> "error"]
Record(i, expand) == [kind |-> "record", id |-> i, expand |-> expand]
List(items) == [kind |-> "list", items |-> items]
Fields(f) == [kind |-> "fields", of |-> f]
Profile(u) == [kind |-> "user", id |-> u]

-----------------------------------------------------------------------------
(* The tree of the request.                                                *)

Keys(paths) == {path[1] : path \in paths}
Below(paths, key) == {Tail(path) : path \in {p \in paths : p[1] = key /\ Len(p) > 1}}
KeyOf(paths, name) == CHOOSE k \in Keys(paths) : k.name = name
Names(paths) == {k.name : k \in Keys(paths)}

-----------------------------------------------------------------------------
(* The subqueries.                                                         *)

Ascending(S) == SetToSortSeq(S, LAMBDA a, b : a < b)
\* Without an ORDER BY the first row is SQLite's choice; no property depends on it.
First(S) == CHOOSE i \in S : \A j \in S : i <= j

Targets(i, rel) ==
    {links[k].to : k \in {k \in DOMAIN links : links[k].from = i /\ links[k].rel = rel}} \cap DOMAIN rows

Arriving(i, c, n, rel) ==
    {k \in DOMAIN links : /\ links[k].to = i /\ links[k].toCol = c /\ links[k].rel = rel
                          /\ links[k].from \in DOMAIN rows /\ rows[links[k].from].col = n}

\* With a page the latest links come first.
Listed(arriving, key) ==
    LET latest == Reverse(Ascending(arriving))
        last == key.offset + key.limit
    IN  IF key.limit = None THEN Ascending({links[k].from : k \in arriving})
        ELSE LET page == SubSeq(latest, key.offset + 1, IF last <= Len(latest) THEN last ELSE Len(latest))
             IN  [n \in DOMAIN page |-> links[page[n]].from]

RECURSIVE ExpandSql(_, _, _), Related(_, _, _, _)
Related(i, c, key, sub) ==
    LET whole(j, t) == Record(j, ExpandSql(j, t, sub))
        one(S, t) == IF S = {} THEN Nil ELSE whole(First(S), t)
        n == key.name
    IN CASE n \in DOMAIN RelationsOf(c) -> one(Targets(i, n), RelationsOf(c)[n].target)
         [] n \notin DOMAIN Schemas -> Failure
         [] Back(n, c) = {} -> one(Targets(i, n), n)
         [] OTHER ->
               LET rel == via[<<n, c>>]  arriving == Arriving(i, c, n, rel)
               IN  IF RelationsOf(n)[rel].many
                     THEN LET ids == Listed(arriving, key) IN List([m \in DOMAIN ids |-> whole(ids[m], n)])
                     ELSE one({links[k].from : k \in arriving}, n)

ExpandSql(i, c, paths) ==
    LET names == Names(paths) \ Schemas[c].owners
    IN  IF names = {} THEN Nil
        ELSE Fields([n \in names |-> LET k == KeyOf(paths, n) IN Related(i, c, k, Below(paths, k))])

-----------------------------------------------------------------------------
(* The walks after it.  Their tree has the parentheses in its names: a     *)
(* part with a page is the name of nothing.                                *)

PlainNames(paths) == {k.name : k \in {k \in Keys(paths) : k.limit = None}}

TargetOf(c, n) ==
    CASE n \in DOMAIN RelationsOf(c) -> RelationsOf(c)[n].target
      [] n \in DOMAIN Schemas -> n
      [] OTHER -> None

\* The nested records of v, each of them changed by f.
Nested(v, f(_)) ==
    CASE v.kind = "record" -> f(v)
      [] v.kind = "list" -> List([m \in DOMAIN v.items |-> f(v.items[m])])
      [] OTHER -> v

OwnerIn(i, f) == IF f \in DOMAIN rows[i].owner THEN rows[i].owner[f] ELSE None

\* At the top an owner field alone makes an expand object, below a profile does.
RECURSIVE Hydrate(_, _, _, _), HydrateNested(_, _, _)
Hydrate(rec, c, paths, top) ==
    LET asked == PlainNames(paths) \cap Schemas[c].owners
        known == {f \in asked : OwnerIn(rec.id, f) \in Users}
        object == \/ rec.expand.kind = "fields"
                  \/ asked # {} /\ (top \/ known # {})
        old == IF rec.expand.kind = "fields" THEN rec.expand.of ELSE << >>
        below(n) == Below(paths, Part(n))
        walked == {n \in PlainNames(paths) \ Schemas[c].owners : TargetOf(c, n) # None /\ below(n) # {}}
        value(n) ==
            CASE n \in known -> Profile(OwnerIn(rec.id, n))
              [] n \in walked -> HydrateNested(old[n], TargetOf(c, n), below(n))
              [] OTHER -> old[n]
    IN  IF object THEN Record(rec.id, Fields([n \in DOMAIN old \cup known |-> value(n)])) ELSE rec
HydrateNested(v, c, paths) == Nested(v, LAMBDA r : Hydrate(r, c, paths, FALSE))

\* Mutant: only the relations of the collection itself are followed.
MutFollowed(c, n) == IF n \in DOMAIN RelationsOf(c) THEN RelationsOf(c)[n].target ELSE None
Followed(c, n) == TargetOf(c, n)

RECURSIVE Sanitize(_, _, _)
Sanitize(e, c, paths) ==
    LET value(n) ==
          LET old == e.of[n]
              deeper(rec) == Record(rec.id, Sanitize(rec.expand, Followed(c, n), Below(paths, Part(n))))
          IN CASE n \in Schemas[c].owners -> IF old = Nil \/ old.id \in readable THEN old ELSE Nil
               [] n \in PlainNames(paths) /\ Followed(c, n) # None -> Nested(old, deeper)
               [] OTHER -> old
    IN  IF e.kind = "fields" THEN Fields([n \in DOMAIN e.of |-> value(n)]) ELSE e

\* The record as the store returns it, and its expand object in the answer of
\* the handlers.
Fetched(i, paths) ==
    LET c == rows[i].col IN Hydrate(Record(i, ExpandSql(i, c, paths)), c, paths, TRUE)
Answer(i, paths) == Sanitize(Fetched(i, paths).expand, rows[i].col, paths)

-----------------------------------------------------------------------------
(* GraphQL.                                                                *)

\* Without a link the loader takes the id in the data; the record has to be
\* of the target collection.
Loaded(i, rel) ==
    LET c == rows[i].col
        stored == {links[k].to : k \in {k \in DOMAIN links : links[k].from = i /\ links[k].rel = rel}}
        ids == IF stored = {} THEN {rows[i].refs[rel]} \ {None} ELSE stored
    IN  {j \in ids \cap DOMAIN rows : rows[j].col = RelationsOf(c)[rel].target}

\* The reverse field lists the records whose data have the id of their parent.
ListedBack(i, n, rel) ==
    {j \in DOMAIN rows : rows[j].col = n /\ rel \in DOMAIN rows[j].refs /\ rows[j].refs[rel] = i}

-----------------------------------------------------------------------------
(* Properties.                                                             *)

\* What sync_relations makes of the data: one link for each reference.
Reference(i, rel) ==
    [from |-> i, rel |-> rel, to |-> rows[i].refs[rel], toCol |-> RelationsOf(rows[i].col)[rel].target]
References ==
    {Reference(ir[1], ir[2]) : ir \in {ir \in {<<i, rel>> : i \in DOMAIN rows, rel \in UNION {DOMAIN rows[j].refs : j \in DOMAIN rows}} :
                                  ir[2] \in DOMAIN rows[ir[1]].refs /\ rows[ir[1]].refs[ir[2]] # None}}
Synced == ToSet(links) = References /\ Len(links) = Cardinality(References)

\* Every reference is to a record of the collection that its relation names.
Proper == \A l \in References : l.to \in DOMAIN rows => rows[l.to].col = l.toCol

Unpaged(paths) == \A path \in paths : \A n \in DOMAIN path : path[n].limit = None

RECURSIVE Wanted(_, _, _, _)
\* The answer in one walk: owners by policy, relations by the data.
Wanted(i, c, paths, top) ==
    LET owners == {f \in Names(paths) \cap Schemas[c].owners : OwnerIn(i, f) \in Users}
        others == Names(paths) \ Schemas[c].owners
        next(n) == Below(paths, KeyOf(paths, n))
        one(S, n, t) == IF S = {} THEN Nil ELSE LET j == First(S) IN Record(j, Wanted(j, t, next(n), FALSE))
        value(n) ==
            CASE n \in owners -> IF OwnerIn(i, n) \in readable THEN Profile(OwnerIn(i, n)) ELSE Nil
              [] n \in DOMAIN RelationsOf(c) ->
                    one({rows[i].refs[n]} \cap DOMAIN rows, n, RelationsOf(c)[n].target)
              [] n \in DOMAIN Schemas /\ Back(n, c) # {} ->
                    LET rel == via[<<n, c>>]  ids == ListedBack(i, n, rel)
                    IN  IF RelationsOf(n)[rel].many
                          THEN LET s == Ascending(ids)
                               IN List([m \in DOMAIN s |-> Record(s[m], Wanted(s[m], n, next(n), FALSE))])
                          ELSE one(ids, n, n)
              [] n \in DOMAIN Schemas -> Nil
              [] OTHER -> Failure
    IN  IF others \cup owners = {} /\ ~(top /\ Names(paths) \cap Schemas[c].owners # {}) THEN Nil
        ELSE Fields([n \in others \cup owners |-> value(n)])

\* AsRequested: the three walks together give every record and every profile
\* that the paths ask for, and no other, however deep and in whichever direction
\* (docs/v0_1_0/records-relations-api.md:58 and 68), but for lists with a page.
AsRequested ==
    Synced /\ Proper /\ Unpaged(request) =>
        \A i \in DOMAIN rows : Answer(i, request) = Wanted(i, rows[i].col, request, TRUE)

RECURSIVE Profiles(_)
Profiles(v) ==
    CASE v.kind = "user" -> {v.id}
      [] v.kind = "record" -> Profiles(v.expand)
      [] v.kind = "list" -> UNION {Profiles(v.items[m]) : m \in DOMAIN v.items}
      [] v.kind = "fields" -> UNION {Profiles(v.of[n]) : n \in DOMAIN v.of}
      [] OTHER -> {}

\* ProfilesRead: whatever the links and the paths, an answer has no profile that
\* the policy of the users keeps from the viewer (docs/v0_1_0/policies-refined.md:99).
ProfilesRead == \A i \in DOMAIN rows : Profiles(Answer(i, request)) \subseteq readable

Ids(v) ==
    CASE v.kind = "record" -> {v.id}
      [] v.kind = "list" -> {v.items[m].id : m \in DOMAIN v.items}
      [] OTHER -> {}

\* RelatedAlike: REST, which reads the links, and GraphQL, which reads the data
\* in one direction, give the same related records while links follow the data.
RelatedAlike ==
    Synced /\ Proper => \A i \in DOMAIN rows :
        LET c == rows[i].col
        IN  /\ \A rel \in DOMAIN RelationsOf(c) : Ids(Related(i, c, Part(rel), {})) = Loaded(i, rel)
            /\ \A n \in DOMAIN Schemas : Back(n, c) # {} =>
                  LET rel == via[<<n, c>>]  found == Ids(Related(i, c, Part(n), {}))
                  IN  IF RelationsOf(n)[rel].many THEN found = ListedBack(i, n, rel)
                      ELSE found \subseteq ListedBack(i, n, rel) /\ (found = {} <=> ListedBack(i, n, rel) = {})
=============================================================================
