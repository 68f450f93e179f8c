---------------------------- MODULE RecordStore ----------------------------
(***************************************************************************)
(* create_record, import_record, update_record and delete_record of        *)
(* apexkit-core/src/database/sqlite/connections/records.rs, with the       *)
(* tables that follow the records: `_unique_values` (one value of a unique *)
(* field per row, PRIMARY KEY on the value) and `_relations` (one link per *)
(* row).  A call is a sequence of reads under the connection mutex and of  *)
(* single statements given to the WriteManager; each statement is atomic   *)
(* (WriteLog), the call is not.                                            *)
(*                                                                         *)
(* One collection with a unique field `val` and a relation `ref` to the    *)
(* collection itself with cascade_on_target_delete: record ids are unique  *)
(* over all collections, so cascades between collections have this form.   *)
(***************************************************************************)
EXTENDS Naturals, FiniteSets

CONSTANTS
    Calls,       \* identities of the calls that clients make
    Requests,    \* Requests[c]: what call c may ask for
    Vals,        \* values of the unique field
    MaxId,       \* bound on the ids AUTOINCREMENT hands out
    Initial,     \* Initial[i]: the record with id i at the start, or None; no two
                 \* share a value, and none refers to a record that is not there
    LastId,      \* the last id handed out before the start
    MaxActive,   \* number of calls in progress at once
    Faulty,      \* a statement may fail (database locked, failed commit)
    None

Ids == 1..MaxId
NoRef == 0
Null == None
Data == [val : Vals \cup {Null}, ref : Ids \cup {NoRef}]
Request ==
    [kind : {"create"}, data : Data] \cup
    [kind : {"import"}, id : Ids, data : Data] \cup
    [kind : {"update"}, id : Ids, field : {"val"}, to : Vals \cup {Null}] \cup
    [kind : {"update"}, id : Ids, field : {"ref"}, to : Ids \cup {NoRef}] \cup
    [kind : {"delete"}, id : Ids]

ASSUME ConstantsAssumption ==
    /\ MaxId \in Nat /\ LastId \in 0..MaxId
    /\ MaxActive \in Nat \ {0}
    /\ Faulty \in BOOLEAN
    /\ None \notin Vals \cup Data \cup {"ok", "err"}
    /\ Requests \in [Calls -> SUBSET Request]
    /\ Initial \in [Ids -> Data \cup {None}]
    /\ \A i \in Ids : Initial[i] # None => i =< LastId
    /\ \A i, j \in Ids :
          /\ Initial[i] # None /\ Initial[j] # None
          /\ i # j /\ Initial[i].val # Null
          => Initial[i].val # Initial[j].val
    /\ \A i \in Ids :
          Initial[i] # None /\ Initial[i].ref # NoRef => Initial[Initial[i].ref] # None

VARIABLES
    records,    \* the table `records`
    uniq,       \* the table `_unique_values`: value -> record id
    links,      \* the table `_relations`: <<origin, target>>
    lastId,     \* sqlite_sequence of `records`
    call        \* the state of every call

vars == <<records, uniq, links, lastId, call>>

Steps == {"idle", "read", "check", "write", "join", "drain", "scan", "purge", "done"}
Idle == [req |-> None, step |-> "idle", id |-> 0, data |-> None,
         uq |-> "end", rl |-> "end", todo |-> {}, seen |-> {}, del |-> "end",
         res |-> None]

Active == {c \in Calls : call[c].step \notin {"idle", "done"}}
\* All calls are over, and nothing they sent is still in the channel.
Quiet == Active = {}

Exists(i) == i \in Ids /\ records[i] # None
LinksOf(recs) == {l \in Ids \X Ids : recs[l[1]] # None /\ recs[l[1]].ref = l[2]}

Init ==
    /\ records = Initial
    /\ uniq = [v \in Vals |-> IF \E i \in Ids : Initial[i] # None /\ Initial[i].val = v
                                THEN CHOOSE i \in Ids : Initial[i] # None /\ Initial[i].val = v
                                ELSE 0]
    /\ links = LinksOf(Initial)
    /\ lastId = LastId
    /\ call = [c \in Calls |-> Idle]

At(c, steps) == call[c].step \in steps
Req(c) == call[c].req

\* The call is over and its caller is told v.
Return(c, v) == call' = [call EXCEPT ![c].step = "done", ![c].res = v]

Start(c) ==
    /\ At(c, {"idle"})
    /\ Cardinality(Active) < MaxActive
    /\ \E r \in Requests[c] :
          call' = [call EXCEPT ![c] = [Idle EXCEPT
              !.req = r,
              !.step = CASE r.kind \in {"create", "import"} -> "check"
                         [] r.kind = "update" -> "read"
                         [] r.kind = "delete" -> "scan",
              !.id   = IF r.kind = "create" THEN 0 ELSE r.id,
              !.data = IF r.kind \in {"create", "import"} THEN r.data ELSE None,
              !.todo = IF r.kind = "delete" THEN {r.id} ELSE {}]]
    /\ UNCHANGED <<records, uniq, links, lastId>>

-----------------------------------------------------------------------------
(* update_record: read the record and merge the fields of the request.     *)

ReadExisting(c) ==
    /\ At(c, {"read"})
    /\ IF Exists(call[c].id)
         THEN call' = [call EXCEPT ![c].step = "check",
                          ![c].data = [records[call[c].id] EXCEPT ![Req(c).field] = Req(c).to]]
         ELSE Return(c, "err")
    /\ UNCHANGED <<records, uniq, links, lastId>>

(* create_record and update_record.                                        *)

\* Mutant: only creations are checked.
MutConflict(c) ==
    /\ Req(c).kind = "create"
    /\ call[c].data.val # Null
    /\ uniq[call[c].data.val] # 0
\* enforce_uniqueness: another record has the value.
Conflict(c) ==
    /\ call[c].data.val # Null
    /\ uniq[call[c].data.val] \notin {0, call[c].id}

CheckUnique(c) ==
    /\ At(c, {"check"})
    /\ IF Conflict(c) THEN Return(c, "err")
                      ELSE call' = [call EXCEPT ![c].step = "write"]
    /\ UNCHANGED <<records, uniq, links, lastId>>

\* Mutant: an imported id does not reach sqlite_sequence.
MutLastIdWith(i) == lastId
\* sqlite_sequence after a row with id i was inserted.
LastIdWith(i) == IF i > lastId THEN i ELSE lastId

\* AUTOINCREMENT never hands out an id twice.
FreshId == lastId + 1

InsertRecord(c) ==
    /\ At(c, {"write"})
    /\ Req(c).kind = "create"
    /\ lastId < MaxId
    /\ lastId' = LastIdWith(FreshId)
    /\ records' = [records EXCEPT ![FreshId] = call[c].data]
    /\ call' = [call EXCEPT ![c].step = "join", ![c].id = FreshId,
                            ![c].uq = "clear", ![c].rl = "clear"]
    /\ UNCHANGED <<uniq, links>>

\* import_record keeps the id; the primary key refuses one that is taken.
ImportRecord(c) ==
    /\ At(c, {"write"})
    /\ Req(c).kind = "import"
    /\ IF Exists(call[c].id)
         THEN /\ Return(c, "err")
              /\ UNCHANGED <<records, lastId>>
         ELSE /\ records' = [records EXCEPT ![call[c].id] = call[c].data]
              /\ lastId' = LastIdWith(call[c].id)
              /\ call' = [call EXCEPT ![c].step = "join", ![c].uq = "clear",
                                      ![c].rl = "clear"]
    /\ UNCHANGED <<uniq, links>>

\* An UPDATE that finds no row is not an error.
UpdateRecord(c) ==
    /\ At(c, {"write"})
    /\ Req(c).kind = "update"
    /\ records' = IF Exists(call[c].id)
                    THEN [records EXCEPT ![call[c].id] = call[c].data]
                    ELSE records
    /\ call' = [call EXCEPT ![c].step = "join", ![c].uq = "clear", ![c].rl = "clear"]
    /\ UNCHANGED <<uniq, links, lastId>>

WriteFails(c) ==
    /\ Faulty
    /\ At(c, {"write"})
    /\ Return(c, "err")
    /\ UNCHANGED <<records, uniq, links, lastId>>

-----------------------------------------------------------------------------
(* try_join!(commit_uniqueness, sync_relations): two futures, one statement *)
(* at a time each.  "drain": one of them has failed, the call has returned, *)
(* and the statement the other has in the channel is still executed.        *)

AfterStatement(c) == IF At(c, {"drain"}) THEN "done" ELSE "join"

\* Mutant: the id does not match the column's type.
MutUniqueWithout(i) == uniq
\* DELETE FROM _unique_values WHERE record_id = i
UniqueWithout(i) == [v \in Vals |-> IF uniq[v] = i THEN 0 ELSE uniq[v]]

ClearUnique(c) ==
    /\ At(c, {"join", "drain"})
    /\ call[c].uq = "clear"
    /\ uniq' = UniqueWithout(call[c].id)
    /\ call' = [call EXCEPT ![c].step = AfterStatement(c),
                            ![c].uq = IF call[c].data.val = Null THEN "end" ELSE "put"]
    /\ UNCHANGED <<records, links, lastId>>

\* Mutant: INSERT OR REPLACE.
MutTaken(c) == FALSE
\* The primary key of _unique_values refuses the value.
Taken(c) == uniq[call[c].data.val] # 0

\* INSERT INTO _unique_values
PutUnique(c) ==
    /\ At(c, {"join", "drain"})
    /\ call[c].uq = "put"
    /\ ~Taken(c)
    /\ uniq' = [uniq EXCEPT ![call[c].data.val] = call[c].id]
    /\ call' = [call EXCEPT ![c].step = AfterStatement(c), ![c].uq = "end"]
    /\ UNCHANGED <<records, links, lastId>>

\* DELETE FROM _relations WHERE origin_rec_id = id AND rel_name = ref
ClearLinks(c) ==
    /\ At(c, {"join", "drain"})
    /\ call[c].rl = "clear"
    /\ links' = {l \in links : l[1] # call[c].id}
    /\ call' = [call EXCEPT ![c].step = AfterStatement(c),
                            ![c].rl = IF call[c].data.ref = NoRef THEN "end" ELSE "put"]
    /\ UNCHANGED <<records, uniq, lastId>>

\* INSERT OR IGNORE INTO _relations
PutLink(c) ==
    /\ At(c, {"join", "drain"})
    /\ call[c].rl = "put"
    /\ links' = links \cup {<<call[c].id, call[c].data.ref>>}
    /\ call' = [call EXCEPT ![c].step = AfterStatement(c), ![c].rl = "end"]
    /\ UNCHANGED <<records, uniq, lastId>>

\* One future fails; the call returns at once.
JoinFails(c) ==
    /\ At(c, {"join"})
    /\ \/ /\ call[c].uq # "end"
          /\ Faulty \/ (call[c].uq = "put" /\ Taken(c))
          /\ call' = [call EXCEPT ![c].res = "err", ![c].uq = "end",
                         ![c].step = IF call[c].rl = "end" THEN "done" ELSE "drain"]
       \/ /\ call[c].rl # "end"
          /\ Faulty
          /\ call' = [call EXCEPT ![c].res = "err", ![c].rl = "end",
                         ![c].step = IF call[c].uq = "end" THEN "done" ELSE "drain"]
    /\ UNCHANGED <<records, uniq, links, lastId>>

\* The other future had no statement in the channel, or it fails too.
DrainEnds(c) ==
    /\ At(c, {"drain"})
    /\ call' = [call EXCEPT ![c].step = "done"]
    /\ UNCHANGED <<records, uniq, links, lastId>>

JoinEnds(c) ==
    /\ At(c, {"join"})
    /\ call[c].uq = "end"
    /\ call[c].rl = "end"
    /\ Return(c, "ok")
    /\ UNCHANGED <<records, uniq, links, lastId>>

-----------------------------------------------------------------------------
(* delete_record: collect the records that refer to the record, directly or *)
(* through others, then delete them one by one.                            *)

\* Mutant: a record is followed again each time it is found.
MutOriginsAgain(c, i) == {o \in Ids : <<o, i>> \in links}
\* Mutant: the cascade stops after one level.
MutOriginsFlat(c, i) ==
    IF i = Req(c).id THEN {o \in Ids : <<o, i>> \in links} ELSE {}
\* The records that refer to i and have not been visited.
Origins(c, i) == {o \in Ids : <<o, i>> \in links} \ (call[c].seen \cup {i})

\* `to_delete` is a stack in the code; the order of the visits is left open.
Scan(c) ==
    /\ At(c, {"scan"})
    /\ \E i \in call[c].todo :
          call' = [call EXCEPT ![c].seen = @ \cup {i},
                               ![c].todo = (@ \ {i}) \cup Origins(c, i)]
    /\ UNCHANGED <<records, uniq, links, lastId>>

ScanEnds(c) ==
    /\ At(c, {"scan"})
    /\ call[c].todo = {}
    /\ call' = [call EXCEPT ![c].step = "purge", ![c].todo = call[c].seen,
                            ![c].del = "next"]
    /\ UNCHANGED <<records, uniq, links, lastId>>

\* The next record of `visited` (a HashSet: in any order).  Its four
\* statements enter the channel together, so all four are executed.
PurgeNext(c) ==
    /\ At(c, {"purge"})
    /\ call[c].del = "next"
    /\ call[c].res # "err"
    /\ \E i \in call[c].todo :
          call' = [call EXCEPT ![c].id = i, ![c].todo = @ \ {i}, ![c].del = "record"]
    /\ UNCHANGED <<records, uniq, links, lastId>>

PurgeRecord(c) ==
    /\ At(c, {"purge"})
    /\ call[c].del = "record"
    /\ records' = [records EXCEPT ![call[c].id] = None]
    /\ call' = [call EXCEPT ![c].del = "unique"]
    /\ UNCHANGED <<uniq, links, lastId>>

PurgeUnique(c) ==
    /\ At(c, {"purge"})
    /\ call[c].del = "unique"
    /\ uniq' = UniqueWithout(call[c].id)
    /\ call' = [call EXCEPT ![c].del = "from"]
    /\ UNCHANGED <<records, links, lastId>>

PurgeLinksFrom(c) ==
    /\ At(c, {"purge"})
    /\ call[c].del = "from"
    /\ links' = {l \in links : l[1] # call[c].id}
    /\ call' = [call EXCEPT ![c].del = "to"]
    /\ UNCHANGED <<records, uniq, lastId>>

PurgeLinksTo(c) ==
    /\ At(c, {"purge"})
    /\ call[c].del = "to"
    /\ links' = {l \in links : l[2] # call[c].id}
    /\ call' = [call EXCEPT ![c].del = "next"]
    /\ UNCHANGED <<records, uniq, lastId>>

\* One of the four statements fails; the others are executed all the same.
PurgeFails(c) ==
    /\ Faulty
    /\ At(c, {"purge"})
    /\ call[c].del # "next"
    /\ call' = [call EXCEPT ![c].res = "err",
                   ![c].del = CASE @ = "record" -> "unique" [] @ = "unique" -> "from"
                                [] @ = "from" -> "to"       [] @ = "to" -> "next"]
    /\ UNCHANGED <<records, uniq, links, lastId>>

PurgeEnds(c) ==
    /\ At(c, {"purge"})
    /\ call[c].del = "next"
    /\ call[c].todo = {} \/ call[c].res = "err"
    /\ Return(c, IF call[c].res = "err" THEN "err" ELSE "ok")
    /\ UNCHANGED <<records, uniq, links, lastId>>

-----------------------------------------------------------------------------
Create(c) == InsertRecord(c) \/ ImportRecord(c)
Update(c) == ReadExisting(c) \/ UpdateRecord(c)
Join(c) == \/ ClearUnique(c) \/ PutUnique(c) \/ ClearLinks(c) \/ PutLink(c)
           \/ JoinFails(c) \/ DrainEnds(c) \/ JoinEnds(c)
Delete(c) == \/ Scan(c) \/ ScanEnds(c) \/ PurgeNext(c) \/ PurgeRecord(c)
             \/ PurgeUnique(c) \/ PurgeLinksFrom(c) \/ PurgeLinksTo(c)
             \/ PurgeFails(c) \/ PurgeEnds(c)
Step(c) == Create(c) \/ Update(c) \/ CheckUnique(c) \/ WriteFails(c) \/ Join(c) \/ Delete(c)

Next == \E c \in Calls : Start(c) \/ Step(c)

Spec == Init /\ [][Next]_vars

\* The WriteManager answers every statement (CallsAnswered of WriteManager).
FairSpec == Spec /\ \A c \in Calls : WF_vars(Step(c))

-----------------------------------------------------------------------------
CallState ==
    [req : Request \cup {None}, step : Steps, id : 0..MaxId, data : Data \cup {None},
     uq : {"clear", "put", "end"}, rl : {"clear", "put", "end"},
     todo : SUBSET Ids, seen : SUBSET Ids,
     del : {"next", "record", "unique", "from", "to", "end"}, res : {None, "ok", "err"}]

TypeOK ==
    /\ records \in [Ids -> Data \cup {None}]
    /\ uniq \in [Vals -> Ids \cup {0}]
    /\ links \subseteq Ids \X Ids
    /\ lastId \in 0..MaxId
    /\ \A i \in Ids : records[i] # None => i =< lastId
    /\ call \in [Calls -> CallState]

\* IndexExact: between calls, `_unique_values` and `_relations` say what the
\* records say, whatever the sequence of creates, updates and cascading
\* deletes (commit_uniqueness and sync_relations rewrite them each time).
IndexExact ==
    Quiet => /\ \A v \in Vals, i \in Ids :
                   uniq[v] = i <=> records[i] # None /\ records[i].val = v
             /\ links = LinksOf(records)

\* Call c asked for an update or a delete of record i, or its cascade found i.
Touched(c, i) ==
    \/ call[c].step # "idle" /\ Req(c).kind # "create" /\ Req(c).id = i
    \/ i \in call[c].seen

\* The creation of record i was acknowledged and nothing else was asked of it.
Created(i) ==
    /\ Exists(i)
    /\ \/ Initial[i] # None
       \/ \E c \in Calls : /\ At(c, {"done"})
                           /\ call[c].id = i
                           /\ call[c].res = "ok"
                           /\ Req(c).kind = "create"
    /\ \A c \in Calls : ~Touched(c, i)

\* AckedUnique: two records whose creation was acknowledged and that no call
\* has updated differ in the unique field, although the check of a creation
\* and its entry in the index are separate statements.
AckedUnique ==
    \A i, j \in Ids :
        /\ Created(i) /\ Created(j)
        /\ i # j /\ records[i].val # Null
        => records[i].val # records[j].val

\* NoDangling: when concurrent cascades are over, none has failed and no other
\* call wrote a reference meanwhile, no record refers to a deleted record: two
\* cascades that meet, or run through a cycle, leave nothing to each other.
NoDangling ==
    /\ Quiet
    /\ \A c \in Calls : /\ call[c].res = "err" => Req(c).kind # "delete"
                        /\ call[c].data # None => call[c].data.ref = NoRef
    => \A i \in Ids : Exists(i) /\ records[i].ref # NoRef => Exists(records[i].ref)

\* ConcurrentSafe: what calls at the same time keep. Acknowledged creations never
\* share a value of the unique field, and cascades that meet leave no reference
\* to a record that one of them deleted.
ConcurrentSafe == AckedUnique /\ NoDangling

\* CallsReturn: every call ends, also a cascade through a cycle of references.
CallsReturn == \A c \in Calls : At(c, {"read", "scan", "check"}) ~> At(c, {"done"})

\* UniqueValues: between calls, no two records have the same value of a unique
\* field (docs/v0_1_0/schema_fields.md:50).
UniqueValues ==
    Quiet => \A i, j \in Ids :
        Exists(i) /\ Exists(j) /\ i # j /\ records[i].val # Null
            => records[i].val # records[j].val
=============================================================================
