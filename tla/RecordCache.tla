---------------------------- MODULE RecordCache ----------------------------
(***************************************************************************)
(* The record cache: CachedDb (apexkit-core/src/database/cache.rs), through*)
(* which every handler of api/data/records.rs reads and writes records.    *)
(*                                                                         *)
(* A read that misses reads the row and inserts it in a later step; a write*)
(* commits first and invalidates in a later step.  Nothing orders the two, *)
(* an entry lives until its time-to-live ends.  The cache of a master and  *)
(* that of a replica are the same code: on a replica a write commits on the*)
(* master, and the row changes when the changeset arrives, which drops the *)
(* whole cache (lib.rs).                                                   *)
(*                                                                         *)
(* A row's content is the number of the write that made it.  The collection*)
(* cache and the template cache are filled and invalidated alike.          *)
(***************************************************************************)
EXTENDS Naturals, Sequences, FiniteSetsExt

CONSTANTS
    Clients,    \* request handlers that run at a time
    Ops,        \* Ops[c]: the requests that handler c gets: subset of AllOps
    Ids,        \* the records of one collection
    MaxWrites,  \* bound on updates and imports
    Cascade,    \* Cascade[i]: the records that a delete of i takes along
    Replicas,   \* subset of BOOLEAN: whether the server may be a replica
    Faults,     \* subset of FaultKinds
    None

AllOps == {"get", "update", "delete", "import"}

\* sql    - a statement of a write is refused (locked database)
\* reload - a connection cannot be opened again after a changeset
FaultKinds == {"sql", "reload"}

ASSUME ConstantsAssumption ==
    /\ MaxWrites \in Nat
    /\ Ops \in [Clients -> SUBSET AllOps]
    /\ Cascade \in [Ids -> SUBSET Ids]
    /\ Replicas \subseteq BOOLEAN
    /\ Faults \subseteq FaultKinds
    /\ None \notin Nat

VARIABLES
    replica,    \* APEXKIT_MASTER_URL is set
    rows,       \* content of each row in the local file, None when absent
    stream,     \* replica: changes committed on the master, not yet applied
    applied,    \* replica: a change is applied, the caches not yet dropped
    writes,     \* number of updates and imports so far
    call,       \* what each handler is doing
    cache,      \* record_cache
    late        \* history: entries for which a known hole let in an old row

server == <<replica, call, cache>>
file == <<rows, stream, applied, writes>>
vars == <<server, file, late>>

Contents == 0..MaxWrites
Versions == Contents \cup {None}
Steps == {"idle", "lookup", "fill", "check", "write", "rest", "invalidate"}
NoCall == [step |-> "idle", op |-> "get", id |-> None, seen |-> None, todo |-> {}]

Init ==
    /\ replica \in Replicas
    /\ rows = [i \in Ids |-> 0]
    /\ stream = <<>>
    /\ applied = FALSE
    /\ writes = 0
    /\ call = [c \in Clients |-> NoCall]
    /\ cache = [i \in Ids |-> None]
    /\ late = {}

-----------------------------------------------------------------------------
(* The lookup.                                                             *)

At(c, step) == call[c].step = step
Goto(c, step) == call' = [call EXCEPT ![c].step = step]
Return(c) == call' = [call EXCEPT ![c] = NoCall]

Begin(c, op, i) ==
    /\ At(c, "idle")
    /\ op \in Ops[c]
    /\ call' = [call EXCEPT ![c] =
          [NoCall EXCEPT !.step = IF op = "import" THEN "write" ELSE "lookup",
                         !.op = op, !.id = i]]
    /\ UNCHANGED <<replica, cache, file, late>>

\* The handler goes on with the record it has looked up; a delete collects the
\* records that refer to it.
Found(c) ==
    \/ /\ call[c].op = "get"
       /\ Return(c)
    \/ /\ call[c].op = "update"
       /\ call' = [call EXCEPT ![c].step = "check", ![c].seen = None]
    \/ /\ call[c].op = "delete"
       /\ call' = [call EXCEPT ![c].step = "write", ![c].seen = None,
                               ![c].todo = {call[c].id} \cup Cascade[call[c].id]]

LookupHit(c) ==
    /\ At(c, "lookup")
    /\ cache[call[c].id] # None
    /\ Found(c)
    /\ UNCHANGED <<replica, cache, file, late>>

\* A record that does not exist is not cached: 404.
LookupMiss(c) ==
    /\ At(c, "lookup")
    /\ cache[call[c].id] = None
    /\ IF rows[call[c].id] = None
         THEN Return(c)
         ELSE call' = [call EXCEPT ![c].step = "fill",
                                   ![c].seen = rows[call[c].id]]
    /\ UNCHANGED <<replica, cache, file, late>>

\* The entry can arrive after the row has changed and been invalidated.
Fill(c) ==
    LET i == call[c].id IN
    /\ At(c, "fill")
    /\ cache' = [cache EXCEPT ![i] = call[c].seen]
    /\ late' = IF call[c].seen = rows[i] THEN late \ {i} ELSE late \cup {i}
    /\ Found(c)
    /\ UNCHANGED <<replica, file>>

-----------------------------------------------------------------------------
(* The writes.                                                             *)

\* Mutant: a master forwards its writes too.
MutCommit(i, v) ==
    /\ stream' = Append(stream, [id |-> i, content |-> v])
    /\ rows' = rows
\* A statement on row i is committed: on a replica, on the master.
Commit(i, v) ==
    IF replica
      THEN /\ stream' = Append(stream, [id |-> i, content |-> v])
           /\ rows' = rows
      ELSE /\ rows' = [rows EXCEPT ![i] = v]
           /\ stream' = stream

\* The row as the statement finds it.
Committed(i) ==
    LET ks == {k \in DOMAIN stream : stream[k].id = i} IN
    IF ks = {} THEN rows[i] ELSE stream[Max(ks)].content

\* update_record reads the row itself ("Record not found") and checks the new
\* data against the schema and the unique values.
Check(c) ==
    /\ At(c, "check")
    /\ \/ Return(c)
       \/ rows[call[c].id] # None /\ Goto(c, "write")
    /\ UNCHANGED <<replica, cache, file, late>>

\* UPDATE ... WHERE id = ?: nothing happens to a row deleted meanwhile.
Update(c) ==
    LET i == call[c].id IN
    /\ At(c, "write") /\ call[c].op = "update"
    /\ writes < MaxWrites
    /\ writes' = writes + 1
    /\ IF Committed(i) = None THEN UNCHANGED <<rows, stream>> ELSE Commit(i, writes')
    /\ Goto(c, "rest")
    /\ UNCHANGED <<replica, cache, applied, late>>

\* INSERT with an id of its own.
Import(c) ==
    LET i == call[c].id IN
    /\ At(c, "write") /\ call[c].op = "import"
    /\ writes < MaxWrites
    /\ Committed(i) = None
    /\ writes' = writes + 1
    /\ Commit(i, writes')
    /\ Goto(c, "rest")
    /\ UNCHANGED <<replica, cache, applied, late>>

\* The records that the cascade takes along are deleted one after the other,
\* in any order; nobody invalidates their entries.
Delete(c, i) ==
    /\ At(c, "write") /\ call[c].op = "delete"
    /\ i \in call[c].todo
    /\ IF Committed(i) = None THEN UNCHANGED <<rows, stream>> ELSE Commit(i, None)
    /\ late' = IF i = call[c].id \/ rows' = rows \/ cache[i] = None
                 THEN late ELSE late \cup {i}
    /\ call' = [call EXCEPT ![c].step = "rest", ![c].todo = call[c].todo \ {i}]
    /\ UNCHANGED <<replica, cache, applied, writes>>

\* Mutant: an update returns before it invalidates.
MutAfterRest(c) ==
    IF call[c].op = "update" THEN Return(c)
    ELSE Goto(c, IF call[c].todo = {} THEN "invalidate" ELSE "write")
\* The other statements of the write have been committed too.
AfterRest(c) == Goto(c, IF call[c].todo = {} THEN "invalidate" ELSE "write")

Rest(c) ==
    /\ At(c, "rest")
    /\ AfterRest(c)
    /\ UNCHANGED <<replica, cache, file, late>>

\* A statement is refused, or an import finds its id taken: only an import
\* invalidates all the same.  What has been committed stays.
Refused(c) ==
    LET i == call[c].id IN
    /\ \/ "sql" \in Faults /\ (At(c, "write") \/ At(c, "rest"))
       \/ At(c, "write") /\ call[c].op = "import" /\ Committed(i) # None
    /\ IF call[c].op = "import" THEN Goto(c, "invalidate") ELSE Return(c)
    /\ late' = IF cache[i] \in {None, rows[i]} THEN late ELSE late \cup {i}
    /\ UNCHANGED <<replica, cache, file>>

Invalidate(c) ==
    /\ At(c, "invalidate")
    /\ cache' = [cache EXCEPT ![call[c].id] = None]
    /\ late' = late \ {call[c].id}
    /\ Return(c)
    /\ UNCHANGED <<replica, file>>

\* Mutant: entries live for ever.
MutExpired(i) == FALSE
\* time_to_live counts from the insertion.
Expired(i) == cache[i] # None

Expire(i) ==
    /\ Expired(i)
    /\ cache' = [cache EXCEPT ![i] = None]
    /\ late' = late \ {i}
    /\ UNCHANGED <<replica, call, file>>

-----------------------------------------------------------------------------
(* The task of a replica that applies changesets.                          *)

\* A write on the master by another of its clients.
Foreign(i) ==
    /\ replica
    /\ writes < MaxWrites
    /\ writes' = writes + 1
    /\ Commit(i, writes')
    /\ UNCHANGED <<server, applied, late>>

Apply ==
    /\ stream # <<>> /\ ~applied
    /\ rows' = [rows EXCEPT ![Head(stream).id] = Head(stream).content]
    /\ stream' = Tail(stream)
    /\ applied' = TRUE
    /\ UNCHANGED <<server, writes, late>>

\* reload_connections drops the caches last: not at all after an error.
Reload ==
    /\ applied
    /\ applied' = FALSE
    /\ \/ /\ cache' = [i \in Ids |-> None]
          /\ late' = {}
       \/ /\ "reload" \in Faults
          /\ cache' = cache
          /\ late' = {i \in Ids : cache[i] \notin {None, rows[i]}}
    /\ UNCHANGED <<replica, call, rows, stream, writes>>

-----------------------------------------------------------------------------
Handler(c) ==
    \/ LookupHit(c) \/ LookupMiss(c) \/ Fill(c) \/ Check(c)
    \/ Update(c) \/ Import(c) \/ Rest(c) \/ Refused(c) \/ Invalidate(c)
    \/ \E i \in Ids : Delete(c, i)

Next ==
    \/ \E c \in Clients, op \in AllOps, i \in Ids : Begin(c, op, i)
    \/ \E c \in Clients : Handler(c)
    \/ \E i \in Ids : Expire(i) \/ Foreign(i)
    \/ Apply \/ Reload

Spec == Init /\ [][Next]_vars

\* Time passes, and an entry that stays in the cache expires.  Nothing else
\* has to happen.
FairSpec == Spec /\ \A i \in Ids : WF_vars(Expire(i))

-----------------------------------------------------------------------------
Calls == [step : Steps, op : AllOps, id : Ids \cup {None},
          seen : Versions, todo : SUBSET Ids]
Changes == [id : Ids, content : Versions]

\* The handlers: only an idle one has no record.
CallOK ==
    /\ call \in [Clients -> Calls]
    /\ \A c \in Clients : call[c].step # "idle" => call[c].id \in Ids

\* The rows, as the file, the cache and the changesets on their way hold them.
RowsOK ==
    /\ rows \in [Ids -> Versions] /\ cache \in [Ids -> Versions]
    /\ stream \in Seq(Changes)
    /\ writes \in Contents
    /\ late \subseteq Ids

\* Only a replica has changesets to apply.
ReplicaOK ==
    /\ replica \in BOOLEAN /\ applied \in BOOLEAN
    /\ stream # <<>> \/ applied => replica

TypeOK == CallOK /\ RowsOK /\ ReplicaOK

\* The write of a handler on i may be committed and its entry not yet removed.
Writing(i) ==
    \E c \in Clients : /\ call[c].id = i
                       /\ call[c].step \in {"write", "rest", "invalidate"}

\* CacheExplained: an entry that differs from its row belongs to a write whose
\* handler is about to remove it, or to a changeset whose caches are about to
\* be dropped, or is one of the known cases: a fill that arrived late, a write
\* that failed half way, a record taken along by a cascade, a failed reload.
\* No other path leaves an old record in the cache.
CacheExplained ==
    \A i \in Ids :
        cache[i] \notin {None, rows[i]} => i \in late \/ Writing(i) \/ applied

\* EventuallyFresh: also in these cases, once the writing stops, readers get
\* the stored record for good: no entry outlives its time.
EventuallyFresh == \A i \in Ids : <>[](cache[i] \in {None, rows[i]})
=============================================================================
