---------------------------- MODULE SearchIndex ----------------------------
(***************************************************************************)
(* The full-text index of one collection: SearchManager                    *)
(* (apexkit-core/src/search/engine.rs) with everything that feeds it.      *)
(*                                                                         *)
(* A creation commits its row and leaves the document to an IndexRecord    *)
(* job of the queue, where each job is a task of its own; a delete removes *)
(* the document itself, after the row; an update leaves it as it is.  The  *)
(* index is rebuilt as a whole when a creation reaches a milestone, by the *)
(* admin's ReindexCollection job, after an import, and when a restart finds*)
(* another number of documents than of records.                            *)
(*                                                                         *)
(* RecordStore has the statements of a write in full; here one commits the *)
(* row and one stands for the rest.  The collection is indexed and has     *)
(* fewer than the 1000 records that make a second batch; opening an index  *)
(* is one step.                                                            *)
(***************************************************************************)
EXTENDS Naturals, FiniteSets

CONSTANTS
    Clients,    \* handlers that create at a time
    Rebuilders, \* bound on the rebuilds that run at a time
    Deletes,    \* the handlers that get delete requests too
    MaxId,      \* bound on the ids AUTOINCREMENT hands out
    Stored,     \* the number of records stored, and indexed, at the start
    MaxBoots,   \* bound on the number of starts of the server
    Base,       \* the number system of the milestones: 10 in the code
    Faults,     \* subset of FaultKinds
    None

\* sql   - a statement of a write is refused (locked database)
\* crash - the server dies and is started again
FaultKinds == {"sql", "crash"}

Ids == 1..MaxId

ConstantsAssumption ==
    /\ Deletes \subseteq Clients
    /\ MaxId \in Nat /\ Stored \in 0..MaxId
    /\ MaxBoots \in Nat \ {0}
    /\ Base \in Nat \ {0, 1}
    /\ Faults \subseteq FaultKinds
    /\ None \notin Nat

VARIABLES
    \* the database file
    rows,       \* ids of the stored records
    lastId,     \* the last id that AUTOINCREMENT has handed out
    boots,      \* number of starts
    \* the server
    call,       \* what each handler is doing
    count,      \* record_count_cache, None when empty
    jobs,       \* records whose IndexRecord job has not run
    rebuild,    \* the tasks in reindex_collection
    \* the index
    handle,     \* the entry in SearchManager.collections
    docs,       \* ids of the documents that searches see
    \* history, read by the properties only
    missed,     \* records the index was not told of, or did not accept
    ghosts      \* deleted records whose document came back or was left

store == <<rows, lastId, boots>>
index == <<handle, docs>>
history == <<missed, ghosts>>
vars == <<store, call, count, jobs, rebuild, index, history>>

Steps == {"idle", "insert", "delete", "rest", "count", "spawn", "job", "unindex"}
NoCall == [step |-> "idle", op |-> "create", id |-> 0, count |-> 0]

Phases == {"idle", "queued", "wipe", "load", "scan", "batch"}
NoRebuild == [phase |-> "idle", snap |-> {}]

\* create_collection has loaded the new, empty index; the records stored since
\* then are in it.
Init ==
    /\ rows = 1..Stored
    /\ lastId = Stored
    /\ boots = 1
    /\ call = [c \in Clients |-> NoCall]
    /\ count = Stored
    /\ jobs = {}
    /\ rebuild = [x \in Rebuilders |-> NoRebuild]
    /\ handle = "open"
    /\ docs = 1..Stored
    /\ missed = {}
    /\ ghosts = {}

At(c, step) == call[c].step = step
Goto(c, step) == call' = [call EXCEPT ![c].step = step]
\* The handler has answered.
Return(c) == call' = [call EXCEPT ![c] = NoCall]

-----------------------------------------------------------------------------
(* create_record                                                           *)

\* Mutant: the rowid is read after another insert.
MutRowId == lastId + 2
\* last_insert_rowid().
RowId == lastId + 1

Insert(c) ==
    /\ At(c, "idle")
    /\ lastId < MaxId
    /\ lastId' = lastId + 1
    /\ rows' = rows \cup {lastId'}
    /\ call' = [call EXCEPT ![c] = [step |-> "rest", op |-> "create",
                                    id |-> RowId, count |-> 0]]
    /\ UNCHANGED <<boots, count, jobs, rebuild, index, history>>

\* The other statements of the write have been committed too.
Rest(c) ==
    /\ At(c, "rest")
    /\ Goto(c, IF call[c].op = "create" THEN "count" ELSE "unindex")
    /\ UNCHANGED <<store, count, jobs, rebuild, index, history>>

\* One of them is refused: the handler ends with an error and the index is
\* not told of what has been committed.
Refused(c) ==
    LET i == call[c].id IN
    /\ "sql" \in Faults
    /\ At(c, "rest")
    /\ Return(c)
    /\ missed' = IF call[c].op = "create" THEN missed \cup {i} ELSE missed
    /\ ghosts' = IF call[c].op = "delete" THEN ghosts \cup {i} ELSE ghosts
    /\ UNCHANGED <<store, count, jobs, rebuild, index>>

\* The cached count and one more, or that of the table.
CountRecords(c) ==
    /\ At(c, "count")
    /\ call' = [call EXCEPT ![c].step = "spawn",
                            ![c].count = IF count = None THEN Cardinality(rows)
                                         ELSE count + 1]
    /\ UNCHANGED <<store, count, jobs, rebuild, index, history>>

\* The first digit of n is followed by zeros only.
Milestone(n) == \E e \in 0..n : Base^e =< n /\ n < Base^(e + 1) /\ n % Base^e = 0

\* A rebuild is queued or spawned.
Start(x) ==
    /\ rebuild[x].phase = "idle"
    /\ rebuild' = [rebuild EXCEPT ![x].phase = "queued"]

StoreCount(c) ==
    /\ At(c, "spawn")
    /\ count' = call[c].count
    /\ IF Milestone(count') THEN \E x \in Rebuilders : Start(x) ELSE rebuild' = rebuild
    /\ Goto(c, "job")
    /\ UNCHANGED <<store, jobs, index, history>>

Enqueue(c) ==
    /\ At(c, "job")
    /\ jobs' = jobs \cup {call[c].id}
    /\ Return(c)
    /\ UNCHANGED <<store, count, rebuild, index, history>>

-----------------------------------------------------------------------------
(* The job.                                                                *)

\* Rebuilds that will still read the records.
Scanning == {x \in Rebuilders : rebuild[x].phase \in {"wipe", "load", "scan"}}

\* Otherwise "Index not loaded", or a commit into a directory that is gone.
Accepts == handle = "open"

\* A refusal is an entry in the log, and the job is over.
RunJob(i) ==
    /\ i \in jobs
    /\ jobs' = jobs \ {i}
    /\ docs' = IF Accepts THEN docs \cup {i} ELSE docs
    /\ missed' = IF Accepts \/ Scanning # {} THEN missed ELSE missed \cup {i}
    /\ ghosts' = IF Accepts /\ i \notin rows THEN ghosts \cup {i} ELSE ghosts
    /\ UNCHANGED <<store, call, count, rebuild, handle>>

-----------------------------------------------------------------------------
(* delete_record                                                           *)

Delete(c, i) ==
    /\ c \in Deletes
    /\ At(c, "idle")
    /\ i \in rows
    /\ rows' = rows \ {i}
    /\ call' = [call EXCEPT ![c] = [step |-> "rest", op |-> "delete",
                                    id |-> i, count |-> 0]]
    /\ UNCHANGED <<lastId, boots, count, jobs, rebuild, index, history>>

\* Mutant: the document is left to a DeleteFromIndex job that nobody sends.
MutWithout(i) == docs
\* search.delete_record, whose failure is ignored.
Without(i) == IF Accepts THEN docs \ {i} ELSE docs

Unindex(c) ==
    /\ At(c, "unindex")
    /\ docs' = Without(call[c].id)
    /\ ghosts' = IF Accepts THEN ghosts \ {call[c].id} ELSE ghosts \cup {call[c].id}
    /\ Return(c)
    /\ UNCHANGED <<store, count, jobs, rebuild, handle, missed>>

-----------------------------------------------------------------------------
(* reindex_collection, and the loading of the index by a search.           *)

\* reindex_collection_handler, and the end of an import.
RequestRebuild(x) ==
    /\ Start(x)
    /\ UNCHANGED <<store, call, count, jobs, index, history>>

Advance(x, phase) == rebuild' = [rebuild EXCEPT ![x].phase = phase]

\* delete_index removes the entry first and the directory afterwards.
Unload(x) ==
    /\ rebuild[x].phase = "queued"
    /\ Advance(x, "wipe")
    /\ handle' = "none"
    /\ UNCHANGED <<store, call, count, jobs, docs, history>>

\* An index that somebody has opened in between loses its files: its searches
\* still see the old segments, and every write to it fails.
Wipe(x) ==
    /\ rebuild[x].phase = "wipe"
    /\ Advance(x, "load")
    /\ IF handle = "none"
         THEN docs' = {} /\ ghosts' = {} /\ handle' = handle
         ELSE handle' = "broken" /\ UNCHANGED <<docs, ghosts>>
    /\ UNCHANGED <<store, call, count, jobs, missed>>

\* load_index: nothing to do when there is an entry.
LoadIndex == handle' = IF handle = "none" THEN "open" ELSE handle

Load(x) ==
    /\ rebuild[x].phase = "load"
    /\ Advance(x, "scan")
    /\ LoadIndex
    /\ UNCHANGED <<store, call, count, jobs, docs, history>>

Scan(x) ==
    /\ rebuild[x].phase = "scan"
    /\ rebuild' = [rebuild EXCEPT ![x] = [phase |-> "batch", snap |-> rows]]
    /\ UNCHANGED <<store, call, count, jobs, index, history>>

Batch(x) ==
    LET snap == rebuild[x].snap IN
    /\ rebuild[x].phase = "batch"
    /\ rebuild' = [rebuild EXCEPT ![x] = NoRebuild]
    /\ IF Accepts
         THEN /\ docs' = docs \cup snap
              /\ missed' = missed \ snap
              /\ ghosts' = ghosts \cup (snap \ rows)
         ELSE UNCHANGED <<docs, history>>
    /\ UNCHANGED <<store, call, count, jobs, handle>>

\* instant_search loads the index it needs.
Search ==
    /\ handle = "none"
    /\ LoadIndex
    /\ UNCHANGED <<store, call, count, jobs, rebuild, docs, history>>

-----------------------------------------------------------------------------
\* Mutant: only an empty index is rebuilt.
MutMismatch(inDb, inIndex) == inIndex = 0
\* recover_indexes compares numbers only.
Mismatch(inDb, inIndex) == inDb # inIndex

\* The server dies; recover_indexes runs before it serves again.  It passes
\* over an empty collection, whose index is not loaded.
Restart ==
    LET onDisk == IF handle = "broken" THEN {} ELSE docs
        repair == Mismatch(Cardinality(rows), Cardinality(onDisk))
    IN
    /\ "crash" \in Faults
    /\ boots < MaxBoots
    /\ boots' = boots + 1
    /\ call' = [c \in Clients |-> NoCall]
    /\ count' = None
    /\ jobs' = {}
    /\ rebuild' = [x \in Rebuilders |-> NoRebuild]
    /\ handle' = IF rows = {} THEN "none" ELSE "open"
    /\ docs' = IF rows # {} /\ repair THEN rows ELSE onDisk
    /\ missed' = IF onDisk \subseteq rows THEN {} ELSE rows
    /\ ghosts' = onDisk \ rows
    /\ UNCHANGED <<rows, lastId>>

-----------------------------------------------------------------------------
Handler(c) ==
    \/ Insert(c) \/ Rest(c) \/ Refused(c) \/ CountRecords(c) \/ StoreCount(c)
    \/ Enqueue(c) \/ Unindex(c)
    \/ \E i \in Ids : Delete(c, i)

Rebuild(x) == Unload(x) \/ Wipe(x) \/ Load(x) \/ Scan(x) \/ Batch(x)

Next ==
    \/ \E c \in Clients : Handler(c)
    \/ \E x \in Rebuilders : RequestRebuild(x) \/ Rebuild(x)
    \/ \E i \in Ids : RunJob(i)
    \/ Search
    \/ Restart

Spec == Init /\ [][Next]_vars

-----------------------------------------------------------------------------
TypeOK ==
    /\ rows \subseteq 1..lastId /\ docs \subseteq 1..lastId /\ jobs \subseteq 1..lastId
    /\ lastId \in 0..MaxId /\ boots \in 1..MaxBoots
    /\ count \in Nat \cup {None}
    /\ handle \in {"none", "open", "broken"}
    /\ \A c \in Clients :
          /\ call[c].step \in Steps /\ call[c].op \in {"create", "delete"}
          /\ call[c].id \in 0..lastId /\ call[c].count \in Nat
    /\ \A x \in Rebuilders :
          rebuild[x].phase \in Phases /\ rebuild[x].snap \subseteq 1..lastId
    /\ missed \subseteq 1..lastId /\ ghosts \subseteq 1..lastId

\* The handler of i is not done with it.
Busy(i, op) == \E c \in Clients : call[c].id = i /\ call[c].op = op

\* A rebuild is under way that brings i into the index.
Rebuilding(i) ==
    \/ Scanning # {}
    \/ \E x \in Rebuilders : rebuild[x].phase = "batch" /\ i \in rebuild[x].snap

\* NeverMissed: whatever the order of jobs, rebuilds and searches, a stored
\* record is in the index or on its way there, unless the index refused its
\* job or its creation failed half way; and a restart repairs the index, unless
\* it holds documents of records that are gone.  An index that lost its files
\* to a second rebuild stays as it was until the next one.
NeverMissed ==
    \A i \in rows \ missed :
        \/ i \in docs \/ i \in jobs
        \/ Busy(i, "create") \/ Rebuilding(i)
        \/ handle = "broken"

\* GhostsExplained: a document whose record is gone is about to be removed, or
\* is one of the known cases: a job or a rebuild that brought it back, a delete
\* that failed half way or met an index that was not loaded.
GhostsExplained == \A i \in docs \ rows : Busy(i, "delete") \/ i \in ghosts
=============================================================================
