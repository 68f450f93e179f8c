------------------------------ MODULE Vectors ------------------------------
(***************************************************************************)
(* The vectors of a collection's records: the background worker            *)
(* (workers/queue.rs), its embedding tasks (workers/tasks/                 *)
(* vectorization.rs), the table vectors (connections/vectors.rs), the      *)
(* index in memory (apexkit-vector/src/index.rs) and the hydration of a    *)
(* tenant's or sandbox's index when its context is loaded.                 *)
(*                                                                         *)
(* The worker takes jobs in order and spawns each one: jobs of one record  *)
(* run at the same time, Permits of them.  A job embeds the text it        *)
(* carries, inserts the vector into the index of the context it resolved,  *)
(* which only ever gains points, and then writes the table.  Texts are     *)
(* numbered: a record's text is the number of its last change, 0 when it   *)
(* is deleted, and a vector is the number of the text it was made from.    *)
(***************************************************************************)
EXTENDS Naturals, Sequences, FiniteSets

CONSTANTS
    MaxIds,     \* bound on the records
    MaxText,    \* bound on the changes
    MaxJobs,    \* bound on the jobs
    Permits,    \* heavy jobs at a time: 4 in the code
    MaxLoads    \* bound on the loads of the context

Ids == 1..MaxIds
Jobs == 1..MaxJobs

VARIABLES
    text,       \* of each record, 0 for none
    changes,
    queue,      \* numbers of the jobs in the channel
    jobs,       \* the jobs sent so far
    bulk,       \* RevectorizeCollection: the page it read, and what is left
    table,      \* the vector stored for each record, 0 for none
    points,     \* the points of the index: pairs of a record and a vector
    loads,      \* number of contexts so far
    hydrated,   \* the current context's index has been filled from the table
    deleting,   \* records deleted whose vector is not yet
    excused,    \* records with an embedding that failed or met another change
    straddled   \* records with a vector indexed and saved in different contexts

vars == <<text, changes, queue, jobs, bulk, table, points, loads, hydrated, deleting, excused, straddled>>

NoBulk == [state |-> "none", todo |-> << >>, force |-> FALSE, current |-> 0]

Init ==
    /\ text = [i \in Ids |-> IF i = 1 THEN 1 ELSE 0]
    /\ table = text
    /\ changes = 1
    /\ queue = << >> /\ jobs = << >> /\ bulk = NoBulk
    /\ points = {<<1, 1>>}
    /\ loads = 1 /\ hydrated = TRUE
    /\ deleting = {} /\ excused = {} /\ straddled = {}

Job(id, n) == [id |-> id, content |-> n, step |-> "queued", context |-> 0]
Running == {j \in 1..Len(jobs) : j # bulk.current /\ jobs[j].step \in {"embed", "index", "save"}}
\* The permits in use: the bulk job holds one until it ends.
Held == Cardinality(Running) + (IF bulk.state = "run" THEN 1 ELSE 0)
Alive(id) == {j \in 1..Len(jobs) : jobs[j].id = id /\ jobs[j].step # "done"}
Step(j, step) == jobs' = [jobs EXCEPT ![j].step = step]

\* A handler writes a text and sends the job.
Write(id) ==
    /\ changes < MaxText /\ Len(jobs) < MaxJobs
    /\ text[id] # 0 \/ (id > 1 /\ \A j \in 1..Len(jobs) : jobs[j].id # id)
    /\ changes' = changes + 1
    /\ text' = [text EXCEPT ![id] = changes']
    /\ jobs' = Append(jobs, Job(id, changes'))
    /\ queue' = Append(queue, Len(jobs'))
    /\ excused' = IF Alive(id) = {} THEN excused ELSE excused \cup {id}
    /\ UNCHANGED <<bulk, table, points, loads, hydrated, deleting, straddled>>

\* delete_record: the row, and later the vector.
DeleteRow(id) ==
    /\ text[id] # 0
    /\ text' = [text EXCEPT ![id] = 0]
    /\ deleting' = deleting \cup {id}
    /\ UNCHANGED <<changes, queue, jobs, bulk, table, points, loads, hydrated, excused, straddled>>

\* Mutant: the vectors table is forgotten.
MutForget(id) == table
Forget(id) == [table EXCEPT ![id] = 0]

DeleteVector(id) ==
    /\ id \in deleting
    /\ deleting' = deleting \ {id}
    /\ table' = Forget(id)
    /\ excused' = IF Alive(id) = {} THEN excused ELSE excused \cup {id}
    /\ UNCHANGED <<text, changes, queue, jobs, bulk, points, loads, hydrated, straddled>>

-----------------------------------------------------------------------------
(* The worker.                                                             *)

\* The loop receives a job and spawns it.
Spawn ==
    /\ queue # << >>
    /\ Step(Head(queue), "wait")
    /\ queue' = Tail(queue)
    /\ UNCHANGED <<text, changes, bulk, table, points, loads, hydrated, deleting, excused, straddled>>

\* A permit, and resolve(): the context that is loaded.
Start(j) ==
    /\ jobs[j].step = "wait" /\ Held < Permits
    /\ jobs' = [jobs EXCEPT ![j].step = "embed", ![j].context = loads]
    /\ UNCHANGED <<text, changes, queue, bulk, table, points, loads, hydrated, deleting, excused, straddled>>

\* embed, or an error (the model, the quota, a missing file): the job is lost.
Embed(j) ==
    /\ jobs[j].step = "embed"
    /\ \/ Step(j, "index") /\ UNCHANGED excused
       \/ Step(j, "done") /\ excused' = excused \cup {jobs[j].id}
    /\ UNCHANGED <<text, changes, queue, bulk, table, points, loads, hydrated, deleting, straddled>>

\* Mutant: nothing is inserted before the next load.
MutInserted(set, p) == set
Inserted(set, p) == set \cup {p}

\* vector_provider.index, on the index of the job's context.
Index(j) ==
    LET k == jobs[j] IN
    /\ k.step = "index"
    /\ Step(j, "save")
    /\ points' = IF k.context = loads THEN Inserted(points, <<k.id, k.content>>) ELSE points
    /\ UNCHANGED <<text, changes, queue, bulk, table, loads, hydrated, deleting, excused, straddled>>

\* ON CONFLICT DO UPDATE.
\* Mutant: the row that is there stays.
MutSaved(old, n) == IF old = 0 THEN n ELSE old
Saved(old, n) == n

Save(j) ==
    LET k == jobs[j] IN
    /\ k.step = "save"
    /\ Step(j, "done")
    /\ table' = [table EXCEPT ![k.id] = Saved(@, k.content)]
    /\ excused' = IF Alive(k.id) = {j} /\ k.content = text[k.id] /\ k.id \notin deleting
                    THEN excused \ {k.id} ELSE excused
    /\ straddled' = IF k.context = loads THEN straddled ELSE straddled \cup {k.id}
    /\ UNCHANGED <<text, changes, queue, bulk, points, loads, hydrated, deleting>>

-----------------------------------------------------------------------------
(* handle_revectorize_collection: a page of records, one after another.    *)

Revectorize(force) ==
    /\ bulk.state = "none" /\ Held < Permits
    /\ bulk' = [state |-> "run", force |-> force, current |-> 0,
                todo |-> SelectSeq([i \in Ids |-> <<i, text[i]>>], LAMBDA p : p[2] # 0)]
    /\ UNCHANGED <<text, changes, queue, jobs, table, points, loads, hydrated, deleting, excused, straddled>>

BulkWaits == bulk.current # 0 => jobs[bulk.current].step = "done"

\* The next record: skipped where it has a vector, unless forced.
BulkNext ==
    LET id == Head(bulk.todo)[1] IN
    /\ bulk.state = "run" /\ bulk.todo # << >>
    /\ BulkWaits
    /\ IF ~bulk.force /\ table[id] # 0
         THEN /\ bulk' = [bulk EXCEPT !.todo = Tail(@)]
              /\ UNCHANGED <<jobs, excused>>
         ELSE /\ Len(jobs) < MaxJobs
              /\ bulk' = [bulk EXCEPT !.todo = Tail(@), !.current = Len(jobs) + 1]
              /\ jobs' = Append(jobs, [Job(id, Head(bulk.todo)[2]) EXCEPT !.step = "embed", !.context = loads])
              /\ excused' = IF Alive(id) = {} /\ text[id] = Head(bulk.todo)[2]
                              THEN excused ELSE excused \cup {id}
    /\ UNCHANGED <<text, changes, queue, table, points, loads, hydrated, deleting, straddled>>

BulkEnd ==
    /\ bulk.state = "run" /\ bulk.todo = << >>
    /\ BulkWaits
    /\ bulk' = [NoBulk EXCEPT !.state = "done"]
    /\ UNCHANGED <<text, changes, queue, jobs, table, points, loads, hydrated, deleting, excused, straddled>>

\* flush_vectors_by_model: the rows go, the points stay.
Flush ==
    /\ table' = [i \in Ids |-> 0]
    /\ excused' = Ids
    /\ UNCHANGED <<text, changes, queue, jobs, bulk, points, loads, hydrated, deleting, straddled>>

\* The context is evicted, or invalidated, and loaded again.
Load ==
    /\ loads < MaxLoads
    /\ loads' = loads + 1
    /\ points' = {} /\ hydrated' = FALSE /\ straddled' = {}
    /\ UNCHANGED <<text, changes, queue, jobs, bulk, table, deleting, excused>>

\* The background task of the load.
Hydrate ==
    /\ ~hydrated
    /\ hydrated' = TRUE
    /\ points' = points \cup {<<i, table[i]>> : i \in {x \in Ids : table[x] # 0}}
    /\ UNCHANGED <<text, changes, queue, jobs, bulk, table, loads, deleting, excused, straddled>>

Next ==
    \/ \E id \in Ids : Write(id) \/ DeleteRow(id) \/ DeleteVector(id)
    \/ Spawn \/ BulkNext \/ BulkEnd \/ Flush \/ Load \/ Hydrate
    \/ \E j \in 1..Len(jobs) : Start(j) \/ Embed(j) \/ Index(j) \/ Save(j)
    \/ \E force \in BOOLEAN : Revectorize(force)

Spec == Init /\ [][Next]_vars

-----------------------------------------------------------------------------
TypeOK ==
    /\ text \in [Ids -> 0..MaxText] /\ table \in [Ids -> 0..MaxText]
    /\ changes \in 1..MaxText /\ loads \in 1..MaxLoads
    /\ \A j \in 1..Len(jobs) : jobs[j].step \in {"queued", "wait", "embed", "index", "save", "done"}
    /\ points \subseteq Ids \X (1..MaxText)
    /\ deleting \subseteq {i \in Ids : text[i] = 0}

Settled(id) == Alive(id) = {} /\ id \notin deleting

\* TableCurrent: once its jobs are done, the stored vector of a record is that
\* of its text, and a deleted record has none: unless an embedding failed, two
\* of its jobs were in the worker together, or one was when it was deleted.
TableCurrent == \A id \in Ids : Settled(id) /\ id \notin excused => table[id] = text[id]

\* IndexComplete: every stored vector can be found by a search, except one that
\* was indexed in a context that was gone when it was saved.
IndexComplete == hydrated => \A id \in Ids \ straddled :
    Alive(id) = {} /\ table[id] # 0 => <<id, table[id]>> \in points
=============================================================================
