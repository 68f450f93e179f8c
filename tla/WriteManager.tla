---------------------------- MODULE WriteManager ----------------------------
(***************************************************************************)
(* The write path of one SQLite file: `WriteManager` of                    *)
(* apexkit-core/src/database/batching.rs in master mode.  Callers push     *)
(* requests into a bounded channel; one background task collects a batch,  *)
(* runs it between BEGIN IMMEDIATE and COMMIT on the shared connection,    *)
(* publishes the changeset and answers the callers.                        *)
(*                                                                         *)
(* A request is a block of Rows[r] row statements: Execute and             *)
(* InsertReturningId are blocks of one row, BulkInsert may have more.  The *)
(* database is the sequence of the rows committed to it, in commit order.  *)
(***************************************************************************)
EXTENDS Naturals, Sequences, FiniteSets, SequencesExt

CONSTANTS
    Reqs,       \* the write requests (one per call of execute/insert/bulk_insert)
    Rows,       \* Rows[r]: the number of row statements of request r
    ChanCap,    \* capacity of the mpsc channel (100_000 in the code)
    MaxBatch,   \* DB_BATCH_SIZE
    Faults      \* which failures the environment may inject, see FaultKinds

\* stmt   - one statement fails and SQLite undoes that statement alone
\* abort  - a statement fails and SQLite rolls the whole transaction back
\*          (disk full, I/O error, out of memory)
\* begin  - another connection keeps the write lock longer than busy_timeout
\* commit - COMMIT fails and SQLite rolls the transaction back
\* open   - COMMIT fails and the transaction stays open
\* crash  - the process dies and is started again
\* cancel - a caller drops its future while it waits for the answer
\* close  - the last sender is dropped (the ApexKit instance is evicted)
FaultKinds == {"stmt", "abort", "begin", "commit", "open", "crash", "cancel", "close"}

ASSUME ConstantsAssumption ==
    /\ Rows \in [Reqs -> Nat]
    /\ ChanCap \in Nat \ {0}
    /\ MaxBatch \in Nat \ {0}
    /\ Faults \subseteq FaultKinds

VARIABLES
    status,     \* what the caller of each request knows
    arrivals,   \* requests in the order in which the channel accepted them
    queue,      \* the mpsc channel
    open,       \* some sender of the channel is alive
    phase,      \* where the background task is in its loop
    buffer,     \* `buffer`: the batch, then what is left of it to execute
    pending,    \* `pending_replies`
    inTx,       \* the connection is inside a transaction
    changes,    \* rows written under the current session, not yet published
    db,         \* rows committed to the file
    events,     \* rows sent to the changeset broadcast since the last start
    base        \* Len(db) at the last start

vars == <<status, arrivals, queue, open, phase, buffer, pending, inTx,
          changes, db, events, base>>

Statuses == {"idle", "waiting", "ok", "err", "gone", "dropped"}
Phases == {"recv", "fill", "begin", "exec", "publish", "reply", "stopped"}
RowIds == Reqs \X (Nat \ {0})

\* The first n row statements of request r.
RowsOf(r, n) == [i \in 1..n |-> <<r, i>>]

\* Mutant: errors are logged, not sent.
MutAnswer(R, v) ==
    status' = [r \in Reqs |-> IF r \in R /\ status[r] = "waiting" /\ v # "err"
                                 THEN v ELSE status[r]]
\* oneshot::Sender::send: an answer reaches only a caller that still waits.
Answer(R, v) ==
    status' = [r \in Reqs |-> IF r \in R /\ status[r] = "waiting"
                                 THEN v ELSE status[r]]

\* What a query on the shared connection returns: its own open transaction too.
Visible == IF inTx THEN db \o changes ELSE db

\* Mutant: the guard of the connection is dropped after BEGIN.
MutMutexFree == phase \in {"recv", "fill", "begin", "exec", "stopped"}

\* Readers use the connection under the mutex the task holds from
\* `db.lock()` to the end of its loop body.
MutexFree == phase \in {"recv", "fill", "begin", "stopped"}

Init ==
    /\ status = [r \in Reqs |-> "idle"]
    /\ arrivals = <<>>
    /\ queue = <<>>
    /\ open = TRUE
    /\ phase = "recv"
    /\ buffer = <<>>
    /\ pending = <<>>
    /\ inTx = FALSE
    /\ changes = <<>>
    /\ db = <<>>
    /\ events = <<>>
    /\ base = 0

-----------------------------------------------------------------------------
(* The callers: execute, insert, bulk_insert.                              *)

\* The send completes when the channel has room.
Submit(r) ==
    /\ open
    /\ status[r] = "idle"
    /\ Len(queue) < ChanCap
    /\ status' = [status EXCEPT ![r] = "waiting"]
    /\ queue' = Append(queue, r)
    /\ arrivals' = Append(arrivals, r)
    /\ UNCHANGED <<open, phase, buffer, pending, inTx, changes, db, events, base>>

\* The caller's future is dropped; the request stays where it is.
Cancel(r) ==
    /\ "cancel" \in Faults
    /\ status[r] = "waiting"
    /\ status' = [status EXCEPT ![r] = "gone"]
    /\ UNCHANGED <<arrivals, queue, open, phase, buffer, pending, inTx,
                   changes, db, events, base>>

\* The owner drops the manager; a caller that waits still borrows it.
Close ==
    /\ "close" \in Faults
    /\ open
    /\ \A r \in Reqs : status[r] # "waiting"
    /\ open' = FALSE
    /\ UNCHANGED <<status, arrivals, queue, phase, buffer, pending, inTx,
                   changes, db, events, base>>

-----------------------------------------------------------------------------
(* The background task.                                                    *)

RecvFirst ==
    /\ phase = "recv"
    /\ queue # <<>>
    /\ buffer' = <<Head(queue)>>
    /\ queue' = Tail(queue)
    /\ phase' = "fill"
    /\ UNCHANGED <<status, arrivals, open, pending, inTx, changes, db, events, base>>

\* recv() returns None only when the channel is closed and drained.
Stop ==
    /\ phase = "recv"
    /\ queue = <<>>
    /\ ~open
    /\ phase' = "stopped"
    /\ UNCHANGED <<status, arrivals, queue, open, buffer, pending, inTx,
                   changes, db, events, base>>

\* Mutant: the limit is one too high.
MutHasRoom == Len(buffer) =< MaxBatch
\* The condition of the batch loop.
HasRoom == Len(buffer) < MaxBatch

Fill ==
    /\ phase = "fill"
    /\ HasRoom
    /\ queue # <<>>
    /\ buffer' = Append(buffer, Head(queue))
    /\ queue' = Tail(queue)
    /\ UNCHANGED <<status, arrivals, open, phase, pending, inTx, changes, db,
                   events, base>>

\* The batch is full, the flush interval has passed or the channel is closed.
CloseBatch ==
    /\ phase = "fill"
    /\ phase' = "begin"
    /\ UNCHANGED <<status, arrivals, queue, open, buffer, pending, inTx,
                   changes, db, events, base>>

\* Lock the connection, attach a new session, BEGIN IMMEDIATE.
Begin ==
    /\ phase = "begin"
    /\ ~inTx
    /\ phase' = "exec"
    /\ inTx' = TRUE
    /\ changes' = <<>>
    /\ UNCHANGED <<status, arrivals, queue, open, buffer, pending, db, events, base>>

\* "Database Locked": every request of the batch is refused.
BeginFails ==
    /\ phase = "begin"
    /\ "begin" \in Faults \/ inTx
    /\ Answer(ToSet(buffer), "err")
    /\ buffer' = <<>>
    /\ phase' = "recv"
    /\ UNCHANGED <<arrivals, queue, open, pending, inTx, changes, db, events, base>>

\* The first n statements of r take effect: in the transaction, or, once
\* SQLite has rolled it back, each as a transaction of its own.
Write(r, n) ==
    IF inTx THEN /\ changes' = changes \o RowsOf(r, n)
                 /\ db' = db
            ELSE /\ db' = db \o RowsOf(r, n)
                 /\ changes' = changes

\* Request r succeeds; the rest of the batch is still to do.
Run(r, rest) ==
    /\ phase = "exec"
    /\ Write(r, Rows[r])
    /\ pending' = Append(pending, r)
    /\ buffer' = rest
    /\ UNCHANGED <<status, arrivals, queue, open, phase, inTx, events, base>>

\* Mutant: the batch is drained from its end (Vec::pop).
MutExecOk == buffer # <<>> /\ Run(Last(buffer), Front(buffer))
ExecOk == buffer # <<>> /\ Run(Head(buffer), Tail(buffer))

\* Statement n+1 of r (or, with n = 0, its prepare) fails; the rows before it
\* stay in the transaction.
Fail(r, rest) ==
    /\ phase = "exec"
    /\ "stmt" \in Faults
    /\ \E n \in 0..Rows[r] : (n = 0 \/ n < Rows[r]) /\ Write(r, n)
    /\ Answer({r}, "err")
    /\ buffer' = rest
    /\ UNCHANGED <<arrivals, queue, open, phase, pending, inTx, events, base>>

\* Or it fails in a way that makes SQLite roll the transaction back.  The task
\* does not notice: it goes on with the rest of the batch.
Abort(r, rest) ==
    /\ phase = "exec"
    /\ "abort" \in Faults
    /\ inTx
    /\ inTx' = FALSE
    /\ changes' = <<>>
    /\ Answer({r}, "err")
    /\ buffer' = rest
    /\ UNCHANGED <<arrivals, queue, open, phase, pending, db, events, base>>

FailsOn(r, rest) == Fail(r, rest) \/ Abort(r, rest)

\* Mutant: a request that failed stays in the batch (iter for drain).
MutExecFails == buffer # <<>> /\ FailsOn(Head(buffer), buffer)
ExecFails == buffer # <<>> /\ FailsOn(Head(buffer), Tail(buffer))

Commit ==
    /\ phase = "exec"
    /\ buffer = <<>>
    /\ inTx
    /\ db' = db \o changes
    /\ inTx' = FALSE
    /\ phase' = "publish"
    /\ UNCHANGED <<status, arrivals, queue, open, buffer, pending, changes,
                   events, base>>

\* Mutant: the result of COMMIT is not looked at.
MutCommitFailedAnswer == "ok"
\* What the callers are told when COMMIT fails.
CommitFailedAnswer == "err"

\* COMMIT fails: also when there is no transaction left to commit.  No
\* ROLLBACK follows, so what happens to the transaction is SQLite's choice.
CommitFails ==
    /\ phase = "exec"
    /\ buffer = <<>>
    /\ \/ /\ "commit" \in Faults \/ ~inTx
          /\ inTx' = FALSE
          /\ changes' = <<>>
       \/ /\ "open" \in Faults
          /\ inTx
          /\ UNCHANGED <<inTx, changes>>
    /\ Answer(ToSet(pending), CommitFailedAnswer)
    /\ pending' = <<>>
    /\ phase' = "recv"
    /\ UNCHANGED <<arrivals, queue, open, buffer, db, events, base>>

\* Mutant: a batch none of whose requests succeeded has no changeset.
MutChangeset == IF pending = <<>> THEN <<>> ELSE changes
\* changeset_strm: all rows changed on the connection under the session.
Changeset == changes

\* The changeset is sent before the answers.
Publish ==
    /\ phase = "publish"
    /\ events' = events \o Changeset
    /\ changes' = <<>>
    /\ phase' = "reply"
    /\ UNCHANGED <<status, arrivals, queue, open, buffer, pending, inTx, db, base>>

Reply ==
    /\ phase = "reply"
    /\ pending # <<>>
    /\ Answer({Head(pending)}, "ok")
    /\ pending' = Tail(pending)
    /\ UNCHANGED <<arrivals, queue, open, phase, buffer, inTx, changes, db,
                   events, base>>

NextBatch ==
    /\ phase = "reply"
    /\ pending = <<>>
    /\ phase' = "recv"
    /\ UNCHANGED <<status, arrivals, queue, open, buffer, pending, inTx,
                   changes, db, events, base>>

-----------------------------------------------------------------------------
\* The process dies: the channel, the batch and the open transaction are lost,
\* the committed rows are not.  It starts again with an empty broadcast.
Crash ==
    /\ "crash" \in Faults
    /\ open
    /\ Answer(Reqs, "dropped")
    /\ queue' = <<>>
    /\ phase' = "recv"
    /\ buffer' = <<>>
    /\ pending' = <<>>
    /\ inTx' = FALSE
    /\ changes' = <<>>
    /\ events' = <<>>
    /\ base' = Len(db)
    /\ UNCHANGED <<arrivals, open, db>>

Callers == \/ \E r \in Reqs : Submit(r) \/ Cancel(r)
           \/ Close
Task == \/ RecvFirst \/ Stop \/ Fill \/ CloseBatch
        \/ Begin \/ BeginFails
        \/ ExecOk \/ ExecFails
        \/ Commit \/ CommitFails
        \/ Publish \/ Reply \/ NextBatch

Next == Callers \/ Task \/ Crash

Spec == Init /\ [][Next]_vars

\* The runtime keeps polling the task and the flush timer fires.
FairSpec == Spec /\ WF_vars(Task) /\ WF_vars(CloseBatch)

-----------------------------------------------------------------------------
TypeOK ==
    /\ status \in [Reqs -> Statuses]
    /\ arrivals \in Seq(Reqs)
    /\ queue \in Seq(Reqs)
    /\ Len(queue) =< ChanCap
    /\ open \in BOOLEAN
    /\ phase \in Phases
    /\ buffer \in Seq(Reqs)
    /\ Len(buffer) =< MaxBatch
    /\ pending \in Seq(Reqs)
    /\ inTx \in BOOLEAN
    /\ changes \in Seq(RowIds)
    /\ db \in Seq(RowIds)
    /\ events \in Seq(RowIds)
    /\ base \in Nat

\* Row x is in the sequence of rows s; all rows of request r are.
HasRow(s, x) == \E k \in DOMAIN s : s[k] = x
HasRows(s, r) == \A i \in 1..Rows[r] : HasRow(s, <<r, i>>)

\* AckedIsStored: a call that was answered Ok has all its rows in the file,
\* whatever failed around it (batching.rs answers only after COMMIT).
AckedIsStored == \A r \in Reqs : status[r] = "ok" => HasRows(db, r)

\* AckInv: why AckedIsStored holds.  A request waits for its answer in
\* `pending_replies` only while its rows are in the open transaction, then in
\* the file; a transaction that SQLite has rolled back cannot be committed, so
\* the requests that wait on it are never answered Ok.
AckInv ==
    /\ AckedIsStored
    /\ phase \notin {"exec", "publish", "reply"} => pending = <<>>
    /\ phase = "exec" /\ inTx =>
          \A k \in DOMAIN pending : HasRows(changes, pending[k])
    /\ phase \in {"publish", "reply"} =>
          \A k \in DOMAIN pending : HasRows(db, pending[k])

\* AppliedOnce: no row of a request is committed twice, across batches,
\* failed commits, rollbacks and restarts.
AppliedOnce ==
    \A j, k \in DOMAIN db : db[j] = db[k] => j = k

\* RefusedIsNotStored: a call that was answered Err is not in the file as a
\* whole: the caller may repeat it.
RefusedIsNotStored ==
    \A r \in Reqs : status[r] = "err" /\ Rows[r] > 0 => ~HasRow(db, <<r, Rows[r]>>)

\* NoDirtyRead: a reader that gets the mutex of the shared connection sees
\* committed rows only, although it shares the connection with the batch.
NoDirtyRead == MutexFree => Visible = db

\* EventsFollowCommits: between a commit and its publication nothing else
\* happens, so the rows broadcast since the start are the rows committed since
\* the start, in commit order.
EventsFollowCommits ==
    events \o (IF phase = "publish" THEN changes ELSE <<>>)
        = SubSeq(db, base + 1, Len(db))

\* ArrivalOrder: rows are committed in the order in which the channel accepted
\* their requests.
ArrivalOrder ==
    \A j, k \in DOMAIN db : \A a, b \in DOMAIN arrivals :
        db[j][1] = arrivals[a] /\ db[k][1] = arrivals[b] /\ a < b => j < k

\* RowsExact: the file holds the rows of the accepted requests, each at most
\* once, in the order in which the channel took the requests, and none of a
\* request that was refused.
RowsInOrder == AppliedOnce /\ ArrivalOrder
RowsExact == RowsInOrder /\ RefusedIsNotStored

\* CallsAnswered: a caller does not wait for ever.
CallsAnswered == \A r \in Reqs : status[r] = "waiting" ~> status[r] # "waiting"

\* The promise of WriteLog: the file is its log.
Promise == INSTANCE WriteLog WITH log <- db
KeepsPromise == Promise!Spec
=============================================================================
