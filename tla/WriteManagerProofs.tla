------------------------- MODULE WriteManagerProofs -------------------------
(***************************************************************************)
(* What holds of WriteManager for every set of requests, every channel     *)
(* capacity and every batch size.                                          *)
(***************************************************************************)
EXTENDS WriteManager, SequenceTheorems, TLAPS

\* A block is a sequence of row identifiers.
LEMMA RowsOfType ==
    ASSUME NEW r \in Reqs, NEW n \in Nat
    PROVE  /\ RowsOf(r, n) \in Seq(RowIds)
           /\ Len(RowsOf(r, n)) = n
           /\ \A i \in 1..n : RowsOf(r, n)[i] = <<r, i>>
  <1>1. RowsOf(r, n) \in [1..n -> RowIds]
    BY DEF RowsOf, RowIds
  <1>2. QED
    BY <1>1 DEF RowsOf

\* Answering keeps the type of status.
LEMMA AnswerType ==
    ASSUME status \in [Reqs -> Statuses], NEW R, NEW v \in Statuses, Answer(R, v)
    PROVE  status' \in [Reqs -> Statuses]
  BY DEF Answer

\* Writing a block keeps the types of the file and of the open transaction.
LEMMA WriteType ==
    ASSUME NEW r \in Reqs, NEW n \in Nat, Write(r, n),
           db \in Seq(RowIds), changes \in Seq(RowIds)
    PROVE  db' \in Seq(RowIds) /\ changes' \in Seq(RowIds)
  <1>1. CASE inTx
    BY <1>1, RowsOfType, ConcatProperties DEF Write
  <1>2. CASE ~inTx
    BY <1>2, RowsOfType, ConcatProperties DEF Write
  <1>3. QED
    BY <1>1, <1>2

\* TypeOK holds: every variable keeps its type, the channel never holds more
\* than its capacity and a batch never more than DB_BATCH_SIZE requests.
THEOREM TypeCorrect == Spec => []TypeOK
  <1>1. Init => TypeOK
    <2> SUFFICES ASSUME Init PROVE TypeOK
      OBVIOUS
    <2> USE ConstantsAssumption DEF Init
    <2>1. status \in [Reqs -> Statuses] /\ phase \in Phases
      BY DEF Statuses, Phases
    <2>2. Len(queue) =< ChanCap /\ Len(buffer) =< MaxBatch
      OBVIOUS
    <2>3. QED
      BY <2>1, <2>2, EmptySeq DEF TypeOK
  <1>2. TypeOK /\ [Next]_vars => TypeOK'
    <2> SUFFICES ASSUME TypeOK, [Next]_vars PROVE TypeOK'
      OBVIOUS
    <2> USE ConstantsAssumption DEF TypeOK
    <2>1. ASSUME NEW r \in Reqs, Submit(r) PROVE TypeOK'
      BY <2>1 DEF Submit, Statuses
    <2>2. ASSUME NEW r \in Reqs, Cancel(r) PROVE TypeOK'
      BY <2>2 DEF Cancel, Statuses
    <2>3. CASE Close
      BY <2>3 DEF Close
    <2>4. CASE RecvFirst
      BY <2>4 DEF RecvFirst, Phases
    <2>5. CASE Stop
      BY <2>5 DEF Stop, Phases
    <2>6. CASE Fill
      BY <2>6 DEF Fill, HasRoom
    <2>7. CASE CloseBatch
      BY <2>7 DEF CloseBatch, Phases
    <2>8. CASE Begin
      BY <2>8 DEF Begin, Phases
    <2>9. CASE BeginFails
      <3>1. status' \in [Reqs -> Statuses]
        BY <2>9, AnswerType DEF BeginFails, Statuses
      <3>2. QED
        BY <2>9, <3>1 DEF BeginFails, Phases
    <2>10. CASE ExecOk
      <3>1. Head(buffer) \in Reqs /\ Tail(buffer) \in Seq(Reqs) /\ Len(Tail(buffer)) =< MaxBatch
        BY <2>10 DEF ExecOk, Run
      <3>2. Write(Head(buffer), Rows[Head(buffer)]) /\ Rows[Head(buffer)] \in Nat
        BY <2>10, <3>1 DEF ExecOk, Run
      <3>3. db' \in Seq(RowIds) /\ changes' \in Seq(RowIds)
        BY <3>1, <3>2, WriteType
      <3>4. QED
        BY <2>10, <3>1, <3>3 DEF ExecOk, Run
    <2>11. CASE ExecFails
      <3>1. Head(buffer) \in Reqs /\ Tail(buffer) \in Seq(Reqs) /\ Len(Tail(buffer)) =< MaxBatch
        BY <2>11 DEF ExecFails
      <3>2. status' \in [Reqs -> Statuses]
        BY <2>11, AnswerType DEF ExecFails, FailsOn, Fail, Abort, Statuses
      <3>3. CASE Fail(Head(buffer), Tail(buffer))
        <4>1. PICK n \in Nat : Write(Head(buffer), n)
          BY <3>1, <3>3 DEF Fail
        <4>2. db' \in Seq(RowIds) /\ changes' \in Seq(RowIds)
          BY <3>1, <4>1, WriteType
        <4>3. QED
          BY <3>1, <3>2, <3>3, <4>2 DEF Fail
      <3>4. CASE Abort(Head(buffer), Tail(buffer))
        BY <3>1, <3>2, <3>4, EmptySeq DEF Abort
      <3>5. QED
        BY <2>11, <3>3, <3>4 DEF ExecFails, FailsOn
    <2>12. CASE Commit
      BY <2>12, ConcatProperties DEF Commit, Phases
    <2>13. CASE CommitFails
      <3>1. status' \in [Reqs -> Statuses]
        BY <2>13, AnswerType DEF CommitFails, CommitFailedAnswer, Statuses
      <3>2. inTx' \in BOOLEAN /\ changes' \in Seq(RowIds)
        BY <2>13, EmptySeq DEF CommitFails
      <3>3. QED
        BY <2>13, <3>1, <3>2 DEF CommitFails, Phases
    <2>14. CASE Publish
      BY <2>14 DEF Publish, Changeset, Phases
    <2>15. CASE Reply
      <3>1. status' \in [Reqs -> Statuses]
        BY <2>15, AnswerType DEF Reply, Statuses
      <3>2. QED
        BY <2>15, <3>1 DEF Reply
    <2>16. CASE NextBatch
      BY <2>16 DEF NextBatch, Phases
    <2>17. CASE Crash
      <3>1. status' \in [Reqs -> Statuses]
        BY <2>17, AnswerType DEF Crash, Statuses
      <3>2. base' \in Nat
        BY <2>17, LenProperties DEF Crash
      <3>3. changes' \in Seq(RowIds) /\ events' \in Seq(RowIds)
        BY <2>17, EmptySeq DEF Crash
      <3>4. db' \in Seq(RowIds) /\ arrivals' \in Seq(Reqs) /\ open' \in BOOLEAN
        BY <2>17 DEF Crash
      <3>5. /\ queue' = <<>> /\ buffer' = <<>> /\ pending' = <<>>
            /\ phase' \in Phases /\ inTx' \in BOOLEAN
        BY <2>17 DEF Crash, Phases
      <3>6. QED
        BY <3>1, <3>2, <3>3, <3>4, <3>5
    <2>18. CASE UNCHANGED vars
      BY <2>18 DEF vars
    <2>19. QED
      BY <2>1, <2>2, <2>3, <2>4, <2>5, <2>6, <2>7, <2>8, <2>9, <2>10, <2>11,
         <2>12, <2>13, <2>14, <2>15, <2>16, <2>17, <2>18
      DEF Next, Callers, Task
  <1>3. QED
    BY <1>1, <1>2, PTL DEF Spec

-----------------------------------------------------------------------------
(* A call that is answered Ok is stored.                                   *)

\* A request whose rows are all in one of two sequences has them all in their
\* concatenation.
LEMMA RowKept ==
    ASSUME NEW s \in Seq(RowIds), NEW t \in Seq(RowIds), NEW r \in Reqs,
           HasRows(s, r) \/ HasRows(t, r)
    PROVE  HasRows(s \o t, r)
  <1> SUFFICES ASSUME NEW i \in 1..Rows[r] PROVE HasRow(s \o t, <<r, i>>)
    BY DEF HasRows
  <1>1. /\ s \o t \in Seq(RowIds)
        /\ Len(s) \in Nat /\ Len(t) \in Nat
        /\ DOMAIN s = 1..Len(s) /\ DOMAIN t = 1..Len(t)
        /\ DOMAIN (s \o t) = 1..(Len(s) + Len(t))
    BY ConcatProperties, LenProperties
  <1>2. CASE HasRows(s, r)
    <2>1. PICK k \in DOMAIN s : s[k] = <<r, i>>
      BY <1>2 DEF HasRows, HasRow
    <2>2. k \in DOMAIN (s \o t) /\ (s \o t)[k] = s[k]
      BY <1>1, ConcatProperties
    <2>3. QED
      BY <2>1, <2>2 DEF HasRow
  <1>3. CASE HasRows(t, r)
    <2>1. PICK k \in DOMAIN t : t[k] = <<r, i>>
      BY <1>3 DEF HasRows, HasRow
    <2>2. Len(s) + k \in DOMAIN (s \o t) /\ (s \o t)[Len(s) + k] = t[k]
      BY <1>1, ConcatProperties
    <2>3. QED
      BY <2>1, <2>2 DEF HasRow
  <1>4. QED
    BY <1>2, <1>3

\* The whole block of a request contains all its rows.
LEMMA BlockHasRows ==
    ASSUME NEW r \in Reqs
    PROVE  HasRows(RowsOf(r, Rows[r]), r)
  <1>1. Rows[r] \in Nat
    BY ConstantsAssumption
  <1>2. DOMAIN RowsOf(r, Rows[r]) = 1..Rows[r]
    BY DEF RowsOf
  <1>3. QED
    BY <1>1, <1>2, RowsOfType DEF HasRows, HasRow

\* The file only grows, so what it contains it keeps.
LEMMA FileGrows ==
    ASSUME TypeOK, TypeOK', [Next]_vars, NEW r \in Reqs, HasRows(db, r)
    PROVE  HasRows(db', r)
  <1>1. \A q \in Reqs, n \in Nat : Write(q, n) => HasRows(db', r)
    BY RowsOfType, RowKept DEF TypeOK, Write
  <1>2. CASE ExecOk
    BY <1>1, <1>2, ConstantsAssumption DEF ExecOk, Run, TypeOK
  <1>3. CASE ExecFails
    <2>1. CASE Fail(Head(buffer), Tail(buffer))
      BY <1>1, <1>3, <2>1, ConstantsAssumption DEF ExecFails, Fail, TypeOK
    <2>2. CASE Abort(Head(buffer), Tail(buffer))
      BY <2>2 DEF Abort
    <2>3. QED
      BY <1>3, <2>1, <2>2 DEF ExecFails, FailsOn
  <1>4. CASE Commit
    BY <1>4, RowKept DEF Commit, TypeOK
  <1>5. CASE ~ExecOk /\ ~ExecFails /\ ~Commit
    <2>1. db' = db
      BY <1>5 DEF Next, Callers, Task, Submit, Cancel, Close, RecvFirst, Stop,
        Fill, CloseBatch, Begin, BeginFails, CommitFails, CommitFailedAnswer, Publish,
        Reply, NextBatch, Crash, vars
    <2>2. QED
      BY <2>1
  <1>6. QED
    BY <1>2, <1>3, <1>4, <1>5

\* Only Reply answers Ok, and only to the request at the head of `pending`.
LEMMA OnlyReplyGrants ==
    ASSUME TypeOK, [Next]_vars, NEW r \in Reqs, status'[r] = "ok", status[r] # "ok"
    PROVE  Reply /\ r = Head(pending)
  <1>1. \A R : /\ Answer(R, "err") => status'[r] # "ok"
               /\ Answer(R, "dropped") => status'[r] # "ok"
    BY DEF Answer
  <1>2. CASE Reply
    BY <1>2 DEF Reply, Answer
  <1>3. CASE ~Reply
    BY <1>1, <1>3 DEF TypeOK, Next, Callers, Task, Submit, Cancel, Close,
      RecvFirst, Stop, Fill, CloseBatch, Begin, BeginFails, ExecOk, Run, ExecFails, FailsOn, Fail,
      Abort, Commit, CommitFails, CommitFailedAnswer, Publish, NextBatch, Crash, vars
  <1>4. QED
    BY <1>2, <1>3

\* AckInv is preserved by every step.
LEMMA AckInvStep ==
    ASSUME TypeOK, TypeOK', AckInv, [Next]_vars
    PROVE  AckInv'
  <1> USE DEF TypeOK
  <1>1. AckedIsStored'
    <2> SUFFICES ASSUME NEW r \in Reqs, status'[r] = "ok" PROVE HasRows(db', r)
      BY DEF AckedIsStored, HasRows, HasRow
    <2>1. CASE status[r] = "ok"
      BY <2>1, FileGrows DEF AckInv, AckedIsStored
    <2>2. CASE status[r] # "ok"
      <3>1. Reply /\ r = Head(pending)
        BY <2>2, OnlyReplyGrants
      <3>2. 1 \in DOMAIN pending /\ pending[1] = r /\ phase = "reply"
        BY <3>1 DEF Reply
      <3>3. HasRows(db, r)
        BY <3>2 DEF AckInv
      <3>4. QED
        BY <3>3, FileGrows
    <2>3. QED
      BY <2>1, <2>2
  <1>2. phase' \notin {"exec", "publish", "reply"} => pending' = <<>>
    BY DEF AckInv, Next, Callers, Task, Submit, Cancel, Close, RecvFirst, Stop,
      Fill, CloseBatch, Begin, BeginFails, ExecOk, Run, ExecFails, FailsOn, Fail, Abort,
      Commit, CommitFails, CommitFailedAnswer, Publish, Reply, NextBatch, Crash, vars
  <1>3. phase' = "exec" /\ inTx' =>
           \A k \in DOMAIN pending' : HasRows(changes', pending'[k])
    <2> SUFFICES ASSUME phase' = "exec", inTx', NEW k \in DOMAIN pending'
                 PROVE  HasRows(changes', pending'[k])
      OBVIOUS
    <2>1. CASE Begin
      BY <2>1 DEF Begin, AckInv
    <2>2. CASE ExecOk
      <3> DEFINE q == Head(buffer)
      <3>1. q \in Reqs /\ Rows[q] \in Nat
        BY <2>2, ConstantsAssumption DEF ExecOk, Run
      <3>2. changes' = changes \o RowsOf(q, Rows[q]) /\ RowsOf(q, Rows[q]) \in Seq(RowIds)
        BY <2>2, <3>1, RowsOfType DEF ExecOk, Run, Write
      <3>3. CASE k \in DOMAIN pending
        <4>1. pending'[k] = pending[k] /\ pending[k] \in Reqs
          BY <2>2, <3>1, <3>3 DEF ExecOk, Run
        <4>2. HasRows(changes, pending[k])
          BY <2>2, <3>3 DEF AckInv, ExecOk, Run
        <4>3. QED
          BY <3>2, <4>1, <4>2, RowKept
      <3>4. CASE k \notin DOMAIN pending
        <4>1. pending'[k] = q
          <5>1. pending' = Append(pending, q) /\ pending \in Seq(Reqs)
            BY <2>2 DEF ExecOk, Run, TypeOK
          <5>2. k \notin 1..Len(pending)
            BY <3>4, <5>1
          <5>3. /\ Len(pending) \in Nat /\ k \in 1..(Len(pending) + 1)
                /\ pending'[Len(pending) + 1] = q
            BY <3>1, <5>1, AppendProperties, LenProperties
          <5>4. k = Len(pending) + 1
            <6> DEFINE n == Len(pending)
            <6>1. n \in Nat /\ k \in 1..(n + 1) /\ k \notin 1..n
              BY <5>2, <5>3
            <6> HIDE DEF n
            <6>2. k = n + 1
              BY <6>1
            <6>3. QED
              BY <6>2 DEF n
          <5>5. QED
            BY <5>3, <5>4
        <4>2. HasRows(RowsOf(q, Rows[q]), q)
          BY <3>1, BlockHasRows
        <4>3. HasRows(changes \o RowsOf(q, Rows[q]), q)
          BY <3>1, <3>2, <4>2, RowKept
        <4>4. QED
          BY <3>2, <4>1, <4>3
      <3>5. QED
        BY <3>3, <3>4
    <2>3. CASE ExecFails
      <3>0. Fail(Head(buffer), Tail(buffer))
        BY <2>3 DEF ExecFails, FailsOn, Abort
      <3>1. PICK n \in Nat : changes' = changes \o RowsOf(Head(buffer), n)
                             /\ RowsOf(Head(buffer), n) \in Seq(RowIds)
        <4>1. inTx /\ Head(buffer) \in Reqs /\ Rows[Head(buffer)] \in Nat
          <5>1. inTx /\ buffer # <<>>
            BY <2>3, <3>0 DEF ExecFails, Fail
          <5>2. Head(buffer) \in Reqs
            BY <5>1
          <5>3. QED
            BY <5>1, <5>2, ConstantsAssumption
        <4>2. PICK n \in 0..Rows[Head(buffer)] : Write(Head(buffer), n)
          BY <3>0 DEF Fail
        <4>3. n \in Nat
          BY <4>1
        <4>4. changes' = changes \o RowsOf(Head(buffer), n)
          BY <4>1, <4>2, Zenon DEF Write
        <4>5. QED
          BY <4>1, <4>3, <4>4, RowsOfType
      <3>2. pending' = pending /\ pending[k] \in Reqs /\ HasRows(changes, pending[k])
        BY <3>0 DEF Fail, AckInv
      <3>3. QED
        BY <3>1, <3>2, RowKept
    <2>4. CASE ~Begin /\ ~ExecOk /\ ~ExecFails
      <3>1. UNCHANGED <<phase, inTx, changes, pending>>
        BY <2>4 DEF Next, Callers, Task, Submit, Cancel, Close, RecvFirst, Stop,
          Fill, CloseBatch, BeginFails, Commit, CommitFails,
          Publish, Reply, NextBatch, Crash, vars
      <3>2. QED
        BY <3>1 DEF AckInv
    <2>5. QED
      BY <2>1, <2>2, <2>3, <2>4
  <1>4. phase' \in {"publish", "reply"} =>
           \A k \in DOMAIN pending' : HasRows(db', pending'[k])
    <2> SUFFICES ASSUME phase' \in {"publish", "reply"}, NEW k \in DOMAIN pending'
                 PROVE  HasRows(db', pending'[k])
      OBVIOUS
    <2>1. CASE Commit
      <3>1. pending' = pending /\ pending[k] \in Reqs /\ db' = db \o changes
        BY <2>1 DEF Commit
      <3>2. HasRows(changes, pending[k])
        BY <2>1 DEF Commit, AckInv
      <3>3. QED
        BY <3>1, <3>2, RowKept
    <2>2. CASE Reply
      <3>1. /\ k + 1 \in DOMAIN pending
            /\ pending'[k] = pending[k + 1]
            /\ pending[k + 1] \in Reqs
            /\ phase = "reply"
        BY <2>2 DEF Reply
      <3>2. HasRows(db, pending[k + 1])
        BY <3>1 DEF AckInv
      <3>3. QED
        BY <3>1, <3>2, FileGrows
    <2>3. CASE ~Commit /\ ~Reply
      <3>1. phase \in {"publish", "reply"} /\ pending' = pending
        BY <2>3 DEF Next, Callers, Task, Submit, Cancel, Close, RecvFirst, Stop,
          Fill, CloseBatch, Begin, BeginFails, ExecOk, Run, ExecFails, FailsOn, Fail, Abort,
          CommitFails, CommitFailedAnswer, Publish, NextBatch, Crash, vars
      <3>2. HasRows(db, pending[k]) /\ pending[k] \in Reqs
        BY <3>1 DEF AckInv
      <3>3. QED
        BY <3>1, <3>2, FileGrows
    <2>4. QED
      BY <2>1, <2>2, <2>3
  <1>5. QED
    BY <1>1, <1>2, <1>3, <1>4 DEF AckInv, AckedIsStored, HasRows, HasRow

\* AckInv, the inductive invariant, holds in every reachable state.
THEOREM AckInvHolds == Spec => []AckInv
  <1>1. Init => AckInv
    BY DEF Init, AckInv, AckedIsStored
  <1>2. TypeOK /\ TypeOK' /\ AckInv /\ [Next]_vars => AckInv'
    BY AckInvStep
  <1>3. QED
    BY <1>1, <1>2, TypeCorrect, PTL DEF Spec

\* A call that was answered Ok has all its rows in the file: whatever
\* statements, transactions, commits and processes fail around it.
THEOREM Durable == Spec => []AckedIsStored
  <1>1. AckInv => AckedIsStored
    BY DEF AckInv
  <1>2. QED
    BY <1>1, AckInvHolds, PTL

-----------------------------------------------------------------------------
(* Readers and replicas, when COMMIT never leaves its transaction open.    *)

\* TxInv: the connection is in a transaction only while a batch is executed.
TxInv == inTx => phase = "exec"

\* A reader that gets the mutex sees committed rows only, provided a failed
\* COMMIT rolls back ("open" is the failure that does not).
THEOREM ReadersSeeCommitted ==
    ASSUME "open" \notin Faults
    PROVE  Spec => []NoDirtyRead
  <1>1. Init => TxInv
    BY DEF Init, TxInv
  <1>2. TypeOK /\ TxInv /\ [Next]_vars => TxInv'
    BY DEF TypeOK, TxInv, Next, Callers, Task, Submit, Cancel, Close,
      RecvFirst, Stop, Fill, CloseBatch, Begin, BeginFails, ExecOk, Run, ExecFails, FailsOn, Fail,
      Abort, Commit, CommitFails, CommitFailedAnswer, Publish, Reply, NextBatch, Crash, vars
  <1>3. TxInv => NoDirtyRead
    BY DEF TxInv, NoDirtyRead, MutexFree, Visible
  <1>4. QED
    BY <1>1, <1>2, <1>3, TypeCorrect, PTL DEF Spec

\* The rows a sequence has after position b, when more are appended.
LEMMA SuffixConcat ==
    ASSUME NEW s \in Seq(RowIds), NEW t \in Seq(RowIds), NEW b \in 0..Len(s)
    PROVE  SubSeq(s \o t, b + 1, Len(s \o t)) = SubSeq(s, b + 1, Len(s)) \o t
  <1> DEFINE u == SubSeq(s \o t, b + 1, Len(s \o t))
             v == SubSeq(s, b + 1, Len(s)) \o t
  <1>1. /\ s \o t \in Seq(RowIds)
        /\ Len(s \o t) = Len(s) + Len(t)
        /\ Len(s) \in Nat /\ Len(t) \in Nat
    BY ConcatProperties, LenProperties
  <1>2. u \in Seq(RowIds) /\ Len(u) = Len(s) + Len(t) - b
    BY <1>1, SubSeqProperties
  <1>3. /\ SubSeq(s, b + 1, Len(s)) \in Seq(RowIds)
        /\ Len(SubSeq(s, b + 1, Len(s))) = Len(s) - b
    BY <1>1, SubSeqProperties
  <1>4. v \in Seq(RowIds) /\ Len(v) = Len(s) + Len(t) - b
    <2>1. v \in Seq(RowIds) /\ Len(v) = Len(SubSeq(s, b + 1, Len(s))) + Len(t)
      BY <1>3, ConcatProperties
    <2>2. QED
      BY <1>1, <1>3, <2>1
  <1>5. ASSUME NEW i \in 1..Len(u) PROVE u[i] = v[i]
    BY <1>1, <1>2, <1>3, <1>4, ConcatProperties, SubSeqProperties
  <1>6. QED
    BY <1>2, <1>4, <1>5, SeqEqual

\* EventsInv: why EventsFollowCommits holds.  Only COMMIT adds rows to the
\* file, because the batch never runs outside its transaction.
EventsInv ==
    /\ EventsFollowCommits
    /\ base =< Len(db)
    /\ inTx <=> phase = "exec"

\* The rows broadcast since the start are the rows committed since the start,
\* in commit order, provided SQLite never ends the transaction behind the back
\* of the batch ("abort") and a failed COMMIT rolls back.
THEOREM PublishedInCommitOrder ==
    ASSUME "open" \notin Faults, "abort" \notin Faults
    PROVE  Spec => []EventsFollowCommits
  <1>1. Init => EventsInv
    BY EmptySeq, SubSeqEmpty DEF Init, EventsInv, EventsFollowCommits
  <1>2. TypeOK /\ EventsInv /\ [Next]_vars => EventsInv'
    <2> SUFFICES ASSUME TypeOK, EventsInv, [Next]_vars PROVE EventsInv'
      OBVIOUS
    <2>0. Len(db) \in Nat /\ base \in 0..Len(db)
      BY LenProperties DEF TypeOK, EventsInv
    <2>1. CASE Commit
      <3>1. /\ events = SubSeq(db, base + 1, Len(db))
            /\ db' = db \o changes /\ base' = base /\ events' = events
            /\ changes' = changes /\ phase' = "publish"
        <4>1. events \in Seq(RowIds) /\ events \o <<>> = events
          BY ConcatEmptySeq DEF TypeOK
        <4>2. QED
          BY <2>1, <4>1 DEF Commit, EventsInv, EventsFollowCommits
      <3>2. db \in Seq(RowIds) /\ changes \in Seq(RowIds)
        BY DEF TypeOK
      <3>3. SubSeq(db', base' + 1, Len(db')) = events' \o changes'
        BY <2>0, <3>1, <3>2, SuffixConcat
      <3>4. Len(db') = Len(db) + Len(changes) /\ Len(changes) \in Nat
        BY <3>1, <3>2, ConcatProperties, LenProperties
      <3>5. base' =< Len(db') /\ ~inTx'
        BY <2>0, <2>1, <3>1, <3>4 DEF Commit
      <3>6. QED
        BY <3>1, <3>3, <3>5 DEF EventsInv, EventsFollowCommits
    <2>2. CASE Publish
      <3>1. events' \in Seq(RowIds)
        BY <2>2, ConcatProperties DEF Publish, Changeset, TypeOK
      <3>2. events' \o <<>> = events'
        BY <3>1, ConcatEmptySeq
      <3>3. QED
        BY <2>2, <3>2 DEF Publish, Changeset, EventsInv, EventsFollowCommits
    <2>3. CASE Crash
      <3>1. db \in Seq(RowIds) /\ SubSeq(db, Len(db) + 1, Len(db)) = <<>>
        BY <2>0, SubSeqEmpty DEF TypeOK
      <3>2. QED
        BY <2>0, <2>3, <3>1, EmptySeq DEF Crash, EventsInv, EventsFollowCommits
    <2>4. CASE ~Commit /\ ~Publish /\ ~Crash
      <3>1. UNCHANGED <<db, base, events>>
        BY <2>4 DEF TypeOK, EventsInv, Next, Callers, Task, Submit, Cancel,
          Close, RecvFirst, Stop, Fill, CloseBatch, Begin, BeginFails, ExecOk, Run,
          ExecFails, FailsOn, Fail, Abort, CommitFails, Reply, NextBatch, Write, vars
      <3>2. /\ inTx' <=> phase' = "exec"
            /\ phase' = "publish" <=> phase = "publish"
            /\ phase = "publish" => changes' = changes
        BY <2>4 DEF TypeOK, EventsInv, Next, Callers, Task, Submit, Cancel,
          Close, RecvFirst, Stop, Fill, CloseBatch, Begin, BeginFails, ExecOk, Run,
          ExecFails, FailsOn, Fail, Abort, CommitFails, Reply, NextBatch, vars
      <3>3. QED
        BY <3>1, <3>2 DEF EventsInv, EventsFollowCommits
    <2>5. QED
      BY <2>1, <2>2, <2>3, <2>4
  <1>3. EventsInv => EventsFollowCommits
    BY DEF EventsInv
  <1>4. QED
    BY <1>1, <1>2, <1>3, TypeCorrect, PTL DEF Spec

-----------------------------------------------------------------------------
(* The order and the content of the file, and the promise of WriteLog.     *)
(* First the inductive invariants.                                         *)

\* How many of the accepted requests have left the channel and the batch:
\* executed, refused with their batch, or lost with the process.
Done == Len(arrivals) - Len(buffer) - Len(queue)

\* Request r is one of the first n of a line.
AmongFirst(r, line, n) == \E a \in 1..n : line[a] = r

\* LineInv: a request is accepted once; the batch and then the channel hold
\* the requests accepted last, in the order of their arrival.
LineInv ==
    /\ Done \in Nat
    /\ \A a, b \in 1..Len(arrivals) : arrivals[a] = arrivals[b] => a = b
    /\ \A a \in 1..Len(arrivals) : status[arrivals[a]] # "idle"
    /\ \A k \in 1..Len(buffer) : arrivals[Done + k] = buffer[k]
    /\ \A k \in 1..Len(queue) : arrivals[Done + Len(buffer) + k] = queue[k]
    /\ phase \in {"recv", "stopped", "publish", "reply"} => buffer = <<>>

\* Row x comes before row y: its request is earlier in the line, or it is an
\* earlier row of the same request.
RowBefore(x, y, line) ==
    \A a, b \in 1..Len(line) :
        line[a] = x[1] /\ line[b] = y[1] => a < b \/ (a = b /\ x[2] < y[2])

\* The rows of v belong to the first n requests of a line, and are sorted.
RowsSorted(v, line, n) ==
    /\ \A j \in 1..Len(v) : AmongFirst(v[j][1], line, n)
    /\ \A j, k \in 1..Len(v) : j < k => RowBefore(v[j], v[k], line)

\* OrderInv: the rows a query on the connection sees (the file and the open
\* transaction) are sorted.
OrderInv ==
    /\ phase \in {"publish", "reply"} => ~inTx
    /\ RowsSorted(Visible, arrivals, Done)

\* RefusedInv: a request that waits on the open transaction has nothing in the
\* file, and what was refused is not complete in the transaction.
RefusedInv ==
    /\ RefusedIsNotStored
    /\ phase = "exec" => inTx
    /\ \A k \in 1..Len(pending) : AmongFirst(pending[k], arrivals, Done)
    /\ \A a \in 1..Len(arrivals) : a > Done => status[arrivals[a]] # "err"
    /\ phase = "exec" =>
          /\ \A k \in 1..Len(pending), j \in 1..Len(db) : db[j][1] # pending[k]
          /\ \A r \in Reqs : status[r] = "err" /\ Rows[r] > 0
                => ~HasRow(changes, <<r, Rows[r]>>)

\* Row k of v is a row of a request that has no row in the file, it follows the
\* row before it of its request, and the row after it follows it unless its
\* caller has stopped waiting.
InBlock(v, k, file, st) ==
    LET req == v[k][1]
        i == v[k][2]
    IN /\ i \in 1..Rows[req]
       /\ \A j \in 1..Len(file) : file[j][1] # req
       /\ i > 1 => k > 1 /\ v[k - 1] = <<req, i - 1>>
       /\ i < Rows[req] /\ st[req] = "waiting"
            => k < Len(v) /\ v[k + 1] = <<req, i + 1>>

\* BlocksInv: the open transaction is a sequence of such blocks.
BlocksInv ==
    phase = "exec" => \A k \in 1..Len(changes) : InBlock(changes, k, db, status)

-----------------------------------------------------------------------------
(* What a step can do to the callers and to the line.                      *)

\* Who can change what a caller knows: the caller, or an answer.
LEMMA CallerTold ==
    ASSUME [Next]_vars, status' # status
    PROVE  \/ \E q \in Reqs : Submit(q) \/ Cancel(q)
           \/ \E R : Answer(R, "ok") \/ Answer(R, "err") \/ Answer(R, "dropped")
  <1>1. CASE BeginFails \/ CommitFails \/ ExecFails
    <2>1. \E R : Answer(R, "err")
      BY <1>1 DEF BeginFails, CommitFails, CommitFailedAnswer, ExecFails, FailsOn,
        Fail, Abort
    <2>2. QED
      BY <2>1
  <1>2. CASE Reply \/ Crash
    <2>1. \E R : Answer(R, "ok") \/ Answer(R, "dropped")
      BY <1>2 DEF Reply, Crash
    <2>2. QED
      BY <2>1
  <1>3. CASE \E q \in Reqs : Submit(q) \/ Cancel(q)
    BY <1>3
  <1>4. ASSUME ~BeginFails, ~CommitFails, ~ExecFails, ~Reply, ~Crash,
               ~\E q \in Reqs : Submit(q) \/ Cancel(q)
        PROVE  FALSE
    <2>1. Close \/ RecvFirst \/ Stop \/ Fill \/ CloseBatch \/ Begin \/ ExecOk
          \/ Commit \/ Publish \/ NextBatch \/ UNCHANGED vars
      BY <1>4 DEF Next, Callers, Task
    <2>2. status' = status
      BY <2>1 DEF Close, RecvFirst, Stop, Fill, CloseBatch, Begin, ExecOk, Run,
        Commit, Publish, NextBatch, vars
    <2>3. QED
      BY <2>2
  <1>5. QED
    BY <1>1, <1>2, <1>3, <1>4

\* A caller that has its answer keeps it, and an accepted call is never idle
\* again.
LEMMA AnswersAreFinal ==
    ASSUME TypeOK, [Next]_vars, NEW r \in Reqs
    PROVE  /\ status[r] \notin {"idle", "waiting"} => status'[r] = status[r]
           /\ status[r] # "idle" => status'[r] # "idle"
  <1> DEFINE P == /\ status[r] \notin {"idle", "waiting"} => status'[r] = status[r]
                  /\ status[r] # "idle" => status'[r] # "idle"
  <1>1. \A R : /\ Answer(R, "ok") => P
               /\ Answer(R, "err") => P
               /\ Answer(R, "dropped") => P
    BY DEF Answer
  <1>2. \A q \in Reqs : Submit(q) \/ Cancel(q) => P
    BY DEF Submit, Cancel, TypeOK
  <1>3. status' = status => P
    OBVIOUS
  <1>4. CASE status' # status
    <2>1. \/ \E q \in Reqs : Submit(q) \/ Cancel(q)
          \/ \E R : Answer(R, "ok") \/ Answer(R, "err") \/ Answer(R, "dropped")
      BY <1>4, CallerTold
    <2>2. QED
      BY <1>1, <1>2, <2>1
  <1>5. QED
    BY <1>3, <1>4

\* The steps that leave the line alone, apart from what callers know.
LineKept == UNCHANGED <<arrivals, buffer, queue>>

\* The task takes the head of the batch off it.
HeadDone ==
    /\ phase = "exec" /\ phase' = "exec"
    /\ buffer # <<>> /\ buffer' = Tail(buffer)
    /\ UNCHANGED <<arrivals, queue>>

\* What a step does to the line: a request joins it, moves from the channel to
\* the batch, or leaves it from the head of the batch, with the batch or with
\* the process.
LEMMA LineStep ==
    ASSUME [Next]_vars
    PROVE  \/ \E r \in Reqs : Submit(r)
           \/ RecvFirst
           \/ Fill
           \/ HeadDone /\ (ExecOk \/ ExecFails)
           \/ BeginFails
           \/ Crash
           \/ /\ LineKept
              /\ phase' \in {"recv", "stopped", "publish", "reply"}
                    => phase \in {"recv", "stopped", "publish", "reply"} \/ buffer = <<>>
  <1>1. CASE ExecOk \/ ExecFails
    <2>1. HeadDone
      BY <1>1 DEF HeadDone, ExecOk, Run, ExecFails, FailsOn, Fail, Abort
    <2>2. QED
      BY <1>1, <2>1
  <1>2. CASE \/ \E r \in Reqs : Cancel(r)
             \/ Close \/ Stop \/ CloseBatch \/ Begin \/ Commit \/ CommitFails
             \/ Publish \/ Reply \/ NextBatch \/ UNCHANGED vars
    <2>1. LineKept
      BY <1>2 DEF LineKept, Cancel, Close, Stop, CloseBatch, Begin, Commit,
        CommitFails, Publish, Reply, NextBatch, vars
    <2>2. phase' \in {"recv", "stopped", "publish", "reply"}
             => phase \in {"recv", "stopped", "publish", "reply"} \/ buffer = <<>>
      BY <1>2 DEF Cancel, Close, Stop, CloseBatch, Begin, Commit,
        CommitFails, Publish, Reply, NextBatch, vars
    <2>3. QED
      BY <2>1, <2>2
  <1>3. QED
    BY <1>1, <1>2 DEF Next, Callers, Task

-----------------------------------------------------------------------------
(* The line.                                                               *)

\* The line keeps its shape; what has left it never comes back.
LEMMA LineInvStep ==
    ASSUME TypeOK, TypeOK', LineInv, [Next]_vars
    PROVE  LineInv' /\ Done =< Done'
  <1>0. /\ \A r \in Reqs : status[r] # "idle" => status'[r] # "idle"
        /\ Len(arrivals) \in Nat /\ Len(buffer) \in Nat /\ Len(queue) \in Nat
        /\ Done \in Nat /\ Len(arrivals) = Done + Len(buffer) + Len(queue)
    <2>1. \A r \in Reqs : status[r] # "idle" => status'[r] # "idle"
      BY AnswersAreFinal
    <2>2. Len(arrivals) \in Nat /\ Len(buffer) \in Nat /\ Len(queue) \in Nat
      BY LenProperties DEF TypeOK
    <2>3. Done \in Nat
      BY DEF LineInv
    <2>4. QED
      BY <2>1, <2>2, <2>3 DEF Done
  <1>a. \A a, b \in 1..Len(arrivals) : arrivals[a] = arrivals[b] => a = b
    BY DEF LineInv
  <1>b. \A a \in 1..Len(arrivals) : status[arrivals[a]] # "idle" /\ arrivals[a] \in Reqs
    <2>1. arrivals \in Seq(Reqs)
      BY DEF TypeOK
    <2>2. QED
      BY <2>1 DEF LineInv
  <1>c. \A k \in 1..Len(buffer) : arrivals[Done + k] = buffer[k]
    BY DEF LineInv
  <1>d. \A k \in 1..Len(queue) : arrivals[Done + Len(buffer) + k] = queue[k]
    BY DEF LineInv
  <1>1. ASSUME UNCHANGED arrivals
        PROVE  /\ \A a, b \in 1..Len(arrivals') : arrivals'[a] = arrivals'[b] => a = b
               /\ \A a \in 1..Len(arrivals') : status'[arrivals'[a]] # "idle"
    BY <1>0, <1>1, <1>a, <1>b
  <1>2. ASSUME NEW r \in Reqs, Submit(r) PROVE LineInv' /\ Done =< Done'
    <2>1. /\ arrivals' = Append(arrivals, r) /\ queue' = Append(queue, r)
          /\ UNCHANGED <<buffer, phase>> /\ status[r] = "idle"
          /\ status'[r] # "idle"
      BY <1>2 DEF Submit, TypeOK
    <2>2. /\ Len(arrivals') = Len(arrivals) + 1 /\ Len(queue') = Len(queue) + 1
          /\ \A i \in 1..Len(arrivals) : arrivals'[i] = arrivals[i]
          /\ arrivals'[Len(arrivals) + 1] = r
          /\ \A i \in 1..Len(queue) : queue'[i] = queue[i]
          /\ queue'[Len(queue) + 1] = r
      BY <2>1, AppendProperties DEF TypeOK
    <2>3. Done' = Done
      BY <1>0, <2>1, <2>2 DEF Done
    <2>4. \A a \in 1..Len(arrivals) : arrivals[a] # r /\ arrivals[a] \in Reqs
      BY <1>b, <2>1
    <2>5. \A a, b \in 1..Len(arrivals') : arrivals'[a] = arrivals'[b] => a = b
      BY <1>0, <1>a, <2>2, <2>4
    <2>6. \A a \in 1..Len(arrivals') : status'[arrivals'[a]] # "idle"
      BY <1>0, <1>b, <2>1, <2>2, <2>4
    <2>7. \A k \in 1..Len(buffer') : arrivals'[Done' + k] = buffer'[k]
      BY <1>0, <1>c, <1>d, <2>1, <2>2, <2>3
    <2>8. \A k \in 1..Len(queue') : arrivals'[Done' + Len(buffer') + k] = queue'[k]
      <3> SUFFICES ASSUME NEW k \in 1..Len(queue')
                   PROVE  arrivals'[Done' + Len(buffer') + k] = queue'[k]
        OBVIOUS
      <3>1. CASE k = Len(queue')
        <4>1. Done' + Len(buffer') + k = Len(arrivals) + 1
          BY <1>0, <2>1, <2>2, <2>3, <3>1
        <4>2. QED
          BY <2>2, <3>1, <4>1
      <3>2. CASE k \in 1..Len(queue)
        <4>1. Done + Len(buffer) + k \in 1..Len(arrivals)
          BY <1>0, <3>2
        <4>2. QED
          BY <1>d, <2>1, <2>2, <2>3, <3>2, <4>1
      <3>3. QED
        BY <1>0, <2>2, <3>1, <3>2
    <2>9. QED
      BY <1>0, <2>1, <2>3, <2>5, <2>6, <2>7, <2>8 DEF LineInv
  <1>3. CASE RecvFirst
    <2>1. buffer = <<>> /\ Len(buffer) = 0
      BY <1>3, EmptySeq DEF RecvFirst, LineInv
    <2>2. /\ UNCHANGED arrivals /\ phase' = "fill"
          /\ buffer' = <<Head(queue)>> /\ Len(buffer') = 1 /\ buffer'[1] = queue[1]
          /\ Len(queue') = Len(queue) - 1
          /\ \A i \in 1..Len(queue') : queue'[i] = queue[i + 1]
          /\ 1 \in 1..Len(queue)
      BY <1>3 DEF RecvFirst, TypeOK
    <2>3. Done' = Done
      BY <1>0, <2>1, <2>2 DEF Done
    <2>4. \A k \in 1..Len(buffer') : arrivals'[Done' + k] = buffer'[k]
      BY <1>0, <1>c, <1>d, <2>1, <2>2, <2>3
    <2>5. \A k \in 1..Len(queue') : arrivals'[Done' + Len(buffer') + k] = queue'[k]
      BY <1>0, <1>d, <2>1, <2>2, <2>3
    <2>6. QED
      BY <1>0, <1>1, <2>2, <2>3, <2>4, <2>5 DEF LineInv
  <1>4. CASE Fill
    <2>1. /\ UNCHANGED arrivals /\ phase' = "fill" /\ Head(queue) = queue[1]
          /\ Len(buffer') = Len(buffer) + 1
          /\ \A i \in 1..Len(buffer) : buffer'[i] = buffer[i]
          /\ buffer'[Len(buffer) + 1] = queue[1]
          /\ Len(queue') = Len(queue) - 1
          /\ \A i \in 1..Len(queue') : queue'[i] = queue[i + 1]
          /\ 1 \in 1..Len(queue)
      BY <1>4 DEF Fill, TypeOK
    <2>2. Done' = Done
      BY <1>0, <2>1 DEF Done
    <2>3. \A k \in 1..Len(buffer') : arrivals'[Done' + k] = buffer'[k]
      <3>1. arrivals[Done + Len(buffer) + 1] = queue[1] /\ 1 \in 1..Len(queue)
        BY <1>0, <1>d, <2>1
      <3>2. ASSUME NEW k \in 1..Len(buffer') PROVE arrivals'[Done' + k] = buffer'[k]
        <4>1. CASE k = Len(buffer) + 1
          <5>1. Done' + k = Done + Len(buffer) + 1
            BY <1>0, <2>2, <4>1
          <5>2. QED
            BY <2>1, <3>1, <4>1, <5>1
        <4>2. CASE k \in 1..Len(buffer)
          BY <1>c, <2>1, <2>2, <4>2
        <4>3. QED
          BY <1>0, <2>1, <4>1, <4>2
      <3>3. QED
        BY <3>2
    <2>4. \A k \in 1..Len(queue') : arrivals'[Done' + Len(buffer') + k] = queue'[k]
      BY <1>0, <1>d, <2>1, <2>2
    <2>5. QED
      BY <1>0, <1>1, <2>1, <2>2, <2>3, <2>4 DEF LineInv
  <1>5. CASE HeadDone
    <2>1. /\ UNCHANGED <<arrivals, queue>> /\ phase' = "exec"
          /\ Len(buffer') = Len(buffer) - 1
          /\ \A i \in 1..Len(buffer') : buffer'[i] = buffer[i + 1]
      BY <1>5 DEF HeadDone, TypeOK
    <2>2. Done' = Done + 1
      BY <1>0, <2>1 DEF Done
    <2>3. \A k \in 1..Len(buffer') : arrivals'[Done' + k] = buffer'[k]
      <3>1. ASSUME NEW k \in 1..Len(buffer') PROVE arrivals'[Done' + k] = buffer'[k]
        <4>1. k + 1 \in 1..Len(buffer) /\ Done' + k = Done + (k + 1)
          BY <1>0, <2>1, <2>2
        <4>2. QED
          BY <1>c, <2>1, <4>1
      <3>2. QED
        BY <3>1
    <2>4. \A k \in 1..Len(queue') : arrivals'[Done' + Len(buffer') + k] = queue'[k]
      BY <1>0, <1>d, <2>1, <2>2
    <2>5. QED
      BY <1>0, <1>1, <2>1, <2>2, <2>3, <2>4 DEF LineInv
  <1>6. CASE BeginFails
    <2>1. /\ UNCHANGED <<arrivals, queue>> /\ buffer' = <<>> /\ Len(buffer') = 0
      BY <1>6, EmptySeq DEF BeginFails
    <2>2. Done' = Done + Len(buffer)
      BY <1>0, <2>1 DEF Done
    <2>3. \A k \in 1..Len(queue') : arrivals'[Done' + Len(buffer') + k] = queue'[k]
      BY <1>0, <1>d, <2>1, <2>2
    <2>4. QED
      BY <1>0, <1>1, <2>1, <2>2, <2>3 DEF LineInv
  <1>7. CASE Crash
    <2>1. /\ UNCHANGED arrivals /\ buffer' = <<>> /\ queue' = <<>>
          /\ Len(buffer') = 0 /\ Len(queue') = 0
      BY <1>7, EmptySeq DEF Crash
    <2>2. Done' = Len(arrivals)
      BY <1>0, <2>1 DEF Done
    <2>3. QED
      BY <1>0, <1>1, <2>1, <2>2 DEF LineInv
  <1>8. ASSUME LineKept,
               phase' \in {"recv", "stopped", "publish", "reply"}
                  => phase \in {"recv", "stopped", "publish", "reply"} \/ buffer = <<>>
        PROVE  LineInv' /\ Done =< Done'
    BY <1>0, <1>1, <1>8 DEF LineKept, LineInv, Done
  <1>9. QED
    BY <1>2, <1>3, <1>4, <1>5, <1>6, <1>7, <1>8, LineStep

\* LineInv holds in every reachable state.
LEMMA LineInvHolds == Spec => []LineInv
  <1>1. Init => LineInv
    BY EmptySeq DEF Init, LineInv, Done
  <1>2. TypeOK /\ TypeOK' /\ LineInv /\ [Next]_vars => LineInv'
    BY LineInvStep
  <1>3. QED
    BY <1>1, <1>2, TypeCorrect, PTL DEF Spec

-----------------------------------------------------------------------------
(* The rows, in the order of the line.                                     *)

\* Rows that are sorted stay so when requests join the line or leave it.
LEMMA SortedKept ==
    ASSUME NEW v \in Seq(RowIds), NEW line \in Seq(Reqs), NEW longer \in Seq(Reqs),
           NEW n \in Nat, NEW m \in Nat, n =< m, n =< Len(line),
           Len(line) =< Len(longer),
           \A a \in 1..Len(line) : longer[a] = line[a],
           \A a, b \in 1..Len(longer) : longer[a] = longer[b] => a = b,
           RowsSorted(v, line, n)
    PROVE  RowsSorted(v, longer, m)
  <1>0. Len(line) \in Nat /\ Len(longer) \in Nat /\ Len(v) \in Nat
    BY LenProperties
  <1>1. ASSUME NEW j \in 1..Len(v)
        PROVE  /\ AmongFirst(v[j][1], longer, m)
               /\ \A a \in 1..Len(longer) : longer[a] = v[j][1]
                     => a \in 1..Len(line) /\ line[a] = v[j][1]
    <2>1. PICK a \in 1..n : line[a] = v[j][1]
      BY DEF RowsSorted, AmongFirst
    <2>2. a \in 1..m /\ a \in 1..Len(line) /\ a \in 1..Len(longer) /\ longer[a] = v[j][1]
      BY <1>0, <2>1
    <2>3. QED
      BY <2>1, <2>2 DEF AmongFirst
  <1>2. ASSUME NEW j \in 1..Len(v), NEW k \in 1..Len(v), j < k
        PROVE  RowBefore(v[j], v[k], longer)
    <2>1. RowBefore(v[j], v[k], line)
      BY <1>2 DEF RowsSorted
    <2>2. QED
      BY <1>1, <2>1 DEF RowBefore
  <1>3. QED
    BY <1>1, <1>2 DEF RowsSorted

\* The rows before some of them are sorted too.
LEMMA SortedPrefix ==
    ASSUME NEW s \in Seq(RowIds), NEW t \in Seq(RowIds), NEW line, NEW n,
           RowsSorted(s \o t, line, n)
    PROVE  RowsSorted(s, line, n)
  <1>1. /\ Len(s) \in Nat /\ Len(t) \in Nat /\ Len(s \o t) = Len(s) + Len(t)
        /\ \A j \in 1..Len(s) : j \in 1..Len(s \o t) /\ (s \o t)[j] = s[j]
    BY ConcatProperties, LenProperties
  <1>2. QED
    BY <1>1 DEF RowsSorted

\* What is where in a concatenation.
LEMMA ConcatElements ==
    ASSUME NEW S, NEW s \in Seq(S), NEW t \in Seq(S)
    PROVE  /\ s \o t \in Seq(S)
           /\ Len(s) \in Nat /\ Len(t) \in Nat
           /\ Len(s \o t) = Len(s) + Len(t)
           /\ \A j \in 1..Len(s) : (s \o t)[j] = s[j]
           /\ \A j \in 1..Len(s \o t) : j > Len(s) =>
                 j - Len(s) \in 1..Len(t) /\ (s \o t)[j] = t[j - Len(s)]
  BY ConcatProperties, LenProperties

\* What is where when a block follows other rows.
LEMMA BlockAt ==
    ASSUME NEW v \in Seq(RowIds), NEW r \in Reqs, NEW m \in Nat
    PROVE  /\ Len(v \o RowsOf(r, m)) = Len(v) + m
           /\ \A j \in 1..Len(v) : (v \o RowsOf(r, m))[j] = v[j]
           /\ \A j \in 1..Len(v \o RowsOf(r, m)) :
                 j > Len(v) => (v \o RowsOf(r, m))[j] = <<r, j - Len(v)>>
  <1> DEFINE block == RowsOf(r, m)
  <1> HIDE DEF block
  <1>1. block \in Seq(RowIds) /\ Len(block) = m /\ \A i \in 1..m : block[i] = <<r, i>>
    BY RowsOfType DEF block
  <1>2. /\ Len(v \o block) = Len(v) + m
        /\ \A j \in 1..Len(v) : (v \o block)[j] = v[j]
        /\ \A j \in 1..Len(v \o block) : j > Len(v) => (v \o block)[j] = <<r, j - Len(v)>>
    <2>1. Len(v \o block) = Len(v) + m /\ \A j \in 1..Len(v) : (v \o block)[j] = v[j]
      BY <1>1, ConcatElements
    <2>2. ASSUME NEW j \in 1..Len(v \o block), j > Len(v)
          PROVE  (v \o block)[j] = <<r, j - Len(v)>>
      <3>1. j - Len(v) \in 1..Len(block) /\ (v \o block)[j] = block[j - Len(v)]
        BY <1>1, <2>2, ConcatElements
      <3>2. QED
        BY <1>1, <3>1
    <2>3. QED
      BY <2>1, <2>2
  <1>3. QED
    BY <1>2 DEF block

\* The block of the next request of the line comes last.
LEMMA SortedBlock ==
    ASSUME NEW v \in Seq(RowIds), NEW line \in Seq(Reqs), NEW n \in Nat,
           NEW m \in Nat, NEW r \in Reqs, n + 1 \in 1..Len(line), line[n + 1] = r,
           \A a, b \in 1..Len(line) : line[a] = line[b] => a = b,
           RowsSorted(v, line, n)
    PROVE  RowsSorted(v \o RowsOf(r, m), line, n + 1)
  <1> DEFINE w == v \o RowsOf(r, m)
  <1>0. Len(v) \in Nat /\ Len(line) \in Nat
    BY LenProperties
  <1>1. /\ Len(w) = Len(v) + m
        /\ \A j \in 1..Len(v) : w[j] = v[j]
        /\ \A j \in 1..Len(w) : j > Len(v) => w[j] = <<r, j - Len(v)>>
    BY BlockAt
  <1> HIDE DEF w
  <1>2. ASSUME NEW j \in 1..Len(v)
        PROVE  /\ AmongFirst(w[j][1], line, n + 1)
               /\ \A a \in 1..Len(line) : line[a] = w[j][1] => a < n + 1
    <2>1. PICK a \in 1..n : line[a] = w[j][1]
      BY <1>1 DEF RowsSorted, AmongFirst
    <2>2. a \in 1..Len(line) /\ a \in 1..(n + 1)
      BY <1>0
    <2>3. QED
      BY <2>1, <2>2 DEF AmongFirst
  <1>3. ASSUME NEW j \in 1..Len(w), j > Len(v)
        PROVE  /\ AmongFirst(w[j][1], line, n + 1)
               /\ w[j][1] = r /\ w[j][2] = j - Len(v)
               /\ \A a \in 1..Len(line) : line[a] = w[j][1] => a = n + 1
    BY <1>1, <1>3 DEF AmongFirst
  <1>4. ASSUME NEW j \in 1..Len(w), NEW k \in 1..Len(w), j < k
        PROVE  RowBefore(w[j], w[k], line)
    <2>1. CASE k =< Len(v)
      <3>1. j \in 1..Len(v) /\ k \in 1..Len(v) /\ w[j] = v[j] /\ w[k] = v[k]
        BY <1>0, <1>1, <1>4, <2>1
      <3>2. QED
        BY <1>4, <3>1 DEF RowsSorted
    <2>2. CASE j =< Len(v) /\ k > Len(v)
      <3>1. j \in 1..Len(v)
        BY <1>0, <2>2
      <3>2. QED
        BY <1>2, <1>3, <2>2, <3>1 DEF RowBefore
    <2>3. CASE j > Len(v)
      <3>1. k > Len(v) /\ w[j][2] < w[k][2] /\ w[j][1] = r /\ w[k][1] = r
        BY <1>0, <1>1, <1>3, <1>4, <2>3
      <3>2. QED
        BY <3>1 DEF RowBefore
    <2>4. QED
      BY <1>0, <1>1, <2>1, <2>2, <2>3
  <1>5. ASSUME NEW j \in 1..Len(w) PROVE AmongFirst(w[j][1], line, n + 1)
    BY <1>0, <1>2, <1>3
  <1>6. RowsSorted(w, line, n + 1)
    BY <1>4, <1>5 DEF RowsSorted
  <1>7. QED
    BY <1>6 DEF w

\* A written block comes after all the rows that are visible.
LEMMA WriteAppends ==
    ASSUME TypeOK, NEW r \in Reqs, NEW m \in Nat, Write(r, m), UNCHANGED inTx
    PROVE  Visible' = Visible \o RowsOf(r, m)
  <1>0. db \in Seq(RowIds) /\ changes \in Seq(RowIds)
    BY DEF TypeOK
  <1>1. RowsOf(r, m) \in Seq(RowIds)
    BY RowsOfType
  <1>2. CASE inTx
    <2>1. db' = db /\ changes' = changes \o RowsOf(r, m)
      BY <1>2 DEF Write
    <2>2. (db \o changes) \o RowsOf(r, m) = db \o (changes \o RowsOf(r, m))
      BY <1>0, <1>1, ConcatAssociative
    <2>3. QED
      BY <1>2, <2>1, <2>2 DEF Visible
  <1>3. CASE ~inTx
    BY <1>3 DEF Write, Visible
  <1>4. QED
    BY <1>2, <1>3

\* What a step does to the rows that are visible: the head of the batch adds
\* a block, or rows of the transaction are lost, or nothing.
LEMMA RowsStep ==
    ASSUME TypeOK, OrderInv, [Next]_vars
    PROVE  \/ /\ HeadDone
              /\ \E m \in 0..Rows[Head(buffer)] :
                    Visible' = Visible \o RowsOf(Head(buffer), m)
           \/ Visible' = Visible
           \/ Visible' = db
  <1>0. /\ db \in Seq(RowIds) /\ changes \in Seq(RowIds)
        /\ buffer # <<>> => Head(buffer) \in Reqs /\ Rows[Head(buffer)] \in Nat
    BY ConstantsAssumption DEF TypeOK
  <1>1. CASE ExecOk
    <2>1. HeadDone /\ Write(Head(buffer), Rows[Head(buffer)]) /\ UNCHANGED inTx
          /\ buffer # <<>>
      BY <1>1 DEF ExecOk, Run, HeadDone
    <2>2. Visible' = Visible \o RowsOf(Head(buffer), Rows[Head(buffer)])
      BY <1>0, <2>1, WriteAppends
    <2>3. Rows[Head(buffer)] \in 0..Rows[Head(buffer)]
      BY <1>0, <2>1
    <2>4. QED
      BY <2>1, <2>2, <2>3
  <1>2. CASE ExecFails
    <2>1. CASE Fail(Head(buffer), Tail(buffer))
      <3>1. HeadDone /\ UNCHANGED inTx /\ buffer # <<>>
            /\ \E m \in 0..Rows[Head(buffer)] : Write(Head(buffer), m)
        BY <1>2, <2>1 DEF ExecFails, Fail, HeadDone
      <3>2. PICK m \in 0..Rows[Head(buffer)] : Write(Head(buffer), m)
        BY <3>1
      <3>3. m \in Nat /\ Head(buffer) \in Reqs
        BY <1>0, <3>1
      <3>4. Visible' = Visible \o RowsOf(Head(buffer), m)
        BY <1>0, <3>1, <3>2, <3>3, WriteAppends
      <3>5. QED
        BY <3>1, <3>4
    <2>2. CASE Abort(Head(buffer), Tail(buffer))
      BY <2>2 DEF Abort, Visible
    <2>3. QED
      BY <1>2, <2>1, <2>2 DEF ExecFails, FailsOn
  <1>3. CASE Begin
    BY <1>0, <1>3, ConcatEmptySeq DEF Begin, Visible
  <1>4. CASE Commit
    BY <1>4 DEF Commit, Visible
  <1>5. CASE CommitFails
    BY <1>5 DEF CommitFails, Visible
  <1>6. CASE Publish
    BY <1>6 DEF Publish, OrderInv, Visible
  <1>7. CASE Crash
    BY <1>7 DEF Crash, Visible
  <1>8. CASE \/ \E r \in Reqs : Submit(r) \/ Cancel(r)
             \/ Close \/ RecvFirst \/ Stop \/ Fill \/ CloseBatch \/ BeginFails
             \/ Reply \/ NextBatch \/ UNCHANGED vars
    <2>1. UNCHANGED <<db, inTx, changes>>
      BY <1>8 DEF Submit, Cancel, Close, RecvFirst, Stop, Fill, CloseBatch,
        BeginFails, Reply, NextBatch, vars
    <2>2. QED
      BY <2>1 DEF Visible
  <1>9. QED
    BY <1>1, <1>2, <1>3, <1>4, <1>5, <1>6, <1>7, <1>8 DEF Next, Callers, Task

\* The line never loses a request.
LEMMA ArrivalsKept ==
    ASSUME TypeOK, [Next]_vars
    PROVE  Len(arrivals) =< Len(arrivals')
           /\ \A a \in 1..Len(arrivals) : arrivals'[a] = arrivals[a]
  <1>1. ASSUME NEW r \in Reqs, Submit(r)
        PROVE  Len(arrivals) =< Len(arrivals')
               /\ \A a \in 1..Len(arrivals) : arrivals'[a] = arrivals[a]
    <2>1. arrivals' = Append(arrivals, r) /\ arrivals \in Seq(Reqs)
      BY <1>1 DEF Submit, TypeOK
    <2>2. QED
      BY <2>1, AppendProperties, LenProperties
  <1>2. CASE UNCHANGED arrivals
    BY <1>2, LenProperties DEF TypeOK
  <1>3. RecvFirst \/ Fill \/ HeadDone \/ BeginFails \/ Crash \/ LineKept => UNCHANGED arrivals
    BY DEF RecvFirst, Fill, HeadDone, BeginFails, Crash, LineKept
  <1>4. QED
    BY <1>1, <1>2, <1>3, LineStep

\* The rows stay sorted.
LEMMA OrderInvStep ==
    ASSUME TypeOK, TypeOK', LineInv, LineInv', OrderInv, [Next]_vars
    PROVE  OrderInv'
  <1>1. phase' \in {"publish", "reply"} => ~inTx'
    <2>1. CASE phase' = phase
      <3>1. inTx' # inTx => phase' \notin {"publish", "reply"}
        BY <2>1 DEF Next, Callers, Task, Submit, Cancel, Close, RecvFirst, Stop,
          Fill, CloseBatch, Begin, BeginFails, ExecOk, Run, ExecFails, FailsOn, Fail,
          Abort, Commit, CommitFails, Publish, Reply, NextBatch, Crash, vars
      <3>2. QED
        BY <2>1, <3>1 DEF OrderInv
    <2>2. CASE phase' # phase /\ phase' \in {"publish", "reply"}
      <3>1. Commit \/ Publish
        BY <2>2 DEF Next, Callers, Task, Submit, Cancel, Close, RecvFirst, Stop,
          Fill, CloseBatch, Begin, BeginFails, ExecOk, Run, ExecFails, FailsOn, Fail,
          Abort, CommitFails, Reply, NextBatch, Crash, vars
      <3>2. QED
        BY <3>1 DEF Commit, Publish, OrderInv
    <2>3. QED
      BY <2>1, <2>2
  <1>2. /\ arrivals \in Seq(Reqs) /\ arrivals' \in Seq(Reqs)
        /\ db \in Seq(RowIds) /\ changes \in Seq(RowIds) /\ Visible \in Seq(RowIds)
        /\ Len(arrivals) \in Nat
    BY ConcatProperties, LenProperties DEF TypeOK, Visible
  <1>3. /\ Done \in Nat /\ Done' \in Nat /\ Done =< Done' /\ Done =< Len(arrivals)
        /\ Len(arrivals) =< Len(arrivals')
        /\ \A a \in 1..Len(arrivals) : arrivals'[a] = arrivals[a]
        /\ \A a, b \in 1..Len(arrivals') : arrivals'[a] = arrivals'[b] => a = b
    <2>1. Done =< Done'
      BY LineInvStep
    <2>2. Done \in Nat /\ Done' \in Nat
          /\ \A a, b \in 1..Len(arrivals') : arrivals'[a] = arrivals'[b] => a = b
      BY DEF LineInv
    <2>3. Done =< Len(arrivals)
      <3>1. Len(buffer) \in Nat /\ Len(queue) \in Nat
        BY LenProperties DEF TypeOK
      <3>2. QED
        BY <1>2, <3>1 DEF Done
    <2>4. QED
      BY <2>1, <2>2, <2>3, ArrivalsKept
  <1>4. RowsSorted(Visible', arrivals', Done')
    <2>1. CASE Visible' = Visible
      BY <1>2, <1>3, <2>1, SortedKept DEF OrderInv
    <2>2. CASE Visible' = db
      <3>1. RowsSorted(db, arrivals, Done)
        BY <1>2, SortedPrefix DEF OrderInv, Visible
      <3>2. QED
        BY <1>2, <1>3, <2>2, <3>1, SortedKept
    <2>3. ASSUME HeadDone, NEW m \in 0..Rows[Head(buffer)],
                 Visible' = Visible \o RowsOf(Head(buffer), m)
          PROVE  RowsSorted(Visible', arrivals', Done')
      <3>1. /\ Head(buffer) \in Reqs /\ Head(buffer) = buffer[1]
            /\ Len(buffer) \in Nat /\ Len(buffer) > 0 /\ Len(queue) \in Nat
            /\ UNCHANGED <<arrivals, queue>> /\ Len(buffer') = Len(buffer) - 1
        BY <2>3, LenProperties DEF HeadDone, TypeOK
      <3>2. Done' = Done + 1 /\ Done + 1 \in 1..Len(arrivals)
        BY <1>2, <1>3, <3>1 DEF Done
      <3>3. arrivals[Done + 1] = Head(buffer)
        BY <3>1 DEF LineInv
      <3>4. m \in Nat
        BY <3>1, ConstantsAssumption
      <3>5. QED
        BY <1>2, <1>3, <2>3, <3>1, <3>2, <3>3, <3>4, SortedBlock DEF OrderInv
    <2>4. QED
      BY <2>1, <2>2, <2>3, RowsStep
  <1>5. QED
    BY <1>1, <1>4 DEF OrderInv

\* OrderInv holds in every reachable state.
LEMMA OrderInvHolds == Spec => []OrderInv
  <1>1. Init => OrderInv
    BY EmptySeq DEF Init, OrderInv, RowsSorted, Visible
  <1>2. TypeOK /\ TypeOK' /\ LineInv /\ LineInv' /\ OrderInv /\ [Next]_vars => OrderInv'
    BY OrderInvStep
  <1>3. QED
    BY <1>1, <1>2, TypeCorrect, LineInvHolds, PTL DEF Spec

\* Under every fault, the file holds each row at most once, and the rows of a
\* request that was accepted earlier come earlier.
THEOREM RowsStayInOrder == Spec => []RowsInOrder
  <1>1. ASSUME TypeOK, LineInv, OrderInv PROVE RowsInOrder
    <2>1. /\ RowsSorted(db, arrivals, Done)
          /\ Len(db) \in Nat /\ DOMAIN db = 1..Len(db)
          /\ Len(arrivals) \in Nat /\ DOMAIN arrivals = 1..Len(arrivals)
          /\ Done \in Nat /\ Done =< Len(arrivals)
      <3>1. RowsSorted(db, arrivals, Done)
        BY <1>1, SortedPrefix DEF OrderInv, Visible, TypeOK
      <3>2. QED
        BY <1>1, <3>1, LenProperties DEF TypeOK, LineInv, Done
    <2>2. ASSUME NEW j \in 1..Len(db)
          PROVE  db[j][2] \in Nat /\ \E a \in 1..Len(arrivals) : arrivals[a] = db[j][1]
      <3>1. db[j] \in RowIds
        BY <1>1 DEF TypeOK
      <3>2. PICK a \in 1..Done : arrivals[a] = db[j][1]
        BY <2>1 DEF RowsSorted, AmongFirst
      <3>3. QED
        BY <2>1, <3>1, <3>2 DEF RowIds
    <2>3. ASSUME NEW j \in 1..Len(db), NEW k \in 1..Len(db), j < k
          PROVE  /\ db[j] # db[k]
                 /\ \A a, b \in 1..Len(arrivals) :
                       db[j][1] = arrivals[a] /\ db[k][1] = arrivals[b] => a =< b
      <3>1. RowBefore(db[j], db[k], arrivals)
        BY <2>1, <2>3 DEF RowsSorted
      <3>2. db[j][2] \in Nat /\ db[k][2] \in Nat
        BY <2>2
      <3>3. \A a, b \in 1..Len(arrivals) :
                arrivals[a] = db[j][1] /\ arrivals[b] = db[k][1]
                => a < b \/ (a = b /\ db[j][2] < db[k][2])
        BY <3>1 DEF RowBefore
      <3>4. db[j] # db[k]
        BY <2>2, <3>2, <3>3
      <3>5. QED
        BY <3>3, <3>4
    <2>4. AppliedOnce
      BY <2>1, <2>3 DEF AppliedOnce
    <2>5. ASSUME NEW j \in 1..Len(db), NEW k \in 1..Len(db),
                 NEW a \in 1..Len(arrivals), NEW b \in 1..Len(arrivals),
                 db[j][1] = arrivals[a], db[k][1] = arrivals[b], a < b
          PROVE  j < k
      <3>1. CASE j = k
        BY <1>1, <2>5, <3>1 DEF LineInv
      <3>2. CASE k < j
        BY <2>3, <2>5, <3>2
      <3>3. QED
        BY <3>1, <3>2
    <2>6. ArrivalOrder
      BY <2>1, <2>5 DEF ArrivalOrder
    <2>7. QED
      BY <2>4, <2>6 DEF RowsInOrder
  <1>2. QED
    BY <1>1, TypeCorrect, LineInvHolds, OrderInvHolds, PTL

-----------------------------------------------------------------------------
(* Refused calls.                                                          *)

\* A request that is still in the channel or the batch has no row yet.
LEMMA NotYetWritten ==
    ASSUME TypeOK, LineInv, OrderInv, NEW a \in 1..Len(arrivals), a > Done
    PROVE  /\ \A j \in 1..Len(db) : db[j][1] # arrivals[a]
           /\ inTx => \A j \in 1..Len(changes) : changes[j][1] # arrivals[a]
           /\ \A j \in 1..Len(pending) :
                 AmongFirst(pending[j], arrivals, Done) => pending[j] # arrivals[a]
  <1>1. /\ Done \in Nat /\ Done =< Len(arrivals) /\ Len(arrivals) \in Nat
        /\ db \in Seq(RowIds) /\ changes \in Seq(RowIds)
    <2>1. Len(buffer) \in Nat /\ Len(queue) \in Nat /\ Len(arrivals) \in Nat
      BY LenProperties DEF TypeOK
    <2>2. QED
      BY <2>1 DEF TypeOK, LineInv, Done
  <1>2. \A r : AmongFirst(r, arrivals, Done) => r # arrivals[a]
    BY <1>1 DEF AmongFirst, LineInv
  <1>3. RowsSorted(db, arrivals, Done)
    BY <1>1, SortedPrefix DEF OrderInv, Visible
  <1>4. ASSUME inTx, NEW j \in 1..Len(changes) PROVE changes[j][1] # arrivals[a]
    <2>1. Len(db) + j \in 1..Len(db \o changes) /\ (db \o changes)[Len(db) + j] = changes[j]
      BY <1>1, <1>4, ConcatProperties, LenProperties
    <2>2. RowsSorted(db \o changes, arrivals, Done)
      BY <1>4 DEF OrderInv, Visible
    <2>3. AmongFirst(changes[j][1], arrivals, Done)
      BY <2>1, <2>2 DEF RowsSorted
    <2>4. QED
      BY <1>2, <2>3
  <1>5. QED
    BY <1>2, <1>3, <1>4 DEF RowsSorted

\* Who is refused: a batch that cannot begin, the head of the batch whose
\* statement fails, what waits on a transaction that cannot commit.
LEMMA OnlyTheseAreRefused ==
    ASSUME TypeOK, [Next]_vars, NEW r \in Reqs, status'[r] = "err", status[r] # "err"
    PROVE  \/ BeginFails /\ \E k \in 1..Len(buffer) : buffer[k] = r
           \/ ExecFails /\ r = Head(buffer)
           \/ CommitFails /\ \E k \in 1..Len(pending) : pending[k] = r
  <1>1. /\ \A R : Answer(R, "err") => r \in R
        /\ \A R : ~Answer(R, "ok") /\ ~Answer(R, "dropped")
        /\ \A q \in Reqs : ~Submit(q) /\ ~Cancel(q)
    BY DEF Answer, Submit, Cancel, TypeOK
  <1>2. /\ r \in ToSet(buffer) => \E k \in 1..Len(buffer) : buffer[k] = r
        /\ r \in ToSet(pending) => \E k \in 1..Len(pending) : pending[k] = r
    BY LenProperties DEF ToSet, TypeOK
  <1>3. CASE BeginFails
    BY <1>1, <1>2, <1>3 DEF BeginFails
  <1>4. CASE ExecFails
    <2>1. Answer({Head(buffer)}, "err")
      BY <1>4 DEF ExecFails, FailsOn, Fail, Abort
    <2>2. QED
      BY <1>1, <1>4, <2>1
  <1>5. CASE CommitFails
    BY <1>1, <1>2, <1>5 DEF CommitFails, CommitFailedAnswer
  <1>6. CASE ~BeginFails /\ ~ExecFails /\ ~CommitFails
    <2>1. ~Reply /\ ~Crash
      BY <1>1 DEF Reply, Crash
    <2>2. UNCHANGED status
      BY <1>1, <1>6, <2>1 DEF Next, Callers, Task, Close, RecvFirst, Stop, Fill,
        CloseBatch, Begin, ExecOk, Run, Commit, Publish, NextBatch, vars
    <2>3. QED
      BY <2>2
  <1>7. QED
    BY <1>3, <1>4, <1>5, <1>6

\* What a refused request was: in the batch, or among those waiting.
LEMMA RefusedAt ==
    ASSUME TypeOK, TypeOK', LineInv, LineInv', RefusedInv, [Next]_vars,
           NEW r \in Reqs, status'[r] = "err", status[r] # "err"
    PROVE  AmongFirst(r, arrivals', Done')
  <1>1. /\ Len(arrivals) \in Nat /\ Len(buffer) \in Nat /\ Len(queue) \in Nat
        /\ Done \in Nat /\ Len(arrivals) = Done + Len(buffer) + Len(queue)
        /\ Done' \in Nat /\ Done =< Done'
    <2>1. Len(arrivals) \in Nat /\ Len(buffer) \in Nat /\ Len(queue) \in Nat
      BY LenProperties DEF TypeOK
    <2>2. Len(arrivals) = Done + Len(buffer) + Len(queue)
      BY <2>1 DEF Done
    <2>3. Done \in Nat /\ Done' \in Nat
      BY DEF LineInv
    <2>4. QED
      BY <2>1, <2>2, <2>3, LineInvStep
  <1>2. \A a \in 1..Len(arrivals) : arrivals'[a] = arrivals[a]
    BY ArrivalsKept
  <1>3. CASE BeginFails /\ \E k \in 1..Len(buffer) : buffer[k] = r
    <2>1. Done' = Done + Len(buffer)
      BY <1>1, <1>3, EmptySeq DEF BeginFails, Done
    <2>2. PICK k \in 1..Len(buffer) : buffer[k] = r
      BY <1>3
    <2>3. Done + k \in 1..Done' /\ arrivals'[Done + k] = r
      <3>1. Done + k \in 1..Len(arrivals) /\ Done + k \in 1..Done'
        BY <1>1, <2>1
      <3>2. arrivals[Done + k] = buffer[k]
        BY DEF LineInv
      <3>3. QED
        BY <1>2, <2>2, <3>1, <3>2
    <2>4. QED
      BY <2>3 DEF AmongFirst
  <1>4. CASE ExecFails /\ r = Head(buffer)
    <2>1. /\ buffer # <<>> /\ UNCHANGED <<arrivals, queue>> /\ buffer' = Tail(buffer)
          /\ Head(buffer) = buffer[1] /\ Len(buffer) > 0 /\ Len(buffer') = Len(buffer) - 1
      BY <1>4 DEF ExecFails, FailsOn, Fail, Abort, TypeOK
    <2>2. Done' = Done + 1
      BY <1>1, <2>1 DEF Done
    <2>3. Done + 1 \in 1..Done' /\ arrivals'[Done + 1] = r
      BY <1>1, <1>4, <2>1, <2>2 DEF LineInv
    <2>4. QED
      BY <2>3 DEF AmongFirst
  <1>5. CASE CommitFails /\ \E k \in 1..Len(pending) : pending[k] = r
    <2>1. AmongFirst(r, arrivals, Done)
      BY <1>5, LenProperties DEF RefusedInv, TypeOK
    <2>2. PICK a \in 1..Done : arrivals[a] = r
      BY <2>1 DEF AmongFirst
    <2>3. a \in 1..Done' /\ arrivals'[a] = r
      BY <1>1, <1>2, <2>2
    <2>4. QED
      BY <2>3 DEF AmongFirst
  <1>6. QED
    BY <1>3, <1>4, <1>5, OnlyTheseAreRefused

\* A row of a concatenation is in one of its parts.
LEMMA RowOfConcat ==
    ASSUME NEW s \in Seq(RowIds), NEW t \in Seq(RowIds), NEW x, HasRow(s \o t, x)
    PROVE  HasRow(s, x) \/ HasRow(t, x)
  <1>1. /\ DOMAIN s = 1..Len(s) /\ DOMAIN t = 1..Len(t)
        /\ DOMAIN (s \o t) = 1..Len(s \o t)
    BY ConcatElements, LenProperties
  <1>2. PICK k \in 1..Len(s \o t) : (s \o t)[k] = x
    BY <1>1 DEF HasRow
  <1>3. CASE k =< Len(s)
    <2>1. k \in 1..Len(s) /\ s[k] = x
      BY <1>2, <1>3, ConcatElements
    <2>2. QED
      BY <1>1, <2>1 DEF HasRow
  <1>4. CASE k > Len(s)
    <2>1. k - Len(s) \in 1..Len(t) /\ t[k - Len(s)] = x
      BY <1>2, <1>4, ConcatElements
    <2>2. QED
      BY <1>1, <2>1 DEF HasRow
  <1>5. Len(s) \in Nat /\ k \in Nat
    BY ConcatElements
  <1>6. QED
    BY <1>3, <1>4, <1>5

\* Without rollbacks behind the back of the batch, RefusedInv is preserved.
LEMMA RefusedInvStep ==
    ASSUME "abort" \notin Faults, TypeOK, TypeOK', LineInv, LineInv', OrderInv,
           AckInv, RefusedInv, [Next]_vars
    PROVE  RefusedInv'
  <1>0. /\ Len(arrivals) \in Nat /\ Len(buffer) \in Nat /\ Len(queue) \in Nat
        /\ Len(pending) \in Nat /\ DOMAIN pending = 1..Len(pending)
        /\ Done \in Nat /\ Done' \in Nat /\ Done =< Done'
        /\ Len(arrivals) = Done + Len(buffer) + Len(queue)
        /\ \A a \in 1..Len(arrivals) : arrivals'[a] = arrivals[a]
        /\ Len(arrivals) =< Len(arrivals')
        /\ db \in Seq(RowIds) /\ changes \in Seq(RowIds) /\ pending \in Seq(Reqs)
    <2>1. /\ Len(arrivals) \in Nat /\ Len(buffer) \in Nat /\ Len(queue) \in Nat
          /\ Len(pending) \in Nat /\ DOMAIN pending = 1..Len(pending)
          /\ db \in Seq(RowIds) /\ changes \in Seq(RowIds) /\ pending \in Seq(Reqs)
      BY LenProperties DEF TypeOK
    <2>2. Done \in Nat /\ Done' \in Nat /\ Done =< Done'
      BY LineInvStep DEF LineInv
    <2>3. Len(arrivals) = Done + Len(buffer) + Len(queue)
      BY <2>1 DEF Done
    <2>4. QED
      BY <2>1, <2>2, <2>3, ArrivalsKept
  <1>1. buffer # <<>> => /\ Head(buffer) \in Reqs
                         /\ Rows[Head(buffer)] \in Nat
                         /\ Done + 1 \in 1..Len(arrivals)
                         /\ arrivals[Done + 1] = Head(buffer)
    <2> SUFFICES ASSUME buffer # <<>>
                 PROVE  /\ Head(buffer) \in Reqs
                        /\ Rows[Head(buffer)] \in Nat
                        /\ Done + 1 \in 1..Len(arrivals)
                        /\ arrivals[Done + 1] = Head(buffer)
      OBVIOUS
    <2>1. Len(buffer) > 0 /\ Head(buffer) = buffer[1] /\ Head(buffer) \in Reqs
      BY DEF TypeOK
    <2>2. arrivals[Done + 1] = buffer[1]
      BY <1>0, <2>1 DEF LineInv
    <2>3. QED
      BY <1>0, <2>1, <2>2, ConstantsAssumption
  <1>2. ASSUME NEW r \in Reqs, NEW v \in Seq(RowIds), HasRow(v, <<r, Rows[r]>>)
        PROVE  \E j \in 1..Len(v) : v[j][1] = r
    BY <1>2, LenProperties DEF HasRow
  <1>3. phase' = "exec" => inTx'
    BY DEF RefusedInv, Next, Callers, Task, Submit, Cancel, Close,
      RecvFirst, Stop, Fill, CloseBatch, Begin, BeginFails, ExecOk, Run, ExecFails,
      FailsOn, Fail, Abort, Commit, CommitFails, Publish, Reply, NextBatch, Crash, vars
  <1>4. \A k \in 1..Len(pending') : AmongFirst(pending'[k], arrivals', Done')
    <2>0. \A r : AmongFirst(r, arrivals, Done) => AmongFirst(r, arrivals', Done')
      BY <1>0 DEF AmongFirst
    <2>1. CASE ExecOk
      <3>1. /\ pending' = Append(pending, Head(buffer)) /\ buffer # <<>>
            /\ UNCHANGED <<arrivals, queue>> /\ buffer' = Tail(buffer)
            /\ Len(buffer') = Len(buffer) - 1
        BY <2>1 DEF ExecOk, Run, TypeOK
      <3>2. Done' = Done + 1
        BY <1>0, <3>1 DEF Done
      <3>3. AmongFirst(Head(buffer), arrivals', Done')
        BY <1>0, <1>1, <3>1, <3>2 DEF AmongFirst
      <3>4. QED
        BY <1>0, <1>1, <2>0, <3>1, <3>3, AppendProperties DEF RefusedInv
    <2>2. CASE Reply
      <3>1. /\ pending # <<>> /\ pending' = Tail(pending)
        BY <2>2 DEF Reply
      <3>2. \A k \in 1..Len(pending') : k + 1 \in 1..Len(pending) /\ pending'[k] = pending[k + 1]
        BY <1>0, <3>1, HeadTailProperties
      <3>3. QED
        BY <2>0, <3>2 DEF RefusedInv
    <2>3. CASE CommitFails \/ Crash
      <3>1. pending' = <<>> /\ Len(pending') = 0
        BY <2>3, EmptySeq DEF CommitFails, Crash
      <3>2. QED
        BY <3>1
    <2>4. CASE ~ExecOk /\ ~Reply /\ ~CommitFails /\ ~Crash
      <3>1. UNCHANGED pending
        BY <2>4 DEF Next, Callers, Task, Submit, Cancel, Close,
          RecvFirst, Stop, Fill, CloseBatch, Begin, BeginFails, ExecFails,
          FailsOn, Fail, Abort, Commit, Publish, NextBatch, vars
      <3>2. QED
        BY <2>0, <3>1 DEF RefusedInv
    <2>5. QED
      BY <2>1, <2>2, <2>3, <2>4
  <1>5. \A a \in 1..Len(arrivals') : a > Done' => status'[arrivals'[a]] # "err"
    <2> SUFFICES ASSUME NEW a \in 1..Len(arrivals'), a > Done',
                        status'[arrivals'[a]] = "err"
                 PROVE  FALSE
      OBVIOUS
    <2>1. ~AmongFirst(arrivals'[a], arrivals', Done')
      <3>1. Done' =< Len(arrivals')
        <4>1. Len(arrivals') \in Nat /\ Len(buffer') \in Nat /\ Len(queue') \in Nat
          BY LenProperties DEF TypeOK
        <4>2. QED
          BY <1>0, <4>1 DEF Done
      <3>2. \A b \in 1..Done' : arrivals'[b] # arrivals'[a]
        BY <1>0, <3>1 DEF LineInv
      <3>3. QED
        BY <3>2 DEF AmongFirst
    <2>2. arrivals'[a] \in Reqs
      BY DEF TypeOK
    <2>3. status[arrivals'[a]] = "err"
      BY <2>1, <2>2, RefusedAt
    <2>4. CASE a \in 1..Len(arrivals)
      BY <1>0, <2>3, <2>4 DEF RefusedInv
    <2>5. CASE a \notin 1..Len(arrivals)
      <3>1. PICK r \in Reqs : Submit(r)
        <4>1. arrivals' # arrivals
          BY <1>0, <2>5
        <4>2. QED
          BY <4>1, LineStep DEF RecvFirst, Fill, HeadDone, BeginFails, Crash, LineKept
      <3>2. arrivals' = Append(arrivals, r) /\ status'[r] = "waiting"
        BY <3>1 DEF Submit, TypeOK
      <3>3. arrivals \in Seq(Reqs)
        BY DEF TypeOK
      <3>4. arrivals'[a] = r
        BY <1>0, <2>5, <3>2, <3>3, AppendProperties
      <3>5. QED
        BY <3>2, <3>4
    <2>6. QED
      BY <2>4, <2>5
  <1>6. phase' = "exec" => \A k \in 1..Len(pending'), j \in 1..Len(db') :
                              db'[j][1] # pending'[k]
    <2> SUFFICES ASSUME phase' = "exec", NEW k \in 1..Len(pending'), NEW j \in 1..Len(db')
                 PROVE  db'[j][1] # pending'[k]
      OBVIOUS
    <2>1. CASE Begin
      <3>1. pending' = <<>> /\ Len(pending') = 0
        BY <2>1, EmptySeq DEF Begin, AckInv
      <3>2. QED
        BY <3>1
    <2>2. CASE ExecOk
      <3>1. /\ pending' = Append(pending, Head(buffer)) /\ buffer # <<>>
            /\ db' = db /\ phase = "exec"
        BY <2>2 DEF ExecOk, Run, Write, RefusedInv
      <3>2. CASE k \in 1..Len(pending)
        <4>1. pending'[k] = pending[k]
          BY <1>0, <1>1, <3>1, <3>2, AppendProperties
        <4>2. QED
          BY <3>1, <3>2, <4>1 DEF RefusedInv
      <3>3. CASE k \notin 1..Len(pending)
        <4>1. pending'[k] = arrivals[Done + 1] /\ Done + 1 > Done
          BY <1>0, <1>1, <3>1, <3>3, AppendProperties
        <4>2. QED
          BY <1>1, <3>1, <4>1, NotYetWritten
      <3>4. QED
        BY <3>2, <3>3
    <2>3. CASE ~Begin /\ ~ExecOk
      <3>1. UNCHANGED <<db, pending, phase>>
        <4>1. CASE ExecFails
          <5>1. Fail(Head(buffer), Tail(buffer)) /\ inTx
            BY <4>1 DEF ExecFails, FailsOn, Fail, Abort, RefusedInv
          <5>2. QED
            BY <5>1 DEF Fail, Write
        <4>2. CASE ~ExecFails
          BY <2>3, <4>2 DEF Next, Callers, Task, Submit, Cancel, Close,
            RecvFirst, Stop, Fill, CloseBatch, BeginFails, Commit, CommitFails,
            Publish, Reply, NextBatch, Crash, vars
        <4>3. QED
          BY <4>1, <4>2
      <3>2. QED
        BY <3>1 DEF RefusedInv
    <2>4. QED
      BY <2>1, <2>2, <2>3
  <1>7. ASSUME NEW r \in Reqs, status[r] # "err", status'[r] = "err"
        PROVE  \A j \in 1..Len(db) : db[j][1] # r
    <2>1. CASE BeginFails /\ \E k \in 1..Len(buffer) : buffer[k] = r
      <3>1. PICK k \in 1..Len(buffer) : buffer[k] = r
        BY <2>1
      <3>2. Done + k \in 1..Len(arrivals) /\ Done + k > Done /\ arrivals[Done + k] = r
        BY <1>0, <3>1 DEF LineInv
      <3>3. QED
        BY <3>2, NotYetWritten
    <2>2. CASE ExecFails /\ r = Head(buffer)
      <3>1. Done + 1 \in 1..Len(arrivals) /\ Done + 1 > Done /\ arrivals[Done + 1] = r
        BY <1>0, <1>1, <2>2 DEF ExecFails
      <3>2. QED
        BY <3>1, NotYetWritten
    <2>3. CASE CommitFails /\ \E k \in 1..Len(pending) : pending[k] = r
      BY <2>3 DEF CommitFails, RefusedInv
    <2>4. QED
      BY <1>7, <2>1, <2>2, <2>3, OnlyTheseAreRefused
  <1>8. RefusedIsNotStored'
    <2> SUFFICES ASSUME NEW r \in Reqs, status'[r] = "err", Rows[r] > 0,
                        HasRow(db', <<r, Rows[r]>>)
                 PROVE  FALSE
      BY DEF RefusedIsNotStored, HasRow
    <2>1. CASE Commit
      <3>1. status[r] = "err" /\ db' = db \o changes /\ phase = "exec"
        BY <2>1 DEF Commit
      <3>2. ~HasRow(db, <<r, Rows[r]>>) /\ ~HasRow(changes, <<r, Rows[r]>>)
        BY <3>1 DEF RefusedInv, RefusedIsNotStored
      <3>3. QED
        BY <1>0, <3>1, <3>2, RowOfConcat
    <2>2. CASE ~Commit
      <3>1. db' = db
        <4>1. \A q, n : phase = "exec" /\ Write(q, n) => db' = db
          BY DEF Write, RefusedInv
        <4>2. QED
          BY <2>2, <4>1 DEF Next, Callers, Task, Submit, Cancel, Close,
            RecvFirst, Stop, Fill, CloseBatch, Begin, BeginFails, ExecOk, Run,
            ExecFails, FailsOn, Fail, Abort, CommitFails, Publish, Reply,
            NextBatch, Crash, vars
      <3>2. CASE status[r] = "err"
        BY <3>1, <3>2 DEF RefusedInv, RefusedIsNotStored
      <3>3. CASE status[r] # "err"
        <4>1. PICK j \in 1..Len(db) : db[j] = <<r, Rows[r]>>
          <5>1. db \in Seq(RowIds) /\ DOMAIN db = 1..Len(db)
            BY DEF TypeOK
          <5>2. QED
            BY <3>1, <5>1 DEF HasRow
        <4>2. QED
          BY <1>7, <3>3, <4>1
      <3>4. QED
        BY <3>2, <3>3
    <2>3. QED
      BY <2>1, <2>2
  <1>9. phase' = "exec" => \A r \in Reqs : status'[r] = "err" /\ Rows[r] > 0
                              => ~HasRow(changes', <<r, Rows[r]>>)
    <2> SUFFICES ASSUME phase' = "exec", NEW r \in Reqs, status'[r] = "err", Rows[r] > 0
                 PROVE  ~HasRow(changes', <<r, Rows[r]>>)
      OBVIOUS
    <2>0. ASSUME NEW n \in Nat, Write(Head(buffer), n), inTx, buffer # <<>>,
                 ~HasRow(changes, <<r, Rows[r]>>),
                 r = Head(buffer) => n = 0 \/ n < Rows[r]
          PROVE  ~HasRow(changes', <<r, Rows[r]>>)
      <3> DEFINE block == RowsOf(Head(buffer), n)
      <3>1. /\ block \in Seq(RowIds) /\ Len(block) = n
            /\ \A i \in 1..n : block[i] = <<Head(buffer), i>>
        BY <1>1, <2>0, RowsOfType
      <3> HIDE DEF block
      <3>2. changes' = changes \o block
        BY <2>0 DEF Write, block
      <3>3. ~HasRow(block, <<r, Rows[r]>>)
        BY <2>0, <3>1, LenProperties DEF HasRow
      <3>4. QED
        BY <1>0, <2>0, <3>1, <3>2, <3>3, RowOfConcat
    <2>1. CASE Begin
      BY <2>1, EmptySeq DEF Begin, HasRow
    <2>2. CASE ExecOk
      <3>1. /\ phase = "exec" /\ inTx /\ buffer # <<>> /\ UNCHANGED status
            /\ Write(Head(buffer), Rows[Head(buffer)])
        BY <2>2 DEF ExecOk, Run, RefusedInv
      <3>2. status[r] = "err" /\ ~HasRow(changes, <<r, Rows[r]>>)
        BY <3>1 DEF RefusedInv
      <3>3. r # Head(buffer)
        BY <1>0, <1>1, <3>1, <3>2 DEF RefusedInv
      <3>4. QED
        BY <1>1, <2>0, <3>1, <3>2, <3>3
    <2>3. CASE ExecFails
      <3>1. /\ Fail(Head(buffer), Tail(buffer)) /\ phase = "exec" /\ inTx /\ buffer # <<>>
        BY <2>3 DEF ExecFails, FailsOn, Fail, Abort, RefusedInv
      <3>2. PICK n \in 0..Rows[Head(buffer)] : (n = 0 \/ n < Rows[Head(buffer)])
                                                /\ Write(Head(buffer), n)
        BY <3>1 DEF Fail
      <3>3. n \in Nat
        BY <1>1, <3>1
      <3>4. ~HasRow(changes, <<r, Rows[r]>>)
        <4>1. CASE status[r] = "err"
          BY <3>1, <4>1 DEF RefusedInv
        <4>2. CASE status[r] # "err"
          <5>1. r = Head(buffer)
            BY <3>1, <4>2, OnlyTheseAreRefused DEF BeginFails, CommitFails
          <5>2. \A j \in 1..Len(changes) : changes[j][1] # r
            <6>1. Done + 1 > Done /\ arrivals[Done + 1] = r /\ Done + 1 \in 1..Len(arrivals)
              BY <1>0, <1>1, <3>1, <5>1
            <6>2. QED
              BY <3>1, <6>1, NotYetWritten
          <5>3. QED
            BY <1>0, <1>2, <5>2
        <4>3. QED
          BY <4>1, <4>2
      <3>5. QED
        BY <2>0, <3>1, <3>2, <3>3, <3>4
    <2>4. CASE ~Begin /\ ~ExecOk /\ ~ExecFails
      <3>1. UNCHANGED <<changes, phase>>
        BY <2>4 DEF Next, Callers, Task, Submit, Cancel, Close,
          RecvFirst, Stop, Fill, CloseBatch, BeginFails, Commit, CommitFails,
          Publish, Reply, NextBatch, Crash, vars
      <3>2. status[r] = "err"
        BY <2>4, <3>1, OnlyTheseAreRefused DEF BeginFails, CommitFails
      <3>3. QED
        BY <3>1, <3>2 DEF RefusedInv
    <2>5. QED
      BY <2>1, <2>2, <2>3, <2>4
  <1>10. QED
    BY <1>3, <1>4, <1>5, <1>6, <1>8, <1>9 DEF RefusedInv, HasRow

\* RefusedInv holds in every reachable state.
LEMMA RefusedInvHolds ==
    ASSUME "abort" \notin Faults
    PROVE  Spec => []RefusedInv
  <1>1. Init => RefusedInv
    BY EmptySeq DEF Init, RefusedInv, RefusedIsNotStored
  <1>2. TypeOK /\ TypeOK' /\ LineInv /\ LineInv' /\ OrderInv /\ AckInv
        /\ RefusedInv /\ [Next]_vars => RefusedInv'
    BY RefusedInvStep
  <1>3. QED
    BY <1>1, <1>2, TypeCorrect, LineInvHolds, OrderInvHolds, AckInvHolds, PTL DEF Spec

\* The file is exactly what the calls were told: rows once, in the order of
\* arrival, and no complete block of a call that was answered Err, provided
\* SQLite does not end the transaction behind the back of the batch ("abort").
THEOREM FileIsExact ==
    ASSUME "abort" \notin Faults
    PROVE  Spec => []RowsExact
  <1>1. RowsInOrder /\ RefusedInv => RowsExact
    BY DEF RowsExact, RefusedInv
  <1>2. QED
    BY <1>1, RowsStayInOrder, RefusedInvHolds, PTL

-----------------------------------------------------------------------------
(* The promise of WriteLog.                                                *)

\* The rows of the open transaction belong to accepted calls, so a caller of
\* one of them that waits after a step has waited before it.
LEMMA WaitersOfTransaction ==
    ASSUME TypeOK, LineInv, OrderInv, inTx, [Next]_vars,
           NEW k \in 1..Len(changes), status'[changes[k][1]] = "waiting"
    PROVE  status[changes[k][1]] = "waiting"
  <1>1. db \in Seq(RowIds) /\ changes \in Seq(RowIds)
    BY DEF TypeOK
  <1>2. AmongFirst(changes[k][1], arrivals, Done)
    <2>1. Len(db) + k \in 1..Len(db \o changes) /\ (db \o changes)[Len(db) + k] = changes[k]
      BY <1>1, ConcatProperties, LenProperties
    <2>2. QED
      BY <2>1 DEF OrderInv, RowsSorted, Visible
  <1>3. PICK a \in 1..Done : arrivals[a] = changes[k][1]
    BY <1>2 DEF AmongFirst
  <1>4. a \in 1..Len(arrivals) /\ arrivals[a] \in Reqs
    <2>1. Len(buffer) \in Nat /\ Len(queue) \in Nat /\ Len(arrivals) \in Nat
      BY LenProperties DEF TypeOK
    <2>2. a \in 1..Len(arrivals)
      BY <2>1 DEF Done, LineInv
    <2>3. QED
      BY <2>2 DEF TypeOK
  <1>5. status[arrivals[a]] # "idle"
    BY <1>4 DEF LineInv
  <1>6. QED
    BY <1>3, <1>4, <1>5, AnswersAreFinal

\* The blocks of v, followed by the block of h: all of it, or a part of it and
\* the caller of h does not wait any more.
LEMMA BlockAdded ==
    ASSUME NEW v \in Seq(RowIds), NEW file, NEW st, NEW st2,
           NEW h \in Reqs, NEW m \in 0..Rows[h], NEW w,
           \A k \in 1..Len(v) : InBlock(v, k, file, st),
           \A k \in 1..Len(v) : st2[v[k][1]] = "waiting" => st[v[k][1]] = "waiting",
           \A j \in 1..Len(file) : file[j][1] # h,
           m = Rows[h] \/ st2[h] # "waiting",
           Len(w) = Len(v) + m,
           \A k \in 1..Len(v) : w[k] = v[k],
           \A k \in 1..Len(w) : k > Len(v) => w[k] = <<h, k - Len(v)>>
    PROVE  \A k \in 1..Len(w) : InBlock(w, k, file, st2)
  <1>1. Rows[h] \in Nat /\ m \in Nat /\ Len(v) \in Nat
    BY ConstantsAssumption, LenProperties
  <1>2. ASSUME NEW k \in 1..Len(v) PROVE InBlock(w, k, file, st2)
    <2>1. InBlock(v, k, file, st) /\ w[k] = v[k]
      BY <1>2
    <2>2. k > 1 => w[k - 1] = v[k - 1]
      BY <1>1
    <2>3. k < Len(v) => w[k + 1] = v[k + 1] /\ k < Len(w)
      BY <1>1
    <2>4. QED
      BY <2>1, <2>2, <2>3 DEF InBlock
  <1>3. ASSUME NEW k \in 1..Len(w), k > Len(v) PROVE InBlock(w, k, file, st2)
    <2> DEFINE i == k - Len(v)
    <2>0. i \in 1..m /\ i \in 1..Rows[h] /\ k \in Nat /\ k = Len(v) + i
      BY <1>1, <1>3
    <2>1. w[k] = <<h, i>>
      BY <1>3
    <2> HIDE DEF i
    <2>2. ASSUME i > 1 PROVE k > 1 /\ w[k - 1] = <<h, i - 1>>
      <3>1. k - 1 \in 1..Len(w) /\ k - 1 > Len(v) /\ (k - 1) - Len(v) = i - 1
        BY <1>1, <2>0, <2>2
      <3>2. QED
        BY <1>1, <2>0, <2>2, <3>1
    <2>3. ASSUME i < Rows[h], st2[h] = "waiting" PROVE k < Len(w) /\ w[k + 1] = <<h, i + 1>>
      <3>1. k + 1 \in 1..Len(w) /\ k + 1 > Len(v) /\ (k + 1) - Len(v) = i + 1
        BY <1>1, <2>0, <2>3
      <3>2. QED
        BY <1>1, <2>0, <3>1
    <2>4. w[k][1] = h /\ w[k][2] = i
      BY <2>1
    <2>5. QED
      BY <2>0, <2>2, <2>3, <2>4 DEF InBlock
  <1>4. QED
    BY <1>1, <1>2, <1>3

\* Without rollbacks behind the back of the batch, BlocksInv is preserved.
LEMMA BlocksInvStep ==
    ASSUME "abort" \notin Faults, TypeOK, LineInv, OrderInv, RefusedInv, BlocksInv,
           [Next]_vars
    PROVE  BlocksInv'
  <1> SUFFICES ASSUME phase' = "exec" PROVE BlocksInv'
    BY DEF BlocksInv
  <1>1. ASSUME buffer # <<>>
        PROVE  /\ Head(buffer) \in Reqs /\ Rows[Head(buffer)] \in Nat
               /\ Done + 1 \in 1..Len(arrivals) /\ arrivals[Done + 1] = Head(buffer)
    <2>1. /\ Len(buffer) > 0 /\ Head(buffer) = buffer[1] /\ Head(buffer) \in Reqs
          /\ Len(buffer) \in Nat /\ Len(queue) \in Nat /\ Len(arrivals) \in Nat
      BY <1>1, LenProperties DEF TypeOK
    <2>2. Done \in Nat /\ Len(arrivals) = Done + Len(buffer) + Len(queue)
      BY <2>1 DEF LineInv, Done
    <2>3. arrivals[Done + 1] = buffer[1]
      BY <2>1 DEF LineInv
    <2>4. QED
      BY <2>1, <2>2, <2>3, ConstantsAssumption
  <1>2. ASSUME phase = "exec", inTx, buffer # <<>>, UNCHANGED db,
               NEW m \in 0..Rows[Head(buffer)],
               changes' = changes \o RowsOf(Head(buffer), m),
               m = Rows[Head(buffer)] \/ status'[Head(buffer)] # "waiting"
        PROVE  BlocksInv'
    <2> DEFINE h == Head(buffer)
               w == changes \o RowsOf(h, m)
    <2>1. h \in Reqs /\ m \in Nat /\ changes \in Seq(RowIds)
      BY <1>1, <1>2 DEF TypeOK
    <2>2. /\ Len(w) = Len(changes) + m
          /\ \A k \in 1..Len(changes) : w[k] = changes[k]
          /\ \A k \in 1..Len(w) : k > Len(changes) => w[k] = <<h, k - Len(changes)>>
      BY <2>1, BlockAt
    <2>3. \A j \in 1..Len(db) : db[j][1] # h
      <3>1. Done + 1 > Done
        BY DEF LineInv
      <3>2. QED
        BY <1>1, <1>2, <3>1, NotYetWritten
    <2>4. \A k \in 1..Len(changes) : status'[changes[k][1]] = "waiting"
                                        => status[changes[k][1]] = "waiting"
      BY <1>2, WaitersOfTransaction
    <2>5. \A k \in 1..Len(changes) : InBlock(changes, k, db, status)
      BY <1>2 DEF BlocksInv
    <2> HIDE DEF w
    <2>6. \A k \in 1..Len(w) : InBlock(w, k, db, status')
      BY <1>2, <2>1, <2>2, <2>3, <2>4, <2>5, BlockAdded
    <2>7. changes' = w /\ db' = db
      BY <1>2 DEF w
    <2>8. QED
      BY <2>6, <2>7 DEF BlocksInv
  <1>3. CASE Begin
    BY <1>3, EmptySeq DEF Begin, BlocksInv
  <1>4. CASE ExecOk
    <2>1. /\ phase = "exec" /\ inTx /\ buffer # <<>> /\ UNCHANGED db
          /\ changes' = changes \o RowsOf(Head(buffer), Rows[Head(buffer)])
      BY <1>4 DEF ExecOk, Run, Write, RefusedInv
    <2>2. Rows[Head(buffer)] \in 0..Rows[Head(buffer)]
      BY <1>1, <2>1
    <2>3. QED
      BY <1>2, <2>1, <2>2
  <1>5. CASE ExecFails
    <2>1. /\ Fail(Head(buffer), Tail(buffer)) /\ phase = "exec" /\ inTx /\ buffer # <<>>
      BY <1>5 DEF ExecFails, FailsOn, Fail, Abort, RefusedInv
    <2>2. PICK n \in 0..Rows[Head(buffer)] : Write(Head(buffer), n)
      BY <2>1 DEF Fail
    <2>3. UNCHANGED db /\ changes' = changes \o RowsOf(Head(buffer), n)
      BY <2>1, <2>2 DEF Write
    <2>4. status'[Head(buffer)] # "waiting"
      BY <1>1, <2>1 DEF Fail, Answer
    <2>5. QED
      BY <1>2, <2>1, <2>3, <2>4
  <1>6. CASE ~Begin /\ ~ExecOk /\ ~ExecFails
    <2>1. UNCHANGED <<changes, phase, db>> /\ inTx
      BY <1>6 DEF RefusedInv, Next, Callers, Task, Submit, Cancel, Close,
        RecvFirst, Stop, Fill, CloseBatch, BeginFails, Commit, CommitFails,
        Publish, Reply, NextBatch, Crash, vars
    <2>2. \A k \in 1..Len(changes) : status'[changes[k][1]] = "waiting"
                                        => status[changes[k][1]] = "waiting"
      BY <2>1, WaitersOfTransaction
    <2>3. QED
      BY <2>1, <2>2 DEF BlocksInv, InBlock
  <1>7. QED
    BY <1>3, <1>4, <1>5, <1>6

\* BlocksInv holds in every reachable state.
LEMMA BlocksInvHolds ==
    ASSUME "abort" \notin Faults
    PROVE  Spec => []BlocksInv
  <1>1. Init => BlocksInv
    BY DEF Init, BlocksInv
  <1>2. TypeOK /\ LineInv /\ OrderInv /\ RefusedInv /\ BlocksInv /\ [Next]_vars => BlocksInv'
    BY BlocksInvStep
  <1>3. QED
    BY <1>1, <1>2, TypeCorrect, LineInvHolds, OrderInvHolds, RefusedInvHolds, PTL DEF Spec

\* A refusal of the write path is a refusal of the log: it reaches only callers
\* that wait, and their blocks are not complete in the file.
LEMMA RefusalIsPromised ==
    ASSUME TypeOK, RefusedInv', NEW R, Answer(R, "err"), UNCHANGED <<arrivals, db>>
    PROVE  Promise!Refuse
  <1> SUFFICES ASSUME NEW r \in Reqs, status'[r] # status[r]
               PROVE  /\ status[r] = "waiting" /\ status'[r] = "err"
                      /\ Rows[r] > 0 => ~Promise!Written(r)
    BY DEF Promise!Refuse
  <1>1. status[r] = "waiting" /\ status'[r] = "err"
    BY DEF Answer
  <1>2. ASSUME Rows[r] > 0, Promise!Written(r) PROVE FALSE
    <2>1. Rows[r] \in 1..Rows[r]
      BY <1>2, ConstantsAssumption
    <2>2. <<r, Rows[r]>> \in ToSet(db)
      BY <1>2, <2>1 DEF Promise!Written, Promise!ToSet, ToSet
    <2>3. HasRow(db, <<r, Rows[r]>>)
      BY <2>2 DEF ToSet, HasRow
    <2>4. db' = db
      OBVIOUS
    <2>5. ~HasRow(db', <<r, Rows[r]>>)
      BY <1>1, <1>2 DEF RefusedInv, RefusedIsNotStored, HasRow
    <2>6. QED
      BY <2>3, <2>4, <2>5
  <1>3. QED
    BY <1>1, <1>2

\* A COMMIT of the write path appends blocks to the log, or nothing.
LEMMA CommitIsPromised ==
    ASSUME TypeOK, TypeOK', LineInv, OrderInv, RefusedInv, BlocksInv, RowsInOrder', Commit
    PROVE  Promise!Commit \/ UNCHANGED <<status, arrivals, db>>
  <1>1. /\ db \in Seq(RowIds) /\ changes \in Seq(RowIds) /\ Len(db) \in Nat
        /\ Len(changes) \in Nat
        /\ db' = db \o changes /\ UNCHANGED <<status, arrivals>> /\ phase = "exec" /\ inTx
    BY LenProperties DEF Commit, TypeOK
  <1>2. CASE changes = <<>>
    BY <1>1, <1>2, ConcatEmptySeq
  <1>3. CASE changes # <<>>
    <2>1. SubSeq(db', Len(db) + 1, Len(db')) = changes
      <3>1. SubSeq(db', Len(db) + 1, Len(db')) = SubSeq(db, Len(db) + 1, Len(db)) \o changes
        BY <1>1, SuffixConcat
      <3>2. SubSeq(db, Len(db) + 1, Len(db)) = <<>>
        BY <1>1, SubSeqEmpty
      <3>3. QED
        BY <1>1, <3>1, <3>2, ConcatEmptySeq
    <2>2. ASSUME NEW k \in DOMAIN changes
          PROVE  LET req == changes[k][1]
                     i == changes[k][2]
                 IN /\ req \in Promise!ToSet(arrivals)
                    /\ i \in 1..Rows[req]
                    /\ \A j \in DOMAIN db : db[j][1] # req
                    /\ i > 1 => k > 1 /\ changes[k - 1] = <<req, i - 1>>
                    /\ i < Rows[req] /\ status[req] = "waiting"
                         => k < Len(changes) /\ changes[k + 1] = <<req, i + 1>>
                    /\ status[req] = "err" => <<req, Rows[req]>> \notin Promise!ToSet(changes)
      <3> DEFINE req == changes[k][1]
      <3>1. k \in 1..Len(changes) /\ DOMAIN db = 1..Len(db) /\ req \in Reqs
        BY <1>1, LenProperties DEF RowIds
      <3>2. InBlock(changes, k, db, status)
        BY <1>1, <3>1 DEF BlocksInv
      <3>3. req \in Promise!ToSet(arrivals)
        <4>1. Len(db) + k \in 1..Len(db \o changes) /\ (db \o changes)[Len(db) + k] = changes[k]
          BY <1>1, <3>1, ConcatProperties
        <4>2. AmongFirst(req, arrivals, Done)
          BY <1>1, <4>1 DEF OrderInv, RowsSorted, Visible
        <4>3. PICK a \in 1..Done : arrivals[a] = req
          BY <4>2 DEF AmongFirst
        <4>4. a \in DOMAIN arrivals
          <5>1. /\ Len(buffer) \in Nat /\ Len(queue) \in Nat /\ Len(arrivals) \in Nat
                /\ DOMAIN arrivals = 1..Len(arrivals)
            BY LenProperties DEF TypeOK
          <5>2. QED
            BY <5>1 DEF Done, LineInv
        <4>5. QED
          BY <4>3, <4>4 DEF Promise!ToSet
      <3>4. ASSUME status[req] = "err" PROVE <<req, Rows[req]>> \notin Promise!ToSet(changes)
        <4>1. Rows[req] > 0
          BY <3>1, <3>2, ConstantsAssumption DEF InBlock
        <4>2. ~HasRow(changes, <<req, Rows[req]>>)
          BY <1>1, <3>1, <3>4, <4>1 DEF RefusedInv
        <4>3. QED
          BY <4>2 DEF HasRow, Promise!ToSet
      <3>5. QED
        BY <3>1, <3>2, <3>3, <3>4 DEF InBlock
    <2>3. ASSUME NEW j \in DOMAIN db', NEW k \in DOMAIN db',
                 Promise!Before(db'[j][1], db'[k][1])
          PROVE  j < k
      BY <1>1, <2>3 DEF Promise!Before, RowsInOrder, ArrivalOrder
    <2>4. Promise!AppendBlocks
      <3>1. /\ SubSeq(db', Len(db) + 1, Len(db')) # <<>>
            /\ db' = db \o SubSeq(db', Len(db) + 1, Len(db'))
        BY <1>1, <1>3, <2>1
      <3>2. \A j, k \in DOMAIN db' : Promise!Before(db'[j][1], db'[k][1]) => j < k
        BY <2>3
      <3>3. \A new \in {SubSeq(db', Len(db) + 1, Len(db'))} : new = changes
        BY <2>1
      <3>4. QED
        BY <2>2, <3>1, <3>2, <3>3, Zenon DEF Promise!AppendBlocks
    <2>5. QED
      BY <1>1, <2>4 DEF Promise!Commit
  <1>4. QED
    BY <1>2, <1>3

\* Every step of the write path is a step of the log, or none.
LEMMA PromiseStep ==
    ASSUME TypeOK, TypeOK', LineInv, OrderInv, AckInv, RefusedInv, RefusedInv',
           BlocksInv, RowsInOrder', [Next]_vars, "abort" \notin Faults
    PROVE  Promise!Next \/ UNCHANGED <<status, arrivals, db>>
  <1>1. ASSUME NEW r \in Reqs, Submit(r) PROVE Promise!Next
    BY <1>1 DEF Submit, Promise!Submit, Promise!Next
  <1>2. ASSUME NEW r \in Reqs, Cancel(r) PROVE Promise!Next
    <2>1. \A q \in Reqs : status'[q] # status[q] => q = r /\ status'[q] = "gone"
      BY <1>2 DEF Cancel, TypeOK
    <2>2. Promise!Forget
      BY <1>2, <2>1 DEF Cancel, Promise!Forget
    <2>3. QED
      BY <2>2 DEF Promise!Next
  <1>3. CASE Crash
    <2>1. Promise!Forget
      BY <1>3 DEF Crash, Answer, Promise!Forget
    <2>2. QED
      BY <2>1 DEF Promise!Next
  <1>4. CASE BeginFails \/ CommitFails \/ ExecFails
    <2>1. UNCHANGED <<arrivals, db>> /\ \E R : Answer(R, "err")
      <3>1. CASE BeginFails \/ CommitFails
        BY <3>1 DEF BeginFails, CommitFails, CommitFailedAnswer
      <3>2. CASE ExecFails
        <4>1. Fail(Head(buffer), Tail(buffer)) /\ inTx
          BY <3>2 DEF ExecFails, FailsOn, Fail, Abort, RefusedInv
        <4>2. QED
          BY <4>1 DEF Fail, Write
      <3>3. QED
        BY <1>4, <3>1, <3>2
    <2>2. QED
      BY <2>1, RefusalIsPromised DEF Promise!Next
  <1>5. CASE Reply
    <2> DEFINE r == Head(pending)
    <2>1. r \in Reqs /\ r = pending[1] /\ 1 \in DOMAIN pending /\ phase = "reply"
          /\ UNCHANGED <<arrivals, db>> /\ Answer({r}, "ok")
      BY <1>5 DEF Reply, TypeOK
    <2>2. CASE status[r] = "waiting"
      <3>1. status' = [status EXCEPT ![r] = "ok"]
        BY <2>1, <2>2 DEF Answer, TypeOK
      <3>2. HasRows(db, r)
        BY <2>1 DEF AckInv
      <3>3. Promise!Written(r)
        BY <3>2 DEF Promise!Written, Promise!ToSet, HasRows, HasRow
      <3>4. Promise!Grant(r)
        BY <2>1, <2>2, <3>1, <3>3 DEF Promise!Grant
      <3>5. QED
        BY <2>1, <3>4 DEF Promise!Next
    <2>3. CASE status[r] # "waiting"
      <3>1. status' = status
        BY <2>1, <2>3 DEF Answer, TypeOK
      <3>2. QED
        BY <2>1, <3>1
    <2>4. QED
      BY <2>2, <2>3
  <1>6. CASE Commit
    BY <1>6, CommitIsPromised DEF Promise!Next
  <1>7. CASE ExecOk
    BY <1>7 DEF ExecOk, Run, Write, RefusedInv
  <1>8. CASE \/ Close \/ RecvFirst \/ Stop \/ Fill \/ CloseBatch \/ Begin
             \/ Publish \/ NextBatch \/ UNCHANGED vars
    BY <1>8 DEF Close, RecvFirst, Stop, Fill, CloseBatch, Begin, Publish, NextBatch, vars
  <1>9. QED
    BY <1>1, <1>2, <1>3, <1>4, <1>5, <1>6, <1>7, <1>8 DEF Next, Callers, Task

\* The write path implements WriteLog: what callers and the file show is a
\* behaviour of the log, provided SQLite does not end the transaction behind
\* the back of the batch ("abort").
THEOREM PromiseKept ==
    ASSUME "abort" \notin Faults
    PROVE  Spec => KeepsPromise
  <1>1. Init => Promise!Init
    BY DEF Init, Promise!Init
  <1>2. TypeOK /\ TypeOK' /\ LineInv /\ OrderInv /\ AckInv /\ RefusedInv /\ RefusedInv'
        /\ BlocksInv /\ RowsInOrder' /\ [Next]_vars => [Promise!Next]_(Promise!vars)
    BY PromiseStep DEF Promise!vars
  <1>3. QED
    BY <1>1, <1>2, TypeCorrect, LineInvHolds, OrderInvHolds, AckInvHolds,
       RefusedInvHolds, BlocksInvHolds, RowsStayInOrder, PTL
    DEF Spec, KeepsPromise, Promise!Spec
=============================================================================
