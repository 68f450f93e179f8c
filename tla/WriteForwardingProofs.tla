------------------------ MODULE WriteForwardingProofs ------------------------
(***************************************************************************)
(* What holds of WriteForwarding for every set of requests, every number   *)
(* of rows and of starts of the replica, and every choice of faults.       *)
(***************************************************************************)
EXTENDS WriteForwarding, SequenceTheorems, FiniteSetTheorems, TLAPS

-----------------------------------------------------------------------------
(* The inductive invariants.                                               *)

\* The task is idle exactly when it has no request under way.
CurInv == phase = "idle" <=> cur = None

\* FlowInv: the type of every variable, what the task is at, and that the map
\* of waiting requests holds the write under way and nothing else.
FlowInv == TypeOK /\ CurInv /\ PendingMatches

\* Where an attempt can be: on the way to the master, with a handler whose
\* socket broke, or in the file.
OnWire(a) == \E k \in 1..Len(wire) : wire[k] = a
InOld(a) == \E q \in old : \E k \in 1..Len(q) : q[k] = a
Stored(a) == \E k \in 1..Len(db) : db[k] = a
Sent(a) == a \in calls \/ OnWire(a) \/ InOld(a) \/ Stored(a)

\* Row i of request r is in a file.
RowIn(r, i, file) == \E k \in 1..Len(file) : file[k].req = r /\ file[k].row = i

\* AckInv: an answer Ok on its way tells of a row in the file, and so does
\* every row the task has gone past.
AckInv ==
    /\ \A x \in results \cup back : x.ok => Stored(x.att)
    /\ cur # None => \A i \in 1..(row - 1) : RowIn(cur, i, db)
    /\ \A r \in Reqs : status[r] = "ok" => \A i \in 1..Rows[r] : RowIn(r, i, db)

\* How many of the accepted requests have left the channel.
Done == Len(arrivals) - Len(queue)

\* Request r is one of the first n of a line.
AmongFirst(r, line, n) == \E a \in 1..n : line[a] = r

\* LineInv: a request is accepted once; the channel holds the last ones, in
\* order, and the one under way is the one before them.
LineInv ==
    /\ Done \in Nat
    /\ \A a, b \in 1..Len(arrivals) : arrivals[a] = arrivals[b] => a = b
    /\ \A a \in 1..Len(arrivals) : status[arrivals[a]] # "idle"
    /\ \A k \in 1..Len(queue) : arrivals[Done + k] = queue[k]
    /\ \A k \in 1..Len(queue) : status[queue[k]] # "ok"
    /\ cur # None => Done > 0 /\ arrivals[Done] = cur

\* SentInv: nothing is sent for a request before its turn, and for the request
\* under way no row after the present one; the present row is sent once over
\* gRPC and once over the WebSocket at most.
SentInv ==
    \A a \in Attempts : Sent(a) =>
        /\ AmongFirst(a.req, arrivals, Done)
        /\ a.req = cur =>
              \/ a.row < row
              \/ a.row = row /\ a.via = "grpc" /\ phase \in {"call", "ws", "wait"}
              \/ a.row = row /\ a.via = "ws" /\ phase = "wait"

\* OrderInv: the rows of an acknowledged request are in the file before any
\* row of a request that arrived later.
OrderInv ==
    \A m, n \in 1..Len(arrivals) :
        m < n /\ status[arrivals[m]] = "ok" =>
            \A i \in 1..Rows[arrivals[m]], k \in 1..Len(db) :
                db[k].req = arrivals[n] => \E j \in 1..(k - 1) : Holds(j, arrivals[m], i)

\* No two members of a sequence are the same.
NoRepeat(s) == \A j, k \in 1..Len(s) : s[j] = s[k] => j = k

\* OnceInv: an attempt is in one place only.
OnceInv ==
    /\ NoRepeat(db)
    /\ \A a \in calls : a.via = "grpc" /\ ~Stored(a)
    /\ NoRepeat(wire)
    /\ \A k \in 1..Len(wire) : wire[k].via = "ws" /\ ~Stored(wire[k]) /\ ~InOld(wire[k])
    /\ \A q \in old : NoRepeat(q) /\ \A k \in 1..Len(q) : q[k].via = "ws" /\ ~Stored(q[k])
    /\ \A p, q \in old : \A j \in 1..Len(p), k \in 1..Len(q) : p[j] = q[k] => p = q

\* Row x[2] of request x[1] was sent over `via`.
SentVia(x, via) == Sent([req |-> x[1], row |-> x[2], via |-> via])

\* The row under way.
Present == <<cur, row>>

\* The rows that are in the file twice, or may still come to be.
Exposed ==
    {x \in Reqs \X (Nat \ {0}) :
        /\ SentVia(x, "grpc")
        /\ SentVia(x, "ws") \/ (phase = "ws" /\ x = Present)}

\* The same, and the row whose gRPC call is under way.
AtRisk == IF phase = "call" THEN Exposed \cup {Present} ELSE Exposed

\* DoubleInv: each start of the replica exposes one row, and none before it
\* gives gRPC up.
DoubleInv ==
    /\ IsFiniteSet(Exposed)
    /\ ~fallback => Cardinality(Exposed) < boots
    /\ fallback => Cardinality(AtRisk) =< boots

-----------------------------------------------------------------------------
(* Types, and what the task is at.                                         *)

\* The attempt under way is an attempt.
LEMMA AttemptType ==
    ASSUME ConstantsAssumption, TypeOK, cur # None, NEW via \in {"grpc", "ws"}
    PROVE  /\ Attempt(via) \in Attempts
           /\ cur \in Reqs /\ row \in 1..Rows[cur] /\ Rows[cur] \in Nat
  <1>1. cur \in Reqs /\ row \in 1..Rows[cur]
    BY DEF TypeOK
  <1>2. Rows[cur] \in Nat
    BY <1>1 DEF ConstantsAssumption
  <1>3. QED
    BY <1>1, <1>2 DEF Attempt, Attempts

\* forward_write has answered for a row: the task goes on with the next row of
\* its request, or with the next request.
LEMMA RowDone ==
    ASSUME ConstantsAssumption, TypeOK, cur # None, RowOk \/ RowFailed
    PROVE  /\ status' \in [Reqs -> Statuses]
           /\ cur' \in Reqs \cup {None}
           /\ row' \in IF cur' = None THEN {0} ELSE 1..Rows[cur']
           /\ phase' \in {"idle", "send"}
           /\ phase' = "idle" <=> cur' = None
  <1>1. cur \in Reqs /\ row \in 1..Rows[cur] /\ Rows[cur] \in Nat
    BY AttemptType
  <1>2. status \in [Reqs -> Statuses]
    BY DEF TypeOK
  <1>3. CASE RowOk /\ MoreRows
    BY <1>1, <1>2, <1>3 DEF RowOk, MoreRows
  <1>4. CASE RowFailed \/ (RowOk /\ ~MoreRows)
    BY <1>1, <1>2, <1>4 DEF RowOk, RowFailed, Finish, Answer, Statuses
  <1>5. QED
    BY <1>3, <1>4

\* FlowInv is preserved by every step.
LEMMA FlowInvStep ==
    ASSUME ConstantsAssumption, FlowInv, [Next]_vars
    PROVE  FlowInv'
  <1>0. TypeOK /\ CurInv /\ PendingMatches
    BY DEF FlowInv
  <1> USE DEF Phases
  <1>1. ASSUME NEW r \in Reqs, Submit(r) PROVE FlowInv'
    BY <1>0, <1>1 DEF Submit, FlowInv, TypeOK, CurInv, PendingMatches, Attempt, Statuses,
      grpc, socket
  <1>2. CASE Take
    <2>1. Head(queue) \in Reqs /\ Tail(queue) \in Seq(Reqs) /\ Forward(Head(queue), Tail(queue))
      BY <1>0, <1>2 DEF Take, TypeOK
    <2>2. 1 \in 1..Rows[Head(queue)] /\ Head(queue) # None
      BY <2>1 DEF ConstantsAssumption
    <2>3. QED
      BY <1>0, <2>1, <2>2 DEF Forward, FlowInv, TypeOK, CurInv, PendingMatches, grpc, socket
  <1>3. CASE SendGrpc
    <2>1. Attempt("grpc") \in Attempts
      BY <1>0, <1>3, AttemptType DEF SendGrpc, CurInv
    <2>2. QED
      BY <1>0, <1>3, <2>1 DEF SendGrpc, FlowInv, TypeOK, CurInv, PendingMatches, Attempt, socket
  <1>4. CASE NoChannel \/ GrpcBreaks \/ GrpcLost
    BY <1>0, <1>4 DEF NoChannel, GrpcBreaks, GrpcLost, TurnToWs, FlowInv, TypeOK, CurInv,
      PendingMatches, Attempt, grpc, socket
  <1>5. CASE GrpcRefused
    BY <1>0, <1>5 DEF GrpcRefused, TurnToWs, FlowInv, TypeOK, CurInv, PendingMatches,
      Attempt, socket
  <1>6. CASE GrpcOk
    <2>1. cur # None /\ RowOk /\ phase = "call" /\ results' \subseteq results
          /\ UNCHANGED <<arrivals, queue, pending, boots, fallback, linked, calls, socket, db>>
      BY <1>0, <1>6 DEF GrpcOk, CurInv
    <2>2. QED
      BY <1>0, <2>1, RowDone DEF FlowInv, TypeOK, CurInv, PendingMatches, socket
  <1>7. CASE UseWs
    BY <1>0, <1>7 DEF UseWs, FlowInv, TypeOK, CurInv, PendingMatches, Attempt, grpc, socket
  <1>8. CASE SendWs
    <2>1. Attempt("ws") \in Attempts
      BY <1>0, <1>8, AttemptType DEF SendWs, CurInv
    <2>2. wire' \in Seq(Attempts) /\ pending' = {Attempt("ws")}
      BY <1>0, <1>8, <2>1, AppendProperties DEF SendWs, TypeOK, PendingMatches
    <2>3. QED
      BY <1>0, <1>8, <2>1, <2>2 DEF SendWs, FlowInv, TypeOK, CurInv, PendingMatches, Attempt, grpc
  <1>9. CASE SendWsFails
    <2>1. cur # None /\ RowFailed /\ phase = "ws"
          /\ UNCHANGED <<arrivals, queue, pending, boots, fallback, linked, grpc, socket, db>>
      BY <1>0, <1>9 DEF SendWsFails, CurInv
    <2>2. QED
      BY <1>0, <2>1, RowDone DEF FlowInv, TypeOK, CurInv, PendingMatches, grpc, socket
  <1>10. CASE WsAnswer
    <2>1. back' \subseteq back
          /\ UNCHANGED <<arrivals, queue, boots, fallback, linked, grpc, wire, old, db>>
      BY <1>10 DEF WsAnswer
    <2>2. CASE phase = "wait" /\ (RowOk \/ RowFailed) /\ pending' = {}
      <3>1. cur # None
        BY <1>0, <2>2 DEF CurInv
      <3>2. QED
        BY <1>0, <2>1, <2>2, <3>1, RowDone DEF FlowInv, TypeOK, CurInv, PendingMatches, grpc
    <2>3. CASE UNCHANGED <<status, cur, row, phase, pending>>
      BY <1>0, <2>1, <2>3 DEF FlowInv, TypeOK, CurInv, PendingMatches, Attempt, grpc
    <2>4. QED
      BY <1>10, <2>2, <2>3 DEF WsAnswer
  <1>11. CASE WsTimeout
    <2>1. cur # None /\ RowFailed /\ phase = "wait" /\ pending' = pending \ {Attempt("ws")}
          /\ UNCHANGED <<arrivals, queue, boots, fallback, linked, grpc, socket, db>>
      BY <1>0, <1>11 DEF WsTimeout, Forgotten, CurInv
    <2>2. pending' = {}
      BY <1>0, <2>1 DEF PendingMatches
    <2>3. QED
      BY <1>0, <2>1, <2>2, RowDone DEF FlowInv, TypeOK, CurInv, PendingMatches, grpc, socket
  <1>12. CASE StreamerFallsBack \/ WsConnect
    BY <1>0, <1>12 DEF StreamerFallsBack, WsConnect, FlowInv, TypeOK, CurInv, PendingMatches,
      Attempt, replica, grpc, socket
  <1>13. ASSUME TypeOK PROVE \A q \in Orphans : q \in Seq(Attempts) /\ q # <<>>
    BY <1>13 DEF Orphans, TypeOK
  <1>14. CASE WsBreaks
    BY <1>0, <1>13, <1>14, EmptySeq DEF WsBreaks, FlowInv, TypeOK, CurInv, PendingMatches,
      Attempt, replica, grpc
  <1>15. CASE Crash
    BY <1>0, <1>15, EmptySeq DEF Crash, FlowInv, TypeOK, CurInv, PendingMatches, Attempt, replica
  <1>16. CASE Reboot
    <2>1. status' \in [Reqs -> Statuses] /\ boots' \in 1..MaxBoots
      BY <1>0, <1>16 DEF Reboot, TypeOK, Statuses, ConstantsAssumption
    <2>2. QED
      BY <1>0, <1>13, <1>16, <2>1, EmptySeq DEF Reboot, FlowInv, TypeOK, CurInv, PendingMatches
  <1>17. ASSUME NEW a \in Attempts, NEW ok \in BOOLEAN, Execute(a, ok)
         PROVE  db' \in Seq(Attempts)
    BY <1>0, <1>17, AppendProperties DEF Execute, TypeOK
  <1>18. CASE ExecGrpc
    <2>1. PICK a \in calls, ok \in BOOLEAN :
             /\ Execute(a, ok) /\ calls' = calls \ {a}
             /\ results' \subseteq results \cup {[att |-> a, ok |-> ok]}
      BY <1>18 DEF ExecGrpc
    <2>2. a \in Attempts /\ [att |-> a, ok |-> ok] \in Outcomes
      BY <1>0 DEF TypeOK, Outcomes
    <2>3. db' \in Seq(Attempts)
      BY <1>17, <2>1, <2>2
    <2>4. UNCHANGED <<replica, fallback, linked, socket>>
      BY <1>18 DEF ExecGrpc
    <2>5. QED
      BY <1>0, <2>1, <2>2, <2>3, <2>4 DEF FlowInv, TypeOK, CurInv, PendingMatches, Attempt,
        replica, socket
  <1>19. CASE ExecWs
    <2>1. PICK ok \in BOOLEAN :
             /\ Execute(Head(wire), ok) /\ back' = back \cup {[att |-> Head(wire), ok |-> ok]}
      BY <1>19 DEF ExecWs
    <2>2. /\ Head(wire) \in Attempts /\ [att |-> Head(wire), ok |-> ok] \in Outcomes
          /\ Tail(wire) \in Seq(Attempts)
      BY <1>0, <1>19 DEF TypeOK, Outcomes, ExecWs
    <2>3. db' \in Seq(Attempts)
      BY <1>17, <2>1, <2>2
    <2>4. UNCHANGED <<replica, fallback, linked, grpc, old>> /\ wire' = Tail(wire)
      BY <1>19 DEF ExecWs
    <2>5. QED
      BY <1>0, <2>1, <2>2, <2>3, <2>4 DEF FlowInv, TypeOK, CurInv, PendingMatches, Attempt,
        replica, grpc
  <1>20. CASE ExecOld
    <2>1. PICK q \in old :
             \/ /\ \E ok \in BOOLEAN : Execute(Head(q), ok)
                /\ old' = (old \ {q}) \cup ({Tail(q)} \ {<<>>})
             \/ /\ old' = old \ {q}
                /\ db' = db
      BY <1>20 DEF ExecOld
    <2>2. q \in Seq(Attempts) /\ q # <<>> /\ Head(q) \in Attempts /\ Tail(q) \in Seq(Attempts)
      BY <1>0, HeadTailProperties DEF TypeOK
    <2>3. db' \in Seq(Attempts)
      BY <1>0, <1>17, <2>1, <2>2 DEF TypeOK
    <2>4. \A p \in old' : p \in Seq(Attempts) /\ p # <<>>
      BY <1>0, <2>1, <2>2 DEF TypeOK
    <2>5. UNCHANGED <<replica, fallback, linked, grpc, wire, back>>
      BY <1>20 DEF ExecOld
    <2>6. QED
      BY <1>0, <2>3, <2>4, <2>5 DEF FlowInv, TypeOK, CurInv, PendingMatches, Attempt,
        replica, grpc
  <1>21. CASE UNCHANGED vars
    BY <1>0, <1>21 DEF vars, FlowInv, TypeOK, CurInv, PendingMatches, Attempt,
      replica, grpc, socket
  <1>22. QED
    BY <1>1, <1>2, <1>3, <1>4, <1>5, <1>6, <1>7, <1>8, <1>9, <1>10, <1>11, <1>12,
       <1>14, <1>15, <1>16, <1>18, <1>19, <1>20, <1>21
    DEF Next, Task, Environment, Master

\* FlowInv holds in every reachable state.
LEMMA FlowInvHolds ==
    ASSUME ConstantsAssumption
    PROVE  Spec => []FlowInv
  <1>1. Init => FlowInv
    <2> SUFFICES ASSUME Init PROVE FlowInv
      OBVIOUS
    <2>1. /\ status \in [Reqs -> Statuses] /\ phase \in Phases /\ boots \in 1..MaxBoots
          /\ row \in IF cur = None THEN {0} ELSE 1..Rows[cur]
      BY DEF ConstantsAssumption, Init, Statuses, Phases
    <2>2. TypeOK
      BY <2>1, EmptySeq DEF Init, TypeOK
    <2>3. QED
      BY <2>2 DEF Init, FlowInv, CurInv, PendingMatches
  <1>2. FlowInv /\ [Next]_vars => FlowInv'
    BY FlowInvStep
  <1>3. QED
    BY <1>1, <1>2, PTL DEF Spec

\* The type invariant, and that no entry of the map of waiting requests
\* outlives its request: neither a timeout, nor a late answer, nor a break of
\* either connection leaves one behind.
THEOREM PendingHolds ==
    ASSUME ConstantsAssumption
    PROVE  Spec => [](TypeOK /\ PendingMatches)
  <1>1. FlowInv => TypeOK /\ PendingMatches
    BY DEF FlowInv
  <1>2. QED
    BY <1>1, FlowInvHolds, PTL

-----------------------------------------------------------------------------
(* What a call that was told Ok has in the file.                           *)

\* Only the master's three handlers write, each one attempt, from where it was
\* sent to the end of the file.
LEMMA FileStep ==
    ASSUME ConstantsAssumption, FlowInv, [Next]_vars, db' # db
    PROVE  \/ \E a \in calls : ExecGrpc /\ calls' = calls \ {a} /\ db' = Append(db, a)
           \/ ExecWs /\ wire # <<>> /\ db' = Append(db, Head(wire))
           \/ \E q \in old : /\ ExecOld /\ old' = (old \ {q}) \cup ({Tail(q)} \ {<<>>})
                             /\ db' = Append(db, Head(q))
  <1>1. \/ ExecGrpc \/ ExecWs \/ ExecOld
    BY DEF Next, Task, Environment, Master, Submit, Take, Forward, SendGrpc, GrpcOk,
      GrpcRefused, GrpcLost, UseWs, SendWs, SendWsFails, WsAnswer, NoChannel, GrpcBreaks,
      StreamerFallsBack, WsConnect, WsBreaks, Crash, Reboot, WsTimeout, vars
  <1>2. CASE ExecGrpc
    BY <1>2 DEF ExecGrpc, Execute
  <1>3. CASE ExecWs
    BY <1>3 DEF ExecWs, Execute
  <1>4. CASE ExecOld
    BY <1>4 DEF ExecOld, Execute
  <1>5. QED
    BY <1>1, <1>2, <1>3, <1>4

\* What was sent by any of the three is an attempt.
LEMMA SentType ==
    ASSUME TypeOK
    PROVE  /\ \A a \in calls : a \in Attempts
           /\ wire # <<>> => Head(wire) \in Attempts /\ Head(wire) = wire[1]
                             /\ 1 \in 1..Len(wire)
           /\ \A q \in old : Head(q) \in Attempts /\ Head(q) = q[1] /\ 1 \in 1..Len(q)
  BY DEF TypeOK

\* The file only grows.
LEMMA FileGrows ==
    ASSUME ConstantsAssumption, FlowInv, [Next]_vars
    PROVE  /\ Len(db) \in Nat /\ Len(db') \in Nat /\ Len(db) =< Len(db')
           /\ \A k \in 1..Len(db) : db'[k] = db[k]
           /\ \A a : Stored(a) => Stored(a)'
           /\ \A r, i : RowIn(r, i, db) => RowIn(r, i, db')
  <1>0. TypeOK /\ db \in Seq(Attempts)
    BY DEF FlowInv, TypeOK
  <1>1. /\ Len(db) \in Nat /\ Len(db') \in Nat /\ Len(db) =< Len(db')
        /\ \A k \in 1..Len(db) : db'[k] = db[k]
    <2>1. CASE db' = db
      BY <1>0, <2>1, LenProperties
    <2>2. ASSUME NEW a \in Attempts, db' = Append(db, a)
          PROVE  /\ Len(db) \in Nat /\ Len(db') \in Nat /\ Len(db) =< Len(db')
                 /\ \A k \in 1..Len(db) : db'[k] = db[k]
      BY <1>0, <2>2, AppendProperties, LenProperties
    <2>3. QED
      BY <1>0, <2>1, <2>2, FileStep, SentType
  <1>2. QED
    BY <1>1 DEF Stored, RowIn

\* What a step does to the request under way: it starts, one of its rows is
\* done or refused, or the replica dies.
LEMMA TaskStep ==
    ASSUME ConstantsAssumption, FlowInv, AckInv, [Next]_vars
    PROVE  \/ /\ UNCHANGED <<status, cur, row, arrivals, queue>>
              /\ phase \in {"call", "ws", "wait"} => phase' \in {"call", "ws", "wait"}
              /\ phase = "wait" => phase' = "wait"
           \/ \E r \in Reqs : Submit(r)
           \/ Take
           \/ /\ cur # None /\ UNCHANGED <<db, arrivals, queue>>
              /\ RowFailed \/ (RowOk /\ RowIn(cur, row, db))
           \/ Reboot
  <1>0. TypeOK /\ CurInv /\ PendingMatches
    BY DEF FlowInv
  <1>1. CASE GrpcOk
    <2>1. Stored(Attempt("grpc"))
      BY <1>1 DEF GrpcOk, AckInv
    <2>2. RowIn(cur, row, db)
      BY <2>1 DEF Stored, RowIn, Attempt
    <2>3. QED
      BY <1>0, <1>1, <2>2 DEF GrpcOk, CurInv
  <1>2. CASE WsAnswer
    <2>1. PICK x \in back :
             IF phase = "wait" /\ Matches(x.att)
               THEN (IF x.ok THEN RowOk ELSE RowFailed)
               ELSE UNCHANGED <<status, cur, row, phase, pending>>
      BY <1>2 DEF WsAnswer
    <2>2. CASE phase = "wait" /\ Matches(x.att) /\ x.ok
      <3>1. Stored(Attempt("ws"))
        BY <1>0, <2>2 DEF AckInv, Matches, PendingMatches
      <3>2. RowIn(cur, row, db)
        BY <3>1 DEF Stored, RowIn, Attempt
      <3>3. QED
        BY <1>0, <1>2, <2>1, <2>2, <3>2 DEF WsAnswer, CurInv
    <2>3. CASE phase = "wait" /\ Matches(x.att) /\ ~x.ok
      BY <1>0, <1>2, <2>1, <2>3 DEF WsAnswer, CurInv
    <2>4. CASE ~(phase = "wait" /\ Matches(x.att))
      BY <1>2, <2>1, <2>4 DEF WsAnswer
    <2>5. QED
      BY <2>2, <2>3, <2>4
  <1>3. CASE SendWsFails \/ WsTimeout
    BY <1>0, <1>3 DEF SendWsFails, WsTimeout, CurInv
  <1>4. CASE \/ SendGrpc \/ GrpcRefused \/ GrpcLost \/ UseWs \/ SendWs \/ NoChannel
             \/ GrpcBreaks \/ StreamerFallsBack \/ WsConnect \/ WsBreaks \/ Crash
             \/ Master \/ UNCHANGED vars
    <2>1. /\ UNCHANGED <<status, cur, row, arrivals, queue>>
          /\ phase \in {"call", "ws", "wait"} => phase' \in {"call", "ws", "wait"}
          /\ phase = "wait" => phase' = "wait"
      BY <1>4 DEF SendGrpc, GrpcRefused, GrpcLost, UseWs, SendWs, NoChannel, GrpcBreaks,
        TurnToWs, StreamerFallsBack, WsConnect, WsBreaks, Crash, Master, ExecGrpc, ExecWs, ExecOld,
        vars, replica
    <2>2. QED
      BY <2>1
  <1>5. QED
    BY <1>1, <1>2, <1>3, <1>4 DEF Next, Task, Environment

\* AckInv is preserved by every step.
LEMMA AckInvStep ==
    ASSUME ConstantsAssumption, FlowInv, AckInv, [Next]_vars
    PROVE  AckInv'
  <1>0. TypeOK /\ CurInv /\ PendingMatches /\ db \in Seq(Attempts)
    BY DEF FlowInv, TypeOK
  <1>1. ASSUME NEW x \in (results \cup back)', x.ok PROVE Stored(x.att)'
    <2>1. ASSUME NEW a \in Attempts, db' = Append(db, a) PROVE Stored(a)'
      <3>1. db'[Len(db) + 1] = a /\ Len(db) + 1 \in 1..Len(db')
        BY <1>0, <2>1, AppendProperties, LenProperties
      <3>2. QED
        BY <3>1 DEF Stored
    <2>2. CASE x \in results \cup back
      BY <1>1, <2>2, FileGrows DEF AckInv
    <2>3. CASE x \notin results \cup back
      <3>1. ExecGrpc \/ ExecWs
        BY <2>3 DEF Next, Task, Environment, Master, Submit, Take, Forward, SendGrpc,
          GrpcOk, GrpcRefused, GrpcLost, UseWs, SendWs, SendWsFails, WsAnswer, NoChannel,
          GrpcBreaks, StreamerFallsBack, WsConnect, WsBreaks, Crash, Reboot, WsTimeout,
          ExecOld, vars, grpc, socket
      <3>2. CASE ExecGrpc
        <4>1. PICK a \in calls, ok \in BOOLEAN :
                 Execute(a, ok) /\ results' \subseteq results \cup {[att |-> a, ok |-> ok]}
          BY <3>2 DEF ExecGrpc
        <4>2. back' = back
          BY <3>2 DEF ExecGrpc, socket
        <4>3. x = [att |-> a, ok |-> ok]
          BY <2>3, <4>1, <4>2
        <4>4. a \in Attempts /\ db' = Append(db, a) /\ x.att = a
          BY <1>0, <1>1, <4>1, <4>3 DEF TypeOK, Execute
        <4>5. QED
          BY <2>1, <4>4
      <3>3. CASE ExecWs
        <4>1. PICK ok \in BOOLEAN :
                 /\ Execute(Head(wire), ok)
                 /\ back' = back \cup {[att |-> Head(wire), ok |-> ok]}
          BY <3>3 DEF ExecWs
        <4>2. results' = results /\ wire # <<>>
          BY <3>3 DEF ExecWs, grpc
        <4>3. x = [att |-> Head(wire), ok |-> ok]
          BY <2>3, <4>1, <4>2
        <4>4. Head(wire) \in Attempts /\ db' = Append(db, Head(wire)) /\ x.att = Head(wire)
          BY <1>0, <1>1, <4>1, <4>2, <4>3, SentType DEF Execute
        <4>5. QED
          BY <2>1, <4>4
      <3>4. QED
        BY <3>1, <3>2, <3>3
    <2>4. QED
      BY <2>2, <2>3
  <1>2. /\ cur' # None => \A i \in 1..(row' - 1) : RowIn(cur', i, db')
        /\ \A r \in Reqs : status'[r] = "ok" => \A i \in 1..Rows[r] : RowIn(r, i, db')
    <2>1. CASE UNCHANGED <<status, cur, row>>
      BY <2>1, FileGrows DEF AckInv
    <2>2. ASSUME NEW r \in Reqs, Submit(r)
          PROVE  /\ cur' # None => \A i \in 1..(row' - 1) : RowIn(cur', i, db')
                 /\ \A q \in Reqs : status'[q] = "ok" => \A i \in 1..Rows[q] : RowIn(q, i, db')
      <3>1. cur' = cur /\ row' = row /\ status' = [status EXCEPT ![r] = "waiting"]
        BY <2>2 DEF Submit
      <3>2. \A q \in Reqs : status'[q] = "ok" => status[q] = "ok"
        BY <1>0, <3>1 DEF TypeOK
      <3>3. QED
        BY <3>1, <3>2, FileGrows DEF AckInv
    <2>3. CASE Take
      <3>1. row' = 1 /\ status' = status
        BY <2>3 DEF Take, Forward
      <3>2. QED
        BY <3>1, FileGrows DEF AckInv
    <2>4. CASE cur # None /\ (RowFailed \/ (RowOk /\ RowIn(cur, row, db)))
      <3>1. cur \in Reqs /\ row \in 1..Rows[cur] /\ Rows[cur] \in Nat
            /\ status \in [Reqs -> Statuses]
        BY <1>0, <2>4, AttemptType DEF TypeOK
      <3>2. CASE RowOk /\ MoreRows
        <4>1. row' = row + 1 /\ cur' = cur /\ status' = status
          BY <3>2 DEF RowOk
        <4>2. \A i \in 1..(row' - 1) : RowIn(cur, i, db)
          BY <2>4, <3>1, <3>2, <4>1 DEF AckInv, RowOk, RowFailed, Finish
        <4>3. QED
          BY <4>1, <4>2, FileGrows DEF AckInv
      <3>3. CASE RowOk /\ ~MoreRows
        <4>1. cur' = None /\ row = Rows[cur] /\ status' = [status EXCEPT ![cur] = "ok"]
          BY <3>1, <3>3 DEF RowOk, MoreRows, Finish, Answer
        <4>2. \A i \in 1..Rows[cur] : RowIn(cur, i, db)
          <5>1. RowIn(cur, row, db)
            <6>1. ~RowFailed
              BY <3>1, <4>1 DEF RowFailed, Finish, Answer
            <6>2. QED
              BY <2>4, <6>1
          <5>2. QED
            BY <2>4, <3>1, <4>1, <5>1 DEF AckInv
        <4>3. \A q \in Reqs : status'[q] = "ok" => status[q] = "ok" \/ q = cur
          BY <3>1, <4>1
        <4>4. QED
          BY <4>1, <4>2, <4>3, FileGrows DEF AckInv
      <3>4. CASE RowFailed
        <4>1. cur' = None /\ status' = [status EXCEPT ![cur] = "err"]
          BY <3>4 DEF RowFailed, Finish, Answer
        <4>2. \A q \in Reqs : status'[q] = "ok" => status[q] = "ok"
          BY <3>1, <4>1
        <4>3. QED
          BY <4>1, <4>2, FileGrows DEF AckInv
      <3>5. QED
        BY <2>4, <3>2, <3>3, <3>4
    <2>5. CASE Reboot
      <3>1. cur' = None /\ \A q \in Reqs : status'[q] = "ok" => status[q] = "ok"
        BY <2>5 DEF Reboot
      <3>2. QED
        BY <3>1, FileGrows DEF AckInv
    <2>6. QED
      BY <2>1, <2>2, <2>3, <2>4, <2>5, TaskStep
  <1>3. QED
    BY <1>1, <1>2 DEF AckInv

\* AckInv holds in every reachable state.
LEMMA AckInvHolds ==
    ASSUME ConstantsAssumption
    PROVE  Spec => []AckInv
  <1>1. Init => AckInv
    BY DEF Init, AckInv
  <1>2. FlowInv /\ AckInv /\ [Next]_vars => AckInv'
    BY AckInvStep
  <1>3. QED
    BY <1>1, <1>2, FlowInvHolds, PTL DEF Spec

\* A caller on a replica that was told Ok has all its rows in the file of the
\* master, whichever connection took them and whatever broke.
THEOREM Durable ==
    ASSUME ConstantsAssumption
    PROVE  Spec => []AckedIsStored
  <1>1. FlowInv /\ AckInv => AckedIsStored
    BY LenProperties DEF FlowInv, TypeOK, AckInv, AckedIsStored, RowIn, Holds
  <1>2. QED
    BY <1>1, FlowInvHolds, AckInvHolds, PTL

-----------------------------------------------------------------------------
(* The line of the callers, and what was sent for them.                    *)

\* What the line looks like with numbers for its lengths.
LEMMA LineLengths ==
    ASSUME TypeOK
    PROVE  /\ Len(arrivals) \in Nat /\ Len(queue) \in Nat
           /\ Len(arrivals) = Done + Len(queue)
           /\ \A a \in 1..Len(arrivals) : arrivals[a] \in Reqs
  BY LenProperties DEF TypeOK, Done

\* The line keeps its shape; what has left the channel never comes back.
LEMMA LineInvStep ==
    ASSUME ConstantsAssumption, FlowInv, FlowInv', AckInv, LineInv, [Next]_vars
    PROVE  /\ LineInv' /\ Done =< Done' /\ Done' =< Len(arrivals)
           /\ Len(arrivals) =< Len(arrivals')
           /\ \A a \in 1..Len(arrivals) : arrivals'[a] = arrivals[a]
  <1> DEFINE Goal == /\ LineInv' /\ Done =< Done' /\ Done' =< Len(arrivals)
                     /\ Len(arrivals) =< Len(arrivals')
                     /\ \A a \in 1..Len(arrivals) : arrivals'[a] = arrivals[a]
  <1>0. TypeOK /\ TypeOK' /\ status \in [Reqs -> Statuses] /\ CurInv
        /\ arrivals \in Seq(Reqs) /\ queue \in Seq(Reqs)
    BY DEF FlowInv, TypeOK
  <1>1. /\ Len(arrivals) \in Nat /\ Len(queue) \in Nat /\ Done \in Nat
        /\ Len(arrivals) = Done + Len(queue)
        /\ \A a \in 1..Len(arrivals) : arrivals[a] \in Reqs /\ status[arrivals[a]] # "idle"
        /\ \A k \in 1..Len(queue) : arrivals[Done + k] = queue[k] /\ status[queue[k]] # "ok"
                                    /\ Done + k \in 1..Len(arrivals)
        /\ \A a, b \in 1..Len(arrivals) : arrivals[a] = arrivals[b] => a = b
    BY <1>0, LineLengths DEF LineInv
  <1>2. CASE UNCHANGED <<status, cur, arrivals, queue>>
    BY <1>1, <1>2 DEF LineInv, Done
  <1>3. ASSUME NEW r \in Reqs, Submit(r) PROVE Goal
    <2>1. /\ arrivals' = Append(arrivals, r) /\ queue' = Append(queue, r) /\ cur' = cur
          /\ status[r] = "idle" /\ status' = [status EXCEPT ![r] = "waiting"]
      BY <1>3 DEF Submit
    <2>2. /\ Len(arrivals') = Len(arrivals) + 1 /\ Len(queue') = Len(queue) + 1
          /\ \A i \in 1..Len(arrivals) : arrivals'[i] = arrivals[i]
          /\ arrivals'[Len(arrivals) + 1] = r
          /\ \A i \in 1..Len(queue) : queue'[i] = queue[i]
          /\ queue'[Len(queue) + 1] = r
      BY <1>0, <2>1, AppendProperties
    <2>a. \A a \in 1..Len(arrivals') : a \in 1..Len(arrivals) \/ a = Len(arrivals) + 1
      <3>1. Len(arrivals) \in Nat /\ Len(arrivals') = Len(arrivals) + 1
        BY <1>1, <2>2
      <3>2. QED
        BY <3>1
    <2>3. Done' = Done
      BY <1>1, <2>2 DEF Done
    <2>4. \A a \in 1..Len(arrivals) : arrivals[a] # r
      BY <1>1, <2>1
    <2>5. ASSUME NEW a \in 1..Len(arrivals'), NEW b \in 1..Len(arrivals'),
                 arrivals'[a] = arrivals'[b]
          PROVE  a = b
      <3>1. /\ a \in 1..Len(arrivals) \/ a = Len(arrivals) + 1
            /\ b \in 1..Len(arrivals) \/ b = Len(arrivals) + 1
        BY <2>a
      <3>2. CASE a \in 1..Len(arrivals) /\ b \in 1..Len(arrivals)
        <4>1. arrivals[a] = arrivals[b]
          BY <2>2, <2>5, <3>2
        <4>2. QED
          BY <1>1, <3>2, <4>1
      <3>3. CASE a = Len(arrivals) + 1 /\ b \in 1..Len(arrivals)
        BY <2>2, <2>4, <2>5, <3>3
      <3>4. CASE b = Len(arrivals) + 1 /\ a \in 1..Len(arrivals)
        BY <2>2, <2>4, <2>5, <3>4
      <3>5. QED
        BY <3>1, <3>2, <3>3, <3>4
    <2>6. \A q \in Reqs : status'[q] = IF q = r THEN "waiting" ELSE status[q]
      BY <1>0, <2>1
    <2>7. ASSUME NEW a \in 1..Len(arrivals') PROVE status'[arrivals'[a]] # "idle"
      <3>1. CASE a \in 1..Len(arrivals)
        <4>1. arrivals'[a] = arrivals[a] /\ arrivals[a] \in Reqs /\ status[arrivals[a]] # "idle"
          BY <1>1, <2>2, <3>1
        <4>2. QED
          BY <2>6, <4>1
      <3>2. CASE a = Len(arrivals) + 1
        <4>1. arrivals'[a] = r
          BY <2>2, <3>2
        <4>2. QED
          BY <2>6, <4>1
      <3>3. QED
        BY <2>a, <3>1, <3>2
    <2>8. ASSUME NEW k \in 1..Len(queue')
          PROVE  arrivals'[Done' + k] = queue'[k] /\ status'[queue'[k]] # "ok"
      <3>1. CASE k = Len(queue) + 1
        <4>1. Done' + k = Len(arrivals) + 1
          BY <1>1, <2>3, <3>1
        <4>2. QED
          BY <2>2, <2>6, <3>1, <4>1
      <3>2. CASE k \in 1..Len(queue)
        <4>1. queue[k] \in Reqs
          BY <1>0, <3>2
        <4>2. QED
          BY <1>1, <2>2, <2>3, <2>6, <3>2, <4>1
      <3>3. QED
        BY <1>1, <2>2, <3>1, <3>2
    <2>9. cur' # None => Done' > 0 /\ arrivals'[Done'] = cur'
      <3>1. cur # None => Done \in 1..Len(arrivals) /\ arrivals[Done] = cur
        BY <1>1 DEF LineInv
      <3>2. QED
        BY <1>1, <2>1, <2>2, <2>3, <3>1
    <2>10. QED
      BY <1>1, <2>2, <2>3, <2>5, <2>7, <2>8, <2>9 DEF LineInv
  <1>4. CASE Take
    <2>1. /\ UNCHANGED <<arrivals, status>> /\ cur' = Head(queue) /\ queue' = Tail(queue)
          /\ queue # <<>>
      BY <1>4 DEF Take, Forward
    <2>2. /\ cur' = queue[1] /\ 1 \in 1..Len(queue) /\ Len(queue') = Len(queue) - 1
          /\ \A k \in 1..Len(queue') : queue'[k] = queue[k + 1]
      BY <1>0, <2>1
    <2>3. Done' = Done + 1
      BY <1>1, <2>1, <2>2 DEF Done
    <2>4. ASSUME NEW k \in 1..Len(queue')
          PROVE  arrivals'[Done' + k] = queue'[k] /\ status'[queue'[k]] # "ok"
      <3>1. k + 1 \in 1..Len(queue) /\ Done' + k = Done + (k + 1)
        BY <1>1, <2>2, <2>3
      <3>2. QED
        BY <1>1, <2>1, <2>2, <3>1
    <2>5. arrivals'[Done'] = cur'
      BY <1>1, <2>1, <2>2, <2>3
    <2>6. Done' =< Len(arrivals)
      BY <1>1, <2>2, <2>3
    <2>7. QED
      BY <1>1, <2>1, <2>3, <2>4, <2>5, <2>6 DEF LineInv
  <1>5. CASE /\ cur # None /\ UNCHANGED <<db, arrivals, queue>>
             /\ RowFailed \/ (RowOk /\ RowIn(cur, row, db))
    <2>1. Done' = Done
      BY <1>5 DEF Done
    <2>2. \/ cur' = cur /\ status' = status
          \/ cur' = None /\ \E v \in {"ok", "err"} : status' = [status EXCEPT ![cur] = v]
      BY <1>5 DEF RowOk, RowFailed, Finish, Answer
    <2>3. Done \in 1..Len(arrivals) /\ arrivals[Done] = cur
      BY <1>1, <1>5 DEF LineInv
    <2>4. \A k \in 1..Len(queue) : queue[k] # cur
      BY <1>1, <2>3
    <2>5. /\ \A q \in Reqs : status[q] # "idle" => status'[q] # "idle"
          /\ \A q \in Reqs : q # cur => status'[q] = status[q]
      BY <1>0, <2>2
    <2>6. \A k \in 1..Len(queue) : queue[k] \in Reqs
      BY <1>0
    <2>7. QED
      BY <1>1, <1>5, <2>1, <2>2, <2>3, <2>4, <2>5, <2>6 DEF LineInv
  <1>6. CASE Reboot
    <2>1. /\ queue' = <<>> /\ Len(queue') = 0 /\ cur' = None /\ UNCHANGED arrivals
          /\ \A q \in Reqs : status[q] # "idle" => status'[q] # "idle"
      BY <1>6, EmptySeq DEF Reboot
    <2>2. Done' = Len(arrivals)
      BY <1>1, <2>1 DEF Done
    <2>3. QED
      BY <1>1, <2>1, <2>2 DEF LineInv
  <1>7. QED
    BY <1>2, <1>3, <1>4, <1>5, <1>6, TaskStep

\* LineInv holds in every reachable state.
LEMMA LineInvHolds ==
    ASSUME ConstantsAssumption
    PROVE  Spec => []LineInv
  <1>1. Init => LineInv
    BY EmptySeq DEF Init, LineInv, Done
  <1>2. FlowInv /\ FlowInv' /\ AckInv /\ LineInv /\ [Next]_vars => LineInv'
    BY LineInvStep
  <1>3. QED
    BY <1>1, <1>2, FlowInvHolds, AckInvHolds, PTL DEF Spec

\* What is on its way to the master or in its file was there before, or is the
\* attempt that the task sends in this step.
LEMMA SentStep ==
    ASSUME TypeOK, [Next]_vars
    PROVE  \A a : Sent(a)' =>
              \/ Sent(a)
              \/ SendGrpc /\ a = Attempt("grpc")
              \/ SendWs /\ a = Attempt("ws")
  <1> SUFFICES ASSUME NEW a, Sent(a)'
               PROVE  \/ Sent(a)
                      \/ SendGrpc /\ a = Attempt("grpc")
                      \/ SendWs /\ a = Attempt("ws")
    OBVIOUS
  <1>0. /\ wire \in Seq(Attempts) /\ db \in Seq(Attempts)
        /\ \A q \in old : q \in Seq(Attempts) /\ q # <<>>
    BY DEF TypeOK
  <1>1. CASE UNCHANGED <<calls, wire, old, db>>
    BY <1>1 DEF Sent, OnWire, InOld, Stored
  <1>2. CASE SendGrpc
    <2>1. calls' = calls \cup {Attempt("grpc")} /\ UNCHANGED <<wire, old, db>>
      BY <1>2 DEF SendGrpc, socket
    <2>2. QED
      BY <1>2, <2>1 DEF Sent, OnWire, InOld, Stored
  <1>3. CASE SendWs
    <2>1. wire' = Append(wire, Attempt("ws")) /\ UNCHANGED <<calls, old, db>>
      BY <1>3 DEF SendWs, grpc
    <2>2. OnWire(a)' => OnWire(a) \/ a = Attempt("ws")
      BY <1>0, <2>1 DEF OnWire
    <2>3. QED
      BY <1>3, <2>1, <2>2 DEF Sent, InOld, Stored
  <1>4. CASE WsBreaks \/ Reboot
    <2>1. wire' = <<>> /\ old' = Orphans /\ UNCHANGED <<calls, db>>
      BY <1>4 DEF WsBreaks, Reboot, grpc
    <2>2. ~OnWire(a)'
      BY <2>1 DEF OnWire
    <2>3. InOld(a)' => InOld(a) \/ OnWire(a)
      BY <2>1 DEF InOld, OnWire, Orphans
    <2>4. QED
      BY <2>1, <2>2, <2>3 DEF Sent, Stored
  <1>5. CASE Crash
    <2>1. wire' = <<>> /\ old' = {} /\ calls' = {} /\ db' = db
      BY <1>5 DEF Crash
    <2>2. QED
      BY <2>1 DEF Sent, OnWire, InOld, Stored
  <1>6. ASSUME NEW b \in Attempts, NEW ok, Execute(b, ok), Stored(a)'
        PROVE  Stored(a) \/ a = b
    BY <1>0, <1>6 DEF Execute, Stored
  <1>7. CASE ExecGrpc
    <2>1. PICK b \in calls, ok \in BOOLEAN : Execute(b, ok) /\ calls' = calls \ {b}
      BY <1>7 DEF ExecGrpc
    <2>2. UNCHANGED <<wire, old>> /\ b \in Attempts
      BY <1>7, SentType DEF ExecGrpc, socket
    <2>3. Stored(a)' => Stored(a) \/ a = b
      BY <1>6, <2>1, <2>2
    <2>4. QED
      BY <2>1, <2>2, <2>3 DEF Sent, OnWire, InOld
  <1>8. CASE ExecWs
    <2>1. PICK ok \in BOOLEAN : Execute(Head(wire), ok)
      BY <1>8 DEF ExecWs
    <2>2. UNCHANGED <<calls, old>> /\ wire' = Tail(wire) /\ wire # <<>>
      BY <1>8 DEF ExecWs, grpc
    <2>3. /\ Head(wire) \in Attempts /\ Head(wire) = wire[1] /\ 1 \in 1..Len(wire)
          /\ \A k \in 1..Len(Tail(wire)) : Tail(wire)[k] = wire[k + 1] /\ k + 1 \in 1..Len(wire)
      BY <1>0, <2>2
    <2>4. OnWire(a)' => OnWire(a)
      BY <2>2, <2>3 DEF OnWire
    <2>5. Stored(a)' => Stored(a) \/ OnWire(a)
      BY <1>6, <2>1, <2>3 DEF OnWire
    <2>6. QED
      BY <2>2, <2>4, <2>5 DEF Sent, InOld
  <1>9. CASE ExecOld
    <2>1. PICK q \in old :
             \/ /\ \E ok \in BOOLEAN : Execute(Head(q), ok)
                /\ old' = (old \ {q}) \cup ({Tail(q)} \ {<<>>})
             \/ /\ old' = old \ {q}
                /\ db' = db
      BY <1>9 DEF ExecOld
    <2>2. UNCHANGED <<calls, wire>>
      BY <1>9 DEF ExecOld, grpc
    <2>3. /\ Head(q) \in Attempts /\ Head(q) = q[1] /\ 1 \in 1..Len(q)
          /\ \A k \in 1..Len(Tail(q)) : Tail(q)[k] = q[k + 1] /\ k + 1 \in 1..Len(q)
      BY <1>0
    <2>4. InOld(a)' => InOld(a)
      BY <2>1, <2>3 DEF InOld
    <2>5. Stored(a)' => Stored(a) \/ InOld(a)
      BY <1>6, <2>1, <2>3 DEF InOld, Stored
    <2>6. QED
      BY <2>2, <2>4, <2>5 DEF Sent, OnWire
  <1>10. QED
    BY <1>1, <1>2, <1>3, <1>4, <1>5, <1>7, <1>8, <1>9
    DEF Next, Task, Environment, Master, Submit, Take, Forward, GrpcOk, GrpcRefused,
      GrpcLost, UseWs, SendWsFails, WsAnswer, WsTimeout, NoChannel, GrpcBreaks,
      StreamerFallsBack, WsConnect, vars, grpc, socket

\* SentInv is preserved by every step.
LEMMA SentInvStep ==
    ASSUME ConstantsAssumption, FlowInv, FlowInv', AckInv, LineInv, LineInv', SentInv,
           [Next]_vars
    PROVE  SentInv'
  <1> SUFFICES ASSUME NEW a \in Attempts, Sent(a)'
               PROVE  /\ AmongFirst(a.req, arrivals', Done')
                      /\ a.req = cur' =>
                            \/ a.row < row'
                            \/ a.row = row' /\ a.via = "grpc" /\ phase' \in {"call", "ws", "wait"}
                            \/ a.row = row' /\ a.via = "ws" /\ phase' = "wait"
    BY DEF SentInv
  <1>0. TypeOK /\ CurInv
    BY DEF FlowInv
  <1>1. /\ Done \in Nat /\ Done' \in Nat /\ Done =< Done' /\ Done =< Len(arrivals)
        /\ Len(arrivals) \in Nat
        /\ \A n \in 1..Len(arrivals) : arrivals'[n] = arrivals[n]
    BY <1>0, LineInvStep, LineLengths DEF LineInv
  <1>2. a.req \in Reqs /\ a.req # None /\ a.row \in Nat
    BY DEF Attempts, ConstantsAssumption
  <1>3. CASE (SendGrpc /\ a = Attempt("grpc")) \/ (SendWs /\ a = Attempt("ws"))
    <2>1. /\ a.req = cur /\ a.row = row /\ UNCHANGED <<cur, row, arrivals, queue>>
          /\ (a.via = "grpc" /\ phase' = "call") \/ (a.via = "ws" /\ phase' = "wait")
      BY <1>3 DEF SendGrpc, SendWs, Attempt
    <2>2. Done' = Done /\ Done > 0 /\ arrivals[Done] = cur
      BY <1>2, <2>1 DEF LineInv, Done
    <2>3. AmongFirst(a.req, arrivals', Done')
      BY <1>1, <2>1, <2>2 DEF AmongFirst
    <2>4. QED
      BY <2>1, <2>3
  <1>4. CASE Sent(a)
    <2>1. PICK n \in 1..Done : arrivals[n] = a.req
      BY <1>4 DEF SentInv, AmongFirst
    <2>2. n \in 1..Done' /\ arrivals'[n] = a.req
      BY <1>1, <2>1
    <2>3. AmongFirst(a.req, arrivals', Done')
      BY <2>2 DEF AmongFirst
    <2>4. a.req = cur =>
             \/ a.row < row
             \/ a.row = row /\ a.via = "grpc" /\ phase \in {"call", "ws", "wait"}
             \/ a.row = row /\ a.via = "ws" /\ phase = "wait"
      BY <1>4 DEF SentInv
    <2>5. CASE UNCHANGED <<cur, row, phase>>
      BY <2>3, <2>4, <2>5
    <2>6. CASE /\ UNCHANGED <<status, cur, row, arrivals, queue>>
               /\ phase \in {"call", "ws", "wait"} => phase' \in {"call", "ws", "wait"}
               /\ phase = "wait" => phase' = "wait"
      BY <2>3, <2>4, <2>6
    <2>7. CASE Take
      <3>1. Done' = Done + 1 /\ arrivals' = arrivals
        <4>1. queue # <<>> /\ queue' = Tail(queue) /\ arrivals' = arrivals
              /\ queue \in Seq(Reqs)
          BY <1>0, <2>7 DEF Take, Forward, TypeOK
        <4>2. Len(queue') = Len(queue) - 1 /\ Len(queue) \in Nat
          BY <4>1
        <4>3. QED
          BY <1>1, <4>1, <4>2 DEF Done
      <3>2. cur' # None => arrivals'[Done'] = cur' /\ Done' \in 1..Len(arrivals')
        <4>1. TypeOK'
          BY DEF FlowInv
        <4>2. Len(arrivals') \in Nat /\ Len(queue') \in Nat /\ Len(arrivals') = Done' + Len(queue')
          BY <4>1 DEF Done, TypeOK
        <4>3. QED
          BY <1>1, <4>2 DEF LineInv
      <3>3. a.req # cur'
        <4>1. SUFFICES ASSUME a.req = cur' PROVE FALSE
          OBVIOUS
        <4>2. arrivals'[Done'] = arrivals'[n] /\ Done' \in 1..Len(arrivals')
          BY <1>2, <2>2, <3>2, <4>1
        <4>3. n \in 1..Len(arrivals') /\ n # Done'
          BY <1>1, <2>1, <3>1, <4>2
        <4>4. QED
          BY <4>2, <4>3 DEF LineInv
      <3>4. QED
        BY <2>3, <3>3
    <2>8. CASE cur # None /\ (RowFailed \/ RowOk)
      <3>1. cur' = None \/ (cur' = cur /\ row' = row + 1)
        BY <2>8 DEF RowFailed, RowOk, Finish
      <3>2. row \in Nat
        BY <1>0, <2>8, AttemptType
      <3>3. QED
        BY <1>2, <2>3, <2>4, <3>1, <3>2
    <2>9. CASE Reboot
      BY <1>2, <2>3, <2>9 DEF Reboot
    <2>10. QED
      BY <2>5, <2>6, <2>7, <2>8, <2>9, TaskStep DEF Submit
  <1>5. QED
    BY <1>0, <1>3, <1>4, SentStep

\* SentInv holds in every reachable state.
LEMMA SentInvHolds ==
    ASSUME ConstantsAssumption
    PROVE  Spec => []SentInv
  <1>1. Init => SentInv
    BY DEF Init, SentInv, Sent, OnWire, InOld, Stored
  <1>2. /\ FlowInv /\ FlowInv' /\ AckInv /\ LineInv /\ LineInv' /\ SentInv /\ [Next]_vars
        => SentInv'
    BY SentInvStep
  <1>3. QED
    BY <1>1, <1>2, FlowInvHolds, AckInvHolds, LineInvHolds, PTL DEF Spec

-----------------------------------------------------------------------------
(* The order of the acknowledged requests in the file.                     *)

\* Only the request under way is answered Ok.
LEMMA NewlyOk ==
    ASSUME ConstantsAssumption, FlowInv, AckInv, [Next]_vars,
           NEW r \in Reqs, status'[r] = "ok", status[r] # "ok"
    PROVE  r = cur /\ cur # None /\ UNCHANGED <<arrivals, queue>>
  <1>0. status \in [Reqs -> Statuses]
    BY DEF FlowInv, TypeOK
  <1>1. ~Reboot /\ ~Take /\ status' # status
    BY DEF Reboot, Take, Forward
  <1>2. \A q \in Reqs : ~Submit(q)
    BY <1>0 DEF Submit
  <1>3. /\ cur # None /\ UNCHANGED <<arrivals, queue>>
        /\ RowFailed \/ RowOk
    BY <1>1, <1>2, TaskStep
  <1>4. \E v : status' = [status EXCEPT ![cur] = v]
    BY <1>1, <1>3 DEF RowFailed, RowOk, Finish, Answer
  <1>5. QED
    BY <1>0, <1>3, <1>4

\* OrderInv is preserved by every step: a row is written after every row of
\* the requests that are already acknowledged, and a request is acknowledged
\* before anything is sent for those that arrived after it.
LEMMA OrderInvStep ==
    ASSUME ConstantsAssumption, FlowInv, AckInv, LineInv, LineInv', SentInv', FlowInv',
           OrderInv, [Next]_vars
    PROVE  OrderInv'
  <1> SUFFICES ASSUME NEW m \in 1..Len(arrivals'), NEW n \in 1..Len(arrivals'), m < n,
                      status'[arrivals'[m]] = "ok",
                      NEW i \in 1..Rows[arrivals'[m]], NEW k \in 1..Len(db'),
                      db'[k].req = arrivals'[n]
               PROVE  \E j \in 1..(k - 1) : db'[j].req = arrivals'[m] /\ db'[j].row = i
    BY DEF OrderInv, Holds
  <1>1. /\ Len(arrivals) \in Nat /\ Done \in Nat /\ Done' \in Nat
        /\ Len(arrivals') \in Nat /\ Done' =< Len(arrivals') /\ Done' =< Len(arrivals)
        /\ \A a \in 1..Len(arrivals) : arrivals'[a] = arrivals[a]
        /\ \A a, b \in 1..Len(arrivals') : arrivals'[a] = arrivals'[b] => a = b
        /\ Len(arrivals) =< Len(arrivals')
    <2>1. TypeOK /\ TypeOK'
      BY DEF FlowInv
    <2>2. Len(arrivals') \in Nat /\ Len(queue') \in Nat /\ Len(arrivals') = Done' + Len(queue')
      BY <2>1 DEF Done, TypeOK
    <2>3. /\ Done' =< Len(arrivals) /\ Len(arrivals) =< Len(arrivals')
          /\ \A a \in 1..Len(arrivals) : arrivals'[a] = arrivals[a]
      BY LineInvStep
    <2>4. /\ Done \in Nat /\ Done' \in Nat
          /\ \A a, b \in 1..Len(arrivals') : arrivals'[a] = arrivals'[b] => a = b
      BY DEF LineInv
    <2>5. Len(arrivals) \in Nat
      BY <2>1, LineLengths
    <2>6. QED
      BY <2>2, <2>3, <2>4, <2>5
  <1>2. n =< Done'
    <2>1. db' \in Seq(Attempts)
      BY DEF FlowInv, TypeOK
    <2>2. PICK a \in Attempts : a = db'[k]
      BY <2>1
    <2>3. AmongFirst(arrivals'[n], arrivals', Done')
      <3>1. Sent(a)'
        BY <2>2 DEF Sent, Stored
      <3>2. QED
        BY <2>2, <3>1 DEF SentInv
    <2>4. PICK p \in 1..Done' : arrivals'[p] = arrivals'[n]
      BY <2>3 DEF AmongFirst
    <2>5. p \in 1..Len(arrivals')
      BY <1>1, <2>4
    <2>6. p = n
      BY <1>1, <2>4, <2>5
    <2>7. QED
      BY <2>4, <2>6
  <1>3. /\ m \in 1..Len(arrivals) /\ n \in 1..Len(arrivals)
        /\ arrivals'[m] = arrivals[m] /\ arrivals'[n] = arrivals[n]
    BY <1>1, <1>2
  <1>4. arrivals[m] \in Reqs
    BY <1>3, LineLengths DEF FlowInv
  <1>5. CASE status[arrivals[m]] = "ok"
    <2>1. k \in 1..Len(db) \/ (k > Len(db) /\ Len(db) \in Nat)
      BY FileGrows
    <2>2. CASE k \in 1..Len(db)
      <3>1. db[k].req = arrivals[n]
        BY <1>3, <2>2, FileGrows
      <3>2. PICK j \in 1..(k - 1) : Holds(j, arrivals[m], i)
        BY <1>3, <1>5, <2>2, <3>1 DEF OrderInv
      <3>3. j \in 1..Len(db)
        BY <2>2, FileGrows
      <3>4. db'[j] = db[j]
        BY <3>3, FileGrows
      <3>5. QED
        BY <1>3, <3>2, <3>4 DEF Holds
    <2>3. CASE k > Len(db) /\ Len(db) \in Nat
      <3>1. RowIn(arrivals[m], i, db)
        BY <1>3, <1>4, <1>5 DEF AckInv
      <3>2. PICK j \in 1..Len(db) : db[j].req = arrivals[m] /\ db[j].row = i
        BY <3>1 DEF RowIn
      <3>3. db'[j] = db[j] /\ j \in 1..(k - 1)
        <4>1. j \in 1..(k - 1)
          BY <2>3
        <4>2. QED
          BY <4>1, FileGrows
      <3>4. QED
        BY <1>3, <3>2, <3>3
    <2>4. QED
      BY <2>1, <2>2, <2>3
  <1>6. CASE status[arrivals[m]] # "ok"
    <2>1. arrivals[m] = cur /\ cur # None /\ Done' = Done /\ arrivals' = arrivals
      BY <1>3, <1>4, <1>6, NewlyOk DEF Done
    <2>2. Done > 0 /\ arrivals[Done] = cur
      BY <2>1 DEF LineInv
    <2>3. Done \in 1..Len(arrivals')
      BY <1>1, <2>1, <2>2
    <2>4. m = Done'
      BY <1>1, <2>1, <2>2, <2>3
    <2>5. QED
      BY <1>1, <1>2, <2>4
  <1>7. QED
    BY <1>5, <1>6

\* OrderInv holds in every reachable state.
LEMMA OrderInvHolds ==
    ASSUME ConstantsAssumption
    PROVE  Spec => []OrderInv
  <1>1. Init => OrderInv
    BY EmptySeq DEF Init, OrderInv
  <1>2. /\ FlowInv /\ FlowInv' /\ AckInv /\ LineInv /\ LineInv' /\ SentInv' /\ OrderInv
        /\ [Next]_vars
        => OrderInv'
    BY OrderInvStep
  <1>3. QED
    BY <1>1, <1>2, FlowInvHolds, AckInvHolds, LineInvHolds, SentInvHolds, PTL DEF Spec

\* Of two calls that a replica has acknowledged, the rows of the one that
\* arrived first are in the file before any row of the other: on either
\* connection, across the fallback, and with a master that executes calls and
\* the messages of broken sockets in any order.
THEOREM OrderKept ==
    ASSUME ConstantsAssumption
    PROVE  Spec => []AckedInOrder
  <1>1. FlowInv /\ OrderInv => AckedInOrder
    <2> SUFFICES ASSUME FlowInv, OrderInv PROVE AckedInOrder
      OBVIOUS
    <2>1. DOMAIN arrivals = 1..Len(arrivals) /\ DOMAIN db = 1..Len(db)
      BY LenProperties DEF FlowInv, TypeOK
    <2>2. QED
      BY <2>1 DEF OrderInv, AckedInOrder
  <1>2. QED
    BY <1>1, FlowInvHolds, OrderInvHolds, PTL

-----------------------------------------------------------------------------
(* No attempt is executed twice.                                           *)

\* A member that is new keeps a sequence free of repetitions.
LEMMA NoRepeatAppend ==
    ASSUME NEW S, NEW s \in Seq(S), NEW a \in S, NoRepeat(s),
           \A k \in 1..Len(s) : s[k] # a
    PROVE  NoRepeat(Append(s, a))
  <1>1. /\ Len(s) \in Nat /\ Len(Append(s, a)) = Len(s) + 1
        /\ \A k \in 1..Len(s) : Append(s, a)[k] = s[k]
        /\ Append(s, a)[Len(s) + 1] = a
    BY AppendProperties, LenProperties
  <1>2. SUFFICES ASSUME NEW j \in 1..Len(Append(s, a)), NEW k \in 1..Len(Append(s, a)),
                        Append(s, a)[j] = Append(s, a)[k]
                 PROVE  j = k
    BY DEF NoRepeat
  <1>3. /\ j \in 1..Len(s) \/ j = Len(s) + 1
        /\ k \in 1..Len(s) \/ k = Len(s) + 1
    BY <1>1
  <1>4. CASE j \in 1..Len(s) /\ k \in 1..Len(s)
    BY <1>1, <1>2, <1>4 DEF NoRepeat
  <1>5. CASE j = Len(s) + 1 /\ k \in 1..Len(s)
    BY <1>1, <1>2, <1>5
  <1>6. CASE k = Len(s) + 1 /\ j \in 1..Len(s)
    BY <1>1, <1>2, <1>6
  <1>7. QED
    BY <1>3, <1>4, <1>5, <1>6

\* What is left of a sequence without repetitions has none, and lacks its head.
LEMMA NoRepeatTail ==
    ASSUME NEW S, NEW s \in Seq(S), s # <<>>, NoRepeat(s)
    PROVE  /\ NoRepeat(Tail(s))
           /\ Head(s) = s[1] /\ Head(s) \in S /\ 1 \in 1..Len(s)
           /\ \A k \in 1..Len(Tail(s)) :
                 /\ k + 1 \in 1..Len(s) /\ Tail(s)[k] = s[k + 1]
                 /\ Tail(s)[k] # Head(s)
  <1>1. /\ Head(s) = s[1] /\ Head(s) \in S /\ 1 \in 1..Len(s) /\ Len(s) \in Nat
        /\ Len(Tail(s)) \in Nat
        /\ \A k \in 1..Len(Tail(s)) : k + 1 \in 1..Len(s) /\ Tail(s)[k] = s[k + 1]
    OBVIOUS
  <1>2. ASSUME NEW k \in 1..Len(Tail(s)) PROVE Tail(s)[k] # Head(s)
    <2>1. k + 1 \in 1..Len(s) /\ k + 1 # 1
      BY <1>1
    <2>2. s[k + 1] # s[1]
      BY <1>1, <2>1 DEF NoRepeat
    <2>3. QED
      BY <1>1, <2>2
  <1>3. ASSUME NEW j \in 1..Len(Tail(s)), NEW k \in 1..Len(Tail(s)), Tail(s)[j] = Tail(s)[k]
        PROVE  j = k
    <2>1. s[j + 1] = s[k + 1] /\ j + 1 \in 1..Len(s) /\ k + 1 \in 1..Len(s)
      BY <1>1, <1>3
    <2>2. j + 1 = k + 1
      BY <2>1 DEF NoRepeat
    <2>3. QED
      BY <1>1, <2>2
  <1>4. QED
    BY <1>1, <1>2, <1>3 DEF NoRepeat

\* The attempt that the task is about to send is new.
LEMMA NewAttempt ==
    ASSUME ConstantsAssumption, FlowInv, SentInv
    PROVE  /\ phase = "send" => Attempt("grpc") \in Attempts /\ ~Sent(Attempt("grpc"))
           /\ phase \in {"send", "ws"} => Attempt("ws") \in Attempts /\ ~Sent(Attempt("ws"))
  <1>1. SUFFICES ASSUME phase \in {"send", "ws"}, NEW via \in {"grpc", "ws"},
                        phase = "send" \/ via = "ws"
                 PROVE  Attempt(via) \in Attempts /\ ~Sent(Attempt(via))
    OBVIOUS
  <1>2. Attempt(via) \in Attempts /\ row \in Nat
    BY <1>1, AttemptType DEF FlowInv, CurInv
  <1>3. Attempt(via).req = cur /\ Attempt(via).row = row /\ Attempt(via).via = via
    BY DEF Attempt
  <1>4. ~(row < row)
    BY <1>2
  <1>5. QED
    BY <1>1, <1>2, <1>3, <1>4 DEF SentInv

\* OnceInv is preserved by every step.
LEMMA OnceInvStep ==
    ASSUME ConstantsAssumption, FlowInv, SentInv, OnceInv, [Next]_vars
    PROVE  OnceInv'
  <1>0. /\ TypeOK /\ wire \in Seq(Attempts) /\ db \in Seq(Attempts) /\ calls \subseteq Attempts
        /\ \A q \in old : q \in Seq(Attempts) /\ q # <<>>
    BY DEF FlowInv, TypeOK
  <1>1. /\ NoRepeat(db) /\ NoRepeat(wire)
        /\ \A a \in calls : a.via = "grpc" /\ ~Stored(a)
        /\ \A k \in 1..Len(wire) : wire[k].via = "ws" /\ ~Stored(wire[k]) /\ ~InOld(wire[k])
        /\ \A q \in old : NoRepeat(q) /\ \A k \in 1..Len(q) : q[k].via = "ws" /\ ~Stored(q[k])
        /\ \A p, q \in old : \A j \in 1..Len(p), k \in 1..Len(q) : p[j] = q[k] => p = q
    BY DEF OnceInv
  <1>2. ASSUME NEW h \in Attempts, ~Stored(h), NEW ok, Execute(h, ok)
        PROVE  NoRepeat(db') /\ \A a : Stored(a)' => Stored(a) \/ a = h
    <2>1. CASE db' = db
      BY <1>1, <2>1 DEF Stored
    <2>2. CASE db' = Append(db, h)
      <3>1. NoRepeat(db')
        BY <1>0, <1>1, <1>2, <2>2, NoRepeatAppend DEF Stored
      <3>2. \A a : Stored(a)' => Stored(a) \/ a = h
        BY <1>0, <2>2 DEF Stored
      <3>3. QED
        BY <3>1, <3>2
    <2>3. QED
      BY <1>2, <2>1, <2>2 DEF Execute
  <1>3. CASE UNCHANGED <<calls, wire, old, db>>
    BY <1>1, <1>3 DEF OnceInv, Stored, InOld
  <1>4. CASE SendGrpc
    <2>1. calls' = calls \cup {Attempt("grpc")} /\ UNCHANGED <<wire, old, db>>
          /\ phase = "send"
      BY <1>4 DEF SendGrpc, socket
    <2>2. ~Stored(Attempt("grpc")) /\ Attempt("grpc").via = "grpc"
      BY <2>1, NewAttempt DEF Sent, Attempt
    <2>3. QED
      BY <1>1, <2>1, <2>2 DEF OnceInv, Stored, InOld
  <1>5. CASE SendWs
    <2>1. wire' = Append(wire, Attempt("ws")) /\ UNCHANGED <<calls, old, db>> /\ phase = "ws"
      BY <1>5 DEF SendWs, grpc
    <2>2. /\ ~Stored(Attempt("ws")) /\ ~InOld(Attempt("ws")) /\ ~OnWire(Attempt("ws"))
          /\ Attempt("ws").via = "ws" /\ Attempt("ws") \in Attempts
      BY <2>1, NewAttempt DEF Sent, Attempt
    <2>3. NoRepeat(wire')
      BY <1>0, <1>1, <2>1, <2>2, NoRepeatAppend DEF OnWire
    <2>4. \A k \in 1..Len(wire') :
             wire'[k].via = "ws" /\ ~Stored(wire'[k]) /\ ~InOld(wire'[k])
      <3>1. \A k \in 1..Len(wire') : wire'[k] = Attempt("ws")
               \/ (k \in 1..Len(wire) /\ wire'[k] = wire[k])
        BY <1>0, <2>1, <2>2
      <3>2. QED
        BY <1>1, <2>2, <3>1
    <2>5. QED
      BY <1>1, <2>1, <2>3, <2>4 DEF OnceInv, Stored, InOld
  <1>6. CASE WsBreaks \/ Reboot
    <2>1. wire' = <<>> /\ Len(wire') = 0 /\ old' = Orphans /\ UNCHANGED <<calls, db>>
      BY <1>6, EmptySeq DEF WsBreaks, Reboot, grpc
    <2>2. \A q \in old' : q \in old \/ q = wire
      BY <2>1 DEF Orphans
    <2>3. \A q \in old : \A k \in 1..Len(q), j \in 1..Len(wire) : q[k] # wire[j]
      BY <1>1 DEF InOld
    <2>4. \A p, q \in old' : \A j \in 1..Len(p), k \in 1..Len(q) : p[j] = q[k] => p = q
      BY <1>1, <2>2, <2>3
    <2>5. \A q \in old' :
             NoRepeat(q) /\ \A k \in 1..Len(q) : q[k].via = "ws" /\ ~Stored(q[k])
      BY <1>1, <2>2
    <2>6. NoRepeat(wire') /\ 1..Len(wire') = {}
      BY <2>1 DEF NoRepeat
    <2>7. QED
      BY <1>1, <2>1, <2>4, <2>5, <2>6 DEF OnceInv, Stored
  <1>7. CASE Crash
    <2>1. wire' = <<>> /\ Len(wire') = 0 /\ old' = {} /\ calls' = {} /\ db' = db
      BY <1>7, EmptySeq DEF Crash
    <2>2. NoRepeat(wire') /\ 1..Len(wire') = {}
      BY <2>1 DEF NoRepeat
    <2>3. QED
      BY <1>1, <2>1, <2>2 DEF OnceInv
  <1>8. CASE ExecGrpc
    <2>1. PICK h \in calls, ok \in BOOLEAN : Execute(h, ok) /\ calls' = calls \ {h}
      BY <1>8 DEF ExecGrpc
    <2>2. UNCHANGED <<wire, old>>
      BY <1>8 DEF ExecGrpc, socket
    <2>3. h.via = "grpc" /\ NoRepeat(db') /\ \A a : Stored(a)' => Stored(a) \/ a = h
      BY <1>0, <1>1, <1>2, <2>1
    <2>4. \A k \in 1..Len(wire) : wire[k] # h
      BY <1>1, <2>3
    <2>5. \A q \in old : \A k \in 1..Len(q) : q[k] # h
      BY <1>1, <2>3
    <2>6. \A a : InOld(a)' <=> InOld(a)
      BY <2>2 DEF InOld
    <2>7. QED
      BY <1>1, <2>1, <2>2, <2>3, <2>4, <2>5, <2>6 DEF OnceInv
  <1>9. CASE ExecWs
    <2>1. PICK ok \in BOOLEAN : Execute(Head(wire), ok)
      BY <1>9 DEF ExecWs
    <2>2. UNCHANGED <<calls, old>> /\ wire' = Tail(wire) /\ wire # <<>>
      BY <1>9 DEF ExecWs, grpc
    <2>3. /\ NoRepeat(Tail(wire))
          /\ Head(wire) = wire[1] /\ Head(wire) \in Attempts /\ 1 \in 1..Len(wire)
          /\ \A k \in 1..Len(Tail(wire)) :
                /\ k + 1 \in 1..Len(wire) /\ Tail(wire)[k] = wire[k + 1]
                /\ Tail(wire)[k] # Head(wire)
      BY <1>0, <1>1, <2>2, NoRepeatTail
    <2>4. Head(wire).via = "ws" /\ ~Stored(Head(wire)) /\ ~InOld(Head(wire))
      BY <1>1, <2>3
    <2>5. NoRepeat(db') /\ \A a : Stored(a)' => Stored(a) \/ a = Head(wire)
      BY <1>2, <2>1, <2>3, <2>4
    <2>6. \A a \in calls' : a.via = "grpc" /\ ~Stored(a)'
      BY <1>1, <2>2, <2>4, <2>5
    <2>7. \A a : InOld(a)' <=> InOld(a)
      BY <2>2 DEF InOld
    <2>8. \A k \in 1..Len(Tail(wire)) :
             /\ Tail(wire)[k].via = "ws" /\ ~Stored(Tail(wire)[k])
             /\ ~InOld(Tail(wire)[k]) /\ Tail(wire)[k] # Head(wire)
      BY <1>1, <2>3
    <2>9. \A q \in old : \A k \in 1..Len(q) : q[k] # Head(wire)
      BY <2>4 DEF InOld
    <2>10. \A q \in old' :
             NoRepeat(q) /\ \A k \in 1..Len(q) : q[k].via = "ws" /\ ~Stored(q[k])'
      BY <1>1, <2>2, <2>5, <2>9
    <2>11. \A a, k : k \in 1..Len(Tail(wire)) /\ a = Tail(wire)[k]
                     => a.via = "ws" /\ ~Stored(a)' /\ ~InOld(a)'
      BY <2>5, <2>7, <2>8
    <2>12. QED
      BY <1>1, <2>2, <2>3, <2>5, <2>6, <2>10, <2>11 DEF OnceInv
  <1>10. CASE ExecOld
    <2>1. PICK q \in old :
             \/ /\ \E ok \in BOOLEAN : Execute(Head(q), ok)
                /\ old' = (old \ {q}) \cup ({Tail(q)} \ {<<>>})
             \/ /\ old' = old \ {q}
                /\ db' = db
      BY <1>10 DEF ExecOld
    <2>2. UNCHANGED <<calls, wire>>
      BY <1>10 DEF ExecOld, grpc
    <2>3. CASE old' = old \ {q} /\ db' = db
      <3>1. \A a : InOld(a)' => InOld(a)
        BY <2>3 DEF InOld
      <3>2. \A a : Stored(a)' <=> Stored(a)
        BY <2>3 DEF Stored
      <3>3. QED
        BY <1>1, <2>2, <2>3, <3>1, <3>2 DEF OnceInv
    <2>4. CASE /\ \E ok \in BOOLEAN : Execute(Head(q), ok)
               /\ old' = (old \ {q}) \cup ({Tail(q)} \ {<<>>})
      <3> DEFINE h == Head(q)
                 rest == Tail(q)
      <3>1. /\ NoRepeat(rest)
            /\ h = q[1] /\ h \in Attempts /\ 1 \in 1..Len(q)
            /\ \A k \in 1..Len(rest) :
                  k + 1 \in 1..Len(q) /\ rest[k] = q[k + 1] /\ rest[k] # h
        BY <1>0, <1>1, NoRepeatTail
      <3>2. old' \subseteq (old \ {q}) \cup {rest} /\ \E ok \in BOOLEAN : Execute(h, ok)
        BY <2>4
      <3> HIDE DEF h, rest
      <3>3. h.via = "ws" /\ ~Stored(h) /\ InOld(h)
        BY <1>1, <3>1 DEF InOld
      <3>4. NoRepeat(db') /\ \A a : Stored(a)' => Stored(a) \/ a = h
        BY <1>2, <3>1, <3>2, <3>3
      <3>5. \A a \in calls' : a.via = "grpc" /\ ~Stored(a)'
        BY <1>1, <2>2, <3>3, <3>4
      <3>6. \A a : InOld(a)' => InOld(a)
        BY <3>1, <3>2 DEF InOld
      <3>7. \A k \in 1..Len(wire) : wire[k] # h
        BY <1>1, <3>3
      <3>8. \A a, k : k \in 1..Len(wire) /\ a = wire[k]
                      => a.via = "ws" /\ ~Stored(a)' /\ ~InOld(a)'
        BY <1>1, <3>4, <3>6, <3>7
      <3>9. \A p \in old \ {q} : \A k \in 1..Len(p) : p[k] # h
        BY <1>1, <3>1
      <3>10. \A p \in old' : \A k \in 1..Len(p) : p[k].via = "ws" /\ p[k] # h /\ ~Stored(p[k])
        <4> SUFFICES ASSUME NEW p \in old', NEW k \in 1..Len(p)
                     PROVE  p[k].via = "ws" /\ p[k] # h /\ ~Stored(p[k])
          OBVIOUS
        <4>1. CASE p \in old \ {q}
          BY <1>1, <3>9, <4>1
        <4>2. CASE p = rest
          <5>1. k \in 1..Len(rest) /\ k + 1 \in 1..Len(q) /\ p[k] = q[k + 1] /\ p[k] # h
            BY <3>1, <4>2
          <5>2. QED
            BY <1>1, <5>1
        <4>3. QED
          BY <3>2, <4>1, <4>2
      <3>11. \A p \in old' :
                NoRepeat(p) /\ \A a, k : k \in 1..Len(p) /\ a = p[k]
                                         => a.via = "ws" /\ ~Stored(a)'
        BY <1>1, <3>1, <3>2, <3>4, <3>10
      <3>12. \A p \in old \ {q} : \A j \in 1..Len(p), k \in 1..Len(rest) : p[j] # rest[k]
        BY <1>1, <3>1
      <3>13. \A p, r \in old' : \A j \in 1..Len(p), k \in 1..Len(r) : p[j] = r[k] => p = r
        BY <1>1, <3>2, <3>12
      <3>14. QED
        BY <1>1, <2>2, <3>4, <3>5, <3>8, <3>11, <3>13 DEF OnceInv
    <2>5. QED
      BY <2>1, <2>3, <2>4
  <1>11. QED
    BY <1>3, <1>4, <1>5, <1>6, <1>7, <1>8, <1>9, <1>10
    DEF Next, Task, Environment, Master, Submit, Take, Forward, GrpcOk, GrpcRefused,
      GrpcLost, UseWs, SendWsFails, WsAnswer, WsTimeout, NoChannel, GrpcBreaks,
      StreamerFallsBack, WsConnect, vars, grpc, socket

\* OnceInv holds in every reachable state.
LEMMA OnceInvHolds ==
    ASSUME ConstantsAssumption
    PROVE  Spec => []OnceInv
  <1>1. Init => OnceInv
    BY EmptySeq DEF Init, OnceInv, NoRepeat
  <1>2. FlowInv /\ SentInv /\ OnceInv /\ [Next]_vars => OnceInv'
    BY OnceInvStep
  <1>3. QED
    BY <1>1, <1>2, FlowInvHolds, SentInvHolds, PTL DEF Spec

-----------------------------------------------------------------------------
(* How many rows can come to be in the file twice.                         *)

\* How the task comes to wait for gRPC, or to turn to the WebSocket.
LEMMA PhaseStep ==
    ASSUME [Next]_vars
    PROVE  /\ phase' = "ws" =>
                 \/ phase \in {"ws", "send"} /\ UNCHANGED <<cur, row>>
                 \/ phase = "call" /\ UNCHANGED <<cur, row>> /\ fallback'
           /\ phase' = "call" => SendGrpc \/ (phase = "call" /\ UNCHANGED <<cur, row>>)
           /\ \/ boots' = boots /\ (fallback => fallback')
              \/ boots' = boots + 1 /\ fallback' = FALSE /\ phase' = "idle"
  <1>1. CASE UNCHANGED vars
    BY <1>1 DEF vars, replica
  <1>2. CASE \/ \E r \in Reqs : Submit(r)
             \/ Take \/ SendGrpc \/ UseWs \/ SendWs
    BY <1>2 DEF Submit, Take, Forward, SendGrpc, UseWs, SendWs
  <1>3. CASE \/ GrpcRefused \/ GrpcLost \/ GrpcBreaks \/ NoChannel
    BY <1>3 DEF GrpcRefused, GrpcLost, GrpcBreaks, NoChannel, TurnToWs
  <1>4. CASE GrpcOk \/ SendWsFails \/ WsTimeout
    BY <1>4 DEF GrpcOk, SendWsFails, WsTimeout, RowOk, RowFailed, Finish
  <1>5. CASE WsAnswer
    <2>1. UNCHANGED <<boots, fallback>>
      BY <1>5 DEF WsAnswer
    <2>2. UNCHANGED <<cur, row, phase>> \/ RowOk \/ RowFailed
      BY <1>5 DEF WsAnswer
    <2>3. UNCHANGED <<cur, row, phase>> \/ phase' \in {"idle", "send"}
      BY <2>2 DEF RowOk, RowFailed, Finish
    <2>4. QED
      BY <2>1, <2>3
  <1>6. CASE StreamerFallsBack \/ WsConnect \/ WsBreaks \/ Crash \/ Reboot \/ Master
    BY <1>6 DEF StreamerFallsBack, WsConnect, WsBreaks, Crash, Reboot, Master, ExecGrpc,
      ExecWs, ExecOld, replica
  <1>7. QED
    BY <1>1, <1>2, <1>3, <1>4, <1>5, <1>6 DEF Next, Task, Environment

\* A step exposes at most the row whose gRPC call is given up.
LEMMA ExposedStep ==
    ASSUME ConstantsAssumption, FlowInv, SentInv, [Next]_vars
    PROVE  /\ Exposed' \subseteq AtRisk
           /\ fallback' = FALSE => Exposed' \subseteq Exposed
           /\ fallback' => AtRisk' \subseteq AtRisk
  <1>0. TypeOK
    BY DEF FlowInv
  <1>1. ASSUME NEW x \in Exposed'
        PROVE  x \in Exposed \/ (x \in AtRisk /\ fallback')
    <2> DEFINE G == [req |-> x[1], row |-> x[2], via |-> "grpc"]
               W == [req |-> x[1], row |-> x[2], via |-> "ws"]
    <2>1. /\ x \in Reqs \X (Nat \ {0}) /\ Sent(G)'
          /\ Sent(W)' \/ (phase' = "ws" /\ x = <<cur', row'>>)
      BY <1>1 DEF Exposed, SentVia, Present
    <2>2. x \in Exposed <=> Sent(G) /\ (Sent(W) \/ (phase = "ws" /\ x = <<cur, row>>))
      BY <2>1 DEF Exposed, SentVia, Present
    <2>3. x = <<cur, row>> <=> G = Attempt("grpc")
      <3>1. G = Attempt("grpc") => x[1] = cur /\ x[2] = row
        BY DEF Attempt
      <3>2. QED
        BY <2>1, <3>1 DEF Attempt
    <2>4. x = <<cur, row>> <=> W = Attempt("ws")
      <3>1. W = Attempt("ws") => x[1] = cur /\ x[2] = row
        BY DEF Attempt
      <3>2. QED
        BY <2>1, <3>1 DEF Attempt
    <2>5. G # Attempt("ws") /\ W # Attempt("grpc")
      <3>1. G.via = "grpc" /\ W.via = "ws" /\ Attempt("ws").via = "ws"
            /\ Attempt("grpc").via = "grpc"
        BY DEF Attempt
      <3>2. QED
        BY <3>1
    <2> HIDE DEF G, W
    <2>6. Sent(G) \/ (SendGrpc /\ G = Attempt("grpc"))
      BY <1>0, <2>1, <2>5, SentStep
    <2>7. Sent(W)' => Sent(W) \/ (SendWs /\ W = Attempt("ws"))
      BY <1>0, <2>5, SentStep
    <2>8. SendGrpc => phase = "send" /\ phase' = "call" /\ ~SendWs
      BY DEF SendGrpc, SendWs
    <2>9. CASE SendGrpc /\ G = Attempt("grpc")
      <3>1. ~Sent(W) /\ phase' # "ws"
        BY <2>3, <2>4, <2>8, <2>9, NewAttempt
      <3>2. QED
        BY <2>1, <2>7, <2>8, <2>9, <3>1
    <2>10. CASE Sent(G) /\ Sent(W)'
      <3>1. SendWs => phase = "ws"
        BY DEF SendWs
      <3>2. QED
        BY <2>2, <2>4, <2>7, <2>10, <3>1
    <2>11. CASE Sent(G) /\ phase' = "ws" /\ x = <<cur', row'>>
      <3>1. CASE phase \in {"ws", "send"} /\ UNCHANGED <<cur, row>>
        <4>1. G = Attempt("grpc") /\ x = <<cur, row>>
          BY <2>3, <2>11, <3>1
        <4>2. phase # "send"
          BY <2>11, <4>1, NewAttempt
        <4>3. QED
          BY <2>2, <2>11, <3>1, <4>1, <4>2
      <3>2. CASE phase = "call" /\ UNCHANGED <<cur, row>> /\ fallback'
        BY <2>11, <3>2 DEF AtRisk, Present
      <3>3. QED
        BY <2>11, <3>1, <3>2, PhaseStep
    <2>12. QED
      BY <2>1, <2>6, <2>9, <2>10, <2>11
  <1>2. Exposed \subseteq AtRisk
    BY DEF AtRisk
  <1>3. Exposed' \subseteq AtRisk
    BY <1>1, <1>2
  <1>4. fallback' = FALSE => Exposed' \subseteq Exposed
    BY <1>1
  <1>5. ASSUME fallback' PROVE AtRisk' \subseteq AtRisk
    <2>1. ~SendGrpc
      BY <1>5 DEF SendGrpc, TriesGrpc
    <2>2. CASE phase' = "call"
      <3>1. phase = "call" /\ cur' = cur /\ row' = row
        BY <2>1, <2>2, PhaseStep
      <3>2. Present' = Present
        BY <3>1 DEF Present
      <3>3. QED
        BY <1>3, <2>2, <3>1, <3>2 DEF AtRisk
    <2>3. CASE phase' # "call"
      BY <1>3, <2>3 DEF AtRisk
    <2>4. QED
      BY <2>2, <2>3
  <1>6. QED
    BY <1>3, <1>4, <1>5

\* DoubleInv is preserved by every step.
LEMMA DoubleInvStep ==
    ASSUME ConstantsAssumption, FlowInv, SentInv, DoubleInv, [Next]_vars
    PROVE  DoubleInv'
  <1>0. boots \in Nat /\ fallback \in BOOLEAN /\ IsFiniteSet(Exposed)
    BY DEF FlowInv, TypeOK, ConstantsAssumption, DoubleInv
  <1>1. /\ IsFiniteSet(AtRisk) /\ Exposed \subseteq AtRisk
        /\ Cardinality(Exposed) \in Nat /\ Cardinality(AtRisk) \in Nat
        /\ Cardinality(Exposed) =< Cardinality(AtRisk)
        /\ Cardinality(AtRisk) =< Cardinality(Exposed) + 1
    <2>1. AtRisk = Exposed \/ AtRisk = Exposed \cup {Present}
      BY DEF AtRisk
    <2>2. /\ IsFiniteSet(Exposed \cup {Present})
          /\ \/ Cardinality(Exposed \cup {Present}) = Cardinality(Exposed)
             \/ Cardinality(Exposed \cup {Present}) = Cardinality(Exposed) + 1
      BY <1>0, FS_AddElement
    <2>3. Cardinality(Exposed) \in Nat
      BY <1>0, FS_CardinalityType
    <2>4. CASE AtRisk = Exposed
      BY <1>0, <2>3, <2>4
    <2>5. CASE AtRisk = Exposed \cup {Present}
      <3>1. IsFiniteSet(AtRisk) /\ Exposed \subseteq AtRisk
        BY <2>2, <2>5
      <3>2. \/ Cardinality(AtRisk) = Cardinality(Exposed)
            \/ Cardinality(AtRisk) = Cardinality(Exposed) + 1
        BY <2>2, <2>5
      <3>3. QED
        BY <2>3, <3>1, <3>2
    <2>6. QED
      BY <2>1, <2>4, <2>5
  <1>2. Cardinality(Exposed) =< boots /\ Cardinality(AtRisk) =< boots
        /\ (~fallback => Cardinality(Exposed) < boots)
    BY <1>0, <1>1 DEF DoubleInv
  <1>3. IsFiniteSet(Exposed')
    BY <1>1, ExposedStep, FS_Subset
  <1>4. ASSUME ~fallback' PROVE Cardinality(Exposed') < boots'
    <2>1. Exposed' \subseteq Exposed
      <3>1. fallback' \in BOOLEAN
        BY FlowInvStep DEF FlowInv, TypeOK
      <3>2. QED
        BY <1>4, <3>1, ExposedStep
    <2>2. Cardinality(Exposed') =< Cardinality(Exposed) /\ Cardinality(Exposed') \in Nat
      BY <1>0, <1>3, <2>1, FS_Subset, FS_CardinalityType
    <2>3. (boots' = boots /\ ~fallback) \/ boots' = boots + 1
      BY <1>4, PhaseStep
    <2>4. QED
      BY <1>0, <1>1, <1>2, <2>2, <2>3
  <1>5. ASSUME fallback' PROVE Cardinality(AtRisk') =< boots'
    <2>1. AtRisk' \subseteq AtRisk
      BY <1>5, ExposedStep
    <2>2. Cardinality(AtRisk') =< Cardinality(AtRisk) /\ Cardinality(AtRisk') \in Nat
      BY <1>1, <2>1, FS_Subset, FS_CardinalityType
    <2>3. boots' = boots
      BY <1>5, PhaseStep
    <2>4. QED
      BY <1>0, <1>1, <1>2, <2>2, <2>3
  <1>6. QED
    BY <1>3, <1>4, <1>5 DEF DoubleInv

\* DoubleInv holds in every reachable state.
LEMMA DoubleInvHolds ==
    ASSUME ConstantsAssumption
    PROVE  Spec => []DoubleInv
  <1>1. Init => DoubleInv
    <2> SUFFICES ASSUME Init PROVE DoubleInv
      OBVIOUS
    <2>1. Exposed = {}
      BY DEF Init, Exposed, SentVia, Sent, OnWire, InOld, Stored
    <2>2. IsFiniteSet(Exposed) /\ Cardinality(Exposed) = 0
      BY <2>1, FS_EmptySet
    <2>3. fallback = FALSE /\ boots = 1
      BY DEF Init
    <2>4. QED
      BY <2>2, <2>3 DEF DoubleInv
  <1>2. FlowInv /\ SentInv /\ DoubleInv /\ [Next]_vars => DoubleInv'
    BY DoubleInvStep
  <1>3. QED
    BY <1>1, <1>2, FlowInvHolds, SentInvHolds, PTL DEF Spec

\* A write that gRPC may have executed is executed again over the WebSocket,
\* but because USE_HTTP_FALLBACK is for good, no more rows are in the file
\* twice than the replica has been started times, and none is there thrice.
THEOREM DoublesBounded ==
    ASSUME ConstantsAssumption
    PROVE  Spec => []OneDouble
  <1>1. FlowInv /\ OnceInv /\ DoubleInv => OneDouble
    <2> SUFFICES ASSUME FlowInv, OnceInv, DoubleInv PROVE OneDouble
      OBVIOUS
    <2>1. /\ db \in Seq(Attempts) /\ DOMAIN db = 1..Len(db) /\ boots \in Nat
          /\ fallback \in BOOLEAN
      BY LenProperties DEF FlowInv, TypeOK, ConstantsAssumption
    <2>2. \A j, k \in DOMAIN db : db[j] = db[k] => j = k
      BY <2>1 DEF OnceInv, NoRepeat
    <2>3. Doubled \subseteq Exposed
      <3>1. SUFFICES ASSUME NEW x \in Doubled PROVE x \in Exposed
        OBVIOUS
      <3>2. PICK a \in ToSet(db) : x = <<a.req, a.row>>
        BY DEF Doubled
      <3>3. PICK j, k \in DOMAIN db : j # k /\ Holds(j, x[1], x[2]) /\ Holds(k, x[1], x[2])
        BY DEF Doubled
      <3>4. db[j] \in Attempts /\ db[k] \in Attempts /\ db[j] # db[k]
        BY <2>1, <2>2, <3>3
      <3>5. a \in Attempts
        BY <2>1, <3>2 DEF ToSet
      <3>6. x \in Reqs \X (Nat \ {0})
        BY <3>2, <3>5 DEF Attempts
      <3>7. \A via \in {"grpc", "ws"} : SentVia(x, via)
        <4>1. ASSUME NEW via \in {"grpc", "ws"} PROVE SentVia(x, via)
          <5>1. \A b \in Attempts : b = [req |-> b.req, row |-> b.row, via |-> b.via]
            BY DEF Attempts
          <5>2. /\ db[j] = [req |-> x[1], row |-> x[2], via |-> db[j].via]
                /\ db[k] = [req |-> x[1], row |-> x[2], via |-> db[k].via]
            BY <3>3, <3>4, <5>1 DEF Holds
          <5>3. db[j].via \in {"grpc", "ws"} /\ db[k].via \in {"grpc", "ws"}
            BY <3>4 DEF Attempts
          <5>4. db[j].via = via \/ db[k].via = via
            BY <3>4, <5>2, <5>3
          <5>5. QED
            BY <2>1, <5>2, <5>4 DEF SentVia, Sent, Stored
        <4>2. QED
          BY <4>1
      <3>8. QED
        BY <3>6, <3>7 DEF Exposed
    <2>4. Cardinality(Doubled) =< Cardinality(Exposed) /\ Cardinality(Doubled) \in Nat
      BY <2>3, FS_Subset, FS_CardinalityType DEF DoubleInv
    <2>5. Cardinality(Exposed) \in Nat /\ Cardinality(Exposed) =< boots
      <3>1. Exposed \subseteq AtRisk /\ IsFiniteSet(Exposed)
        BY DEF AtRisk, DoubleInv
      <3>2. IsFiniteSet(AtRisk)
        BY <3>1, FS_AddElement DEF AtRisk
      <3>3. Cardinality(Exposed) =< Cardinality(AtRisk) /\ Cardinality(Exposed) \in Nat
            /\ Cardinality(AtRisk) \in Nat
        BY <3>1, <3>2, FS_Subset, FS_CardinalityType
      <3>4. QED
        BY <2>1, <3>3 DEF DoubleInv
    <2>6. QED
      BY <2>1, <2>2, <2>4, <2>5 DEF OneDouble
  <1>2. QED
    BY <1>1, FlowInvHolds, OnceInvHolds, DoubleInvHolds, PTL
=============================================================================
